---------------------------- MODULE ClientsProofs ----------------------------
(***************************************************************************)
(* Theorems about Clients: that its updates are those of Update by         *)
(* themselves, that what an add has done stays declared, that managed      *)
(* settings hold, that a level of pacman.conf is what its last line says   *)
(* and checks the same when it is staged, that a recipe is built with all  *)
(* it needs, and that versions are totally ordered.                        *)
(***************************************************************************)
EXTENDS Clients, UpdateProofs, SequenceTheorems, WellFoundedInduction

-----------------------------------------------------------------------------
(* Numbers.                                                                *)

\* Of some natural numbers one is the least.
LEMMA SomeIsLeast ==
  ASSUME NEW S \in SUBSET Nat, S # {}
  PROVE  \E i \in S : \A j \in S : i <= j
<1>1. IsWellFoundedOn(OpToRel(<, Nat), Nat)
  BY NatLessThanWellFounded
<1>2. PICK i \in S : \A j \in S : ~(<<j, i>> \in OpToRel(<, Nat))
  BY <1>1, WFMin, Zenon
<1>3. \A j \in S : ~(j < i)
  BY <1>2 DEF OpToRel
<1> QED BY <1>3

-----------------------------------------------------------------------------
(* Settings.                                                               *)

SettingsSpec == SettingsInit /\ [][SettingsNext]_settingsVars

\* So far nothing is below what the managed files said, and what they replace is
\* theirs.
Floors(s, m) ==
  /\ \A f \in Ranked : s.rank[f] >= m.rank[f]
  /\ s.limit <= m.limit
  /\ s.grants \cap m.denied = {}
  /\ m.weights # {} => s.weight \in m.weights
  /\ m.lists # {} => s.excluded \in m.lists

\* What paranoid leaves.
Hard(s) == On(s) => s.grants = {} /\ \A f \in Hardened : s.rank[f] = MaxRank

SettingsInv ==
  /\ SettingsType
  /\ settings.reading = "layers" =>
       floor = [rank |-> [f \in Ranked |-> 0], limit |-> MaxRank, denied |-> {},
                weights |-> {}, lists |-> {}]
  /\ Floors(settings, floor)
  /\ settings.reading = "done" => Hard(settings)

Known ==
  [reading : {"layers", "managed", "done"}, rank : [Ranked -> Ranks],
   limit : Ranks, weight : Ranks, grants : SUBSET Grantees, excluded : SUBSET Grantees]
KnownFloor ==
  [rank : [Ranked -> Ranks], limit : Ranks, denied : SUBSET Grantees,
   weights : SUBSET Ranks, lists : SUBSET SUBSET Grantees]

\* Hardening is hard, and lowers nothing.
LEMMA HardenHolds ==
  ASSUME NEW s \in Known, NEW m \in KnownFloor, Floors(s, m)
  PROVE  /\ HardenedIfParanoid(s) \in Known /\ Floors(HardenedIfParanoid(s), m)
         /\ Hard(HardenedIfParanoid(s))
         /\ HardenedIfParanoid(s).reading = s.reading
<1>1. CASE ~On(s)
  BY <1>1 DEF HardenedIfParanoid, Hard
<1>2. CASE On(s)
  <2> PICK h : h = [s EXCEPT !.grants = {},
                             !.rank = [f \in Ranked |-> IF f \in Hardened THEN MaxRank ELSE @[f]]]
    OBVIOUS
  <2>1. MaxRank \in Ranks /\ \A n \in Ranks : MaxRank >= n
    BY SettingsAssumption DEF Ranks
  <2>2. h \in Known
    BY <2>1 DEF Known
  <2>3. /\ h.grants = {} /\ h.reading = s.reading /\ h.limit = s.limit
        /\ h.weight = s.weight /\ h.excluded = s.excluded
        /\ \A f \in Ranked : h.rank[f] = IF f \in Hardened THEN MaxRank ELSE s.rank[f]
    BY DEF Known
  <2>4. Floors(h, m)
    BY <2>1, <2>3 DEF Floors, KnownFloor, Known
  <2>5. Hard(h)
    BY <2>3 DEF Hard, Hardened, Ranked
  <2> QED BY <1>2, <2>2, <2>3, <2>4, <2>5 DEF HardenedIfParanoid, Harden
<1> QED BY <1>1, <1>2

\* A managed file that asks no less than before is applied and hardened.
LEMMA AppliedHolds ==
  ASSUME NEW s \in Known, s.reading = "managed", floor' \in KnownFloor,
         Floors(s, floor'), ApplyManaged(s)
  PROVE  SettingsInv'
<1> PICK m : m = floor'
  OBVIOUS
<1>1. HardenedIfParanoid(s) \in Known /\ Floors(HardenedIfParanoid(s), m)
      /\ HardenedIfParanoid(s).reading = "managed"
  BY HardenHolds
<1> QED BY <1>1 DEF ApplyManaged, SettingsInv, SettingsType, Known, KnownFloor

\* SettingsInv is inductive.
LEMMA SettingsStep == SettingsInv /\ [SettingsNext]_settingsVars => SettingsInv'
<1> SUFFICES ASSUME SettingsInv, [SettingsNext]_settingsVars PROVE SettingsInv'
  OBVIOUS
<1>0. settings \in Known /\ floor \in KnownFloor
  BY DEF SettingsInv, SettingsType, Known, KnownFloor
<1>r. \A m, n \in Ranks : /\ Larger(m, n) \in Ranks /\ Larger(m, n) >= m /\ Larger(m, n) >= n
                          /\ Smaller(m, n) \in Ranks /\ Smaller(m, n) <= m /\ Smaller(m, n) <= n
  BY SettingsAssumption DEF Larger, Smaller, Ranks
<1>1. CASE UNCHANGED settingsVars
  BY <1>1 DEF settingsVars, SettingsInv, SettingsType
<1>2. CASE ReadLayer
  <2>1. settings' \in Known /\ floor' = floor /\ settings'.reading = "layers"
    BY <1>0, <1>2 DEF ReadLayer, Known
  <2>2. \A n \in Ranks : n >= 0 /\ n <= MaxRank
    BY SettingsAssumption DEF Ranks
  <2>3. Floors(settings', floor')
    BY <1>2, <2>1, <2>2 DEF Floors, Known, ReadLayer, SettingsInv
  <2> QED BY <1>0, <1>2, <2>1, <2>3 DEF SettingsInv, SettingsType, Known, KnownFloor, ReadLayer
<1>3. CASE LayersEnd
  <2>1. settings' \in Known /\ floor' = floor /\ settings'.reading = "managed"
    BY <1>0, <1>3 DEF LayersEnd, Known
  <2>2. Floors(settings', floor')
    BY <1>0, <1>3 DEF LayersEnd, Floors, SettingsInv, Known
  <2> QED BY <1>0, <2>1, <2>2 DEF SettingsInv, SettingsType, Known, KnownFloor
<1>4. CASE ReadManaged
  <2>0. settings.reading = "managed" /\ Floors(settings, floor)
    BY <1>4 DEF ReadManaged, SettingsInv
  <2>1. CASE \E f \in Ranked, v \in Ranks :
               /\ ApplyManaged([settings EXCEPT !.rank[f] = Floored(@, v)])
               /\ floor' = [floor EXCEPT !.rank[f] = Larger(@, v)]
    <3> PICK f \in Ranked, v \in Ranks :
               /\ ApplyManaged([settings EXCEPT !.rank[f] = Floored(@, v)])
               /\ floor' = [floor EXCEPT !.rank[f] = Larger(@, v)]
      BY <2>1
    <3> PICK s : s = [settings EXCEPT !.rank[f] = Floored(@, v)]
      OBVIOUS
    <3>1. ApplyManaged(s)
      OBVIOUS
    <3>2. Floored(settings.rank[f], v) \in Ranks /\ Larger(floor.rank[f], v) \in Ranks
      BY <1>0, <1>r DEF Floored, Known, KnownFloor
    <3>3. s \in Known /\ floor' \in KnownFloor
      BY <1>0, <3>2 DEF Known, KnownFloor
    <3>4. /\ s.reading = settings.reading /\ s.limit = settings.limit
          /\ s.grants = settings.grants
          /\ s.weight = settings.weight /\ s.excluded = settings.excluded
          /\ \A g \in Ranked : s.rank[g] = IF g = f THEN Floored(settings.rank[f], v)
                                           ELSE settings.rank[g]
      BY <1>0 DEF Known
    <3>5. /\ floor'.limit = floor.limit /\ floor'.denied = floor.denied
          /\ floor'.weights = floor.weights /\ floor'.lists = floor.lists
          /\ \A g \in Ranked : floor'.rank[g] = IF g = f THEN Larger(floor.rank[f], v)
                                                ELSE floor.rank[g]
      BY <1>0 DEF KnownFloor
    <3>6. Floored(settings.rank[f], v) >= Larger(floor.rank[f], v)
      <4>1. settings.rank[f] \in Ranks /\ floor.rank[f] \in Ranks
        BY <1>0 DEF Known, KnownFloor
      <4>2. settings.rank[f] >= floor.rank[f]
        BY <2>0 DEF Floors
      <4> QED BY <4>1, <4>2, SettingsAssumption DEF Floored, Larger, Ranks
    <3>7. Floors(s, floor')
      BY <2>0, <3>4, <3>5, <3>6 DEF Floors
    <3> QED BY <2>0, <3>1, <3>3, <3>4, <3>7, AppliedHolds
  <2>2. CASE \E v \in Ranks :
               /\ ApplyManaged([settings EXCEPT !.limit = Limited(@, v)])
               /\ floor' = [floor EXCEPT !.limit = Smaller(@, v)]
    <3> PICK v \in Ranks :
               /\ ApplyManaged([settings EXCEPT !.limit = Limited(@, v)])
               /\ floor' = [floor EXCEPT !.limit = Smaller(@, v)]
      BY <2>2
    <3> PICK s : s = [settings EXCEPT !.limit = Limited(@, v)]
      OBVIOUS
    <3>1. ApplyManaged(s)
      OBVIOUS
    <3>2. Limited(settings.limit, v) \in Ranks /\ Smaller(floor.limit, v) \in Ranks
      BY <1>0, <1>r DEF Limited, Known, KnownFloor
    <3>3. s \in Known /\ floor' \in KnownFloor
      BY <1>0, <3>2 DEF Known, KnownFloor
    <3>4. /\ s.reading = settings.reading /\ s.limit = Limited(settings.limit, v)
          /\ s.grants = settings.grants /\ s.rank = settings.rank
          /\ s.weight = settings.weight /\ s.excluded = settings.excluded
      BY <1>0 DEF Known
    <3>5. /\ floor'.limit = Smaller(floor.limit, v) /\ floor'.denied = floor.denied
          /\ floor'.weights = floor.weights /\ floor'.lists = floor.lists
          /\ floor'.rank = floor.rank
      BY <1>0 DEF KnownFloor
    <3>6. Limited(settings.limit, v) <= Smaller(floor.limit, v)
      <4>1. settings.limit \in Ranks /\ floor.limit \in Ranks
        BY <1>0 DEF Known, KnownFloor
      <4>2. settings.limit <= floor.limit
        BY <2>0 DEF Floors
      <4> QED BY <4>1, <4>2, SettingsAssumption DEF Limited, Smaller, Ranks
    <3>7. Floors(s, floor')
      BY <2>0, <3>4, <3>5, <3>6 DEF Floors
    <3> QED BY <2>0, <3>1, <3>3, <3>4, <3>7, AppliedHolds
  <2>3. CASE \E p \in Grantees :
               /\ ApplyManaged([settings EXCEPT !.grants = @ \ {p}])
               /\ floor' = [floor EXCEPT !.denied = @ \cup {p}]
    <3> PICK p \in Grantees :
               /\ ApplyManaged([settings EXCEPT !.grants = @ \ {p}])
               /\ floor' = [floor EXCEPT !.denied = @ \cup {p}]
      BY <2>3
    <3> PICK s : s = [settings EXCEPT !.grants = @ \ {p}]
      OBVIOUS
    <3>1. ApplyManaged(s)
      OBVIOUS
    <3>3. s \in Known /\ floor' \in KnownFloor
      BY <1>0 DEF Known, KnownFloor
    <3>4. /\ s.reading = settings.reading /\ s.limit = settings.limit
          /\ s.grants = settings.grants \ {p} /\ s.rank = settings.rank
          /\ s.weight = settings.weight /\ s.excluded = settings.excluded
      BY <1>0 DEF Known
    <3>5. /\ floor'.limit = floor.limit /\ floor'.denied = floor.denied \cup {p}
          /\ floor'.weights = floor.weights /\ floor'.lists = floor.lists
          /\ floor'.rank = floor.rank
      BY <1>0 DEF KnownFloor
    <3>7. Floors(s, floor')
      BY <2>0, <3>4, <3>5 DEF Floors
    <3> QED BY <2>0, <3>1, <3>3, <3>4, <3>7, AppliedHolds
  <2>4. CASE \E v \in Ranks :
               /\ ApplyManaged([settings EXCEPT !.weight = v])
               /\ floor' = [floor EXCEPT !.weights = @ \cup {v}]
    <3> PICK v \in Ranks :
               /\ ApplyManaged([settings EXCEPT !.weight = v])
               /\ floor' = [floor EXCEPT !.weights = @ \cup {v}]
      BY <2>4
    <3> PICK s : s = [settings EXCEPT !.weight = v]
      OBVIOUS
    <3>1. ApplyManaged(s)
      OBVIOUS
    <3>3. s \in Known /\ floor' \in KnownFloor
      BY <1>0 DEF Known, KnownFloor
    <3>4. /\ s.reading = settings.reading /\ s.limit = settings.limit
          /\ s.grants = settings.grants /\ s.rank = settings.rank
          /\ s.weight = v /\ s.excluded = settings.excluded
      BY <1>0 DEF Known
    <3>5. /\ floor'.limit = floor.limit /\ floor'.denied = floor.denied
          /\ floor'.weights = floor.weights \cup {v} /\ floor'.lists = floor.lists
          /\ floor'.rank = floor.rank
      BY <1>0 DEF KnownFloor
    <3>7. Floors(s, floor')
      BY <2>0, <3>4, <3>5 DEF Floors
    <3> QED BY <2>0, <3>1, <3>3, <3>4, <3>7, AppliedHolds
  <2>5. CASE \E list \in SUBSET Grantees :
               /\ ApplyManaged([settings EXCEPT !.excluded = list])
               /\ floor' = [floor EXCEPT !.lists = @ \cup {list}]
    <3> PICK list \in SUBSET Grantees :
               /\ ApplyManaged([settings EXCEPT !.excluded = list])
               /\ floor' = [floor EXCEPT !.lists = @ \cup {list}]
      BY <2>5
    <3> PICK s : s = [settings EXCEPT !.excluded = list]
      OBVIOUS
    <3>1. ApplyManaged(s)
      OBVIOUS
    <3>3. s \in Known /\ floor' \in KnownFloor
      BY <1>0 DEF Known, KnownFloor
    <3>4. /\ s.reading = settings.reading /\ s.limit = settings.limit
          /\ s.grants = settings.grants /\ s.rank = settings.rank
          /\ s.weight = settings.weight /\ s.excluded = list
      BY <1>0 DEF Known
    <3>5. /\ floor'.limit = floor.limit /\ floor'.denied = floor.denied
          /\ floor'.weights = floor.weights /\ floor'.lists = floor.lists \cup {list}
          /\ floor'.rank = floor.rank
      BY <1>0 DEF KnownFloor
    <3>7. Floors(s, floor')
      BY <2>0, <3>4, <3>5 DEF Floors
    <3> QED BY <2>0, <3>1, <3>3, <3>4, <3>7, AppliedHolds
  <2> QED BY <1>4, <2>1, <2>2, <2>3, <2>4, <2>5 DEF ReadManaged
<1>5. CASE ManagedEnd
  <2> PICK h : h = HardenedIfParanoid(settings)
    OBVIOUS
  <2>1. h \in Known /\ Floors(h, floor) /\ Hard(h)
    BY <1>0, HardenHolds DEF SettingsInv
  <2>2. settings' = [h EXCEPT !.reading = "done"] /\ floor' = floor
    BY <1>5 DEF ManagedEnd
  <2>3. settings' \in Known /\ settings'.reading = "done"
    BY <2>1, <2>2 DEF Known
  <2>4. /\ settings'.rank = h.rank /\ settings'.limit = h.limit
        /\ settings'.grants = h.grants
        /\ settings'.weight = h.weight /\ settings'.excluded = h.excluded
    BY <2>1, <2>2 DEF Known
  <2>5. Floors(settings', floor') /\ Hard(settings')
    BY <2>1, <2>2, <2>4 DEF Floors, Hard, On
  <2> QED BY <1>0, <2>2, <2>3, <2>5 DEF SettingsInv, SettingsType, Known, KnownFloor
<1> QED BY <1>1, <1>2, <1>3, <1>4, <1>5 DEF SettingsNext

\* What the layers and the managed files amount to is no less than any managed
\* file asks for where they only tighten, one of theirs and no layer's where they
\* replace, and after paranoid nothing is soft (manifest/mod.rs, settings.rs).
THEOREM FloorIsHeld == SettingsSpec => []FloorHolds
<1>1. SettingsInit => SettingsInv
  <2> SUFFICES ASSUME SettingsInit PROVE SettingsInv
    OBVIOUS
  <2>1. 0 \in Ranks /\ MaxRank \in Ranks /\ \A n \in Ranks : n <= MaxRank
    BY SettingsAssumption DEF Ranks
  <2>2. settings \in Known /\ floor \in KnownFloor
    BY <2>1 DEF SettingsInit, Known, KnownFloor
  <2>3. settings.reading = "layers" /\ settings.grants = {}
    BY DEF SettingsInit
  <2>4. \A f \in Ranked : settings.rank[f] = 0
    BY DEF SettingsInit
  <2>5. Floors(settings, floor)
    BY <2>1, <2>2, <2>3, <2>4 DEF Floors, SettingsInit, Known
  <2> QED BY <2>2, <2>3, <2>5 DEF SettingsInv, SettingsInit, SettingsType, Known, KnownFloor
<1>2. SettingsInv => FloorHolds
  BY DEF SettingsInv, FloorHolds, Floors, Hard
<1> QED BY <1>1, <1>2, SettingsStep, PTL DEF SettingsSpec

-----------------------------------------------------------------------------
(* The manifest.                                                           *)

ManifestSpec == ManifestInit /\ [][ManifestNext]_manifestVars

\* A command in progress: what an add has edited it declares, what is to be
\* done is among it, and until it has done something the file it would put
\* back declares what is owed.
Kept(c) ==
  /\ c.installs \cup c.removes \subseteq c.names \ c.todo
  /\ c.kind = "add" => \A n \in c.names \ c.todo : declared.user[n] = c.state
  /\ c.kind = "add" /\ ~c.committed =>
       \A n \in Declarable : owed[n] # "none" => c.previous[n] = owed[n]
  /\ c.phase = "restore" => c.kind = "add" /\ ~c.committed

ManifestInv ==
  /\ ManifestType
  /\ OwedIsDeclared
  /\ \A e \in Editors : Kept(command[e])

Command ==
  [phase : {"idle", "edit", "transact", "repair", "restore"},
   kind : {"none", "add", "drop", "apply"}, names : SUBSET Declarable,
   todo : SUBSET Declarable, state : State, previous : Layer,
   installs : SUBSET Declarable, removes : SUBSET Declarable, committed : BOOLEAN]

\* No two commands at once: nothing locks the user's file between what add
\* reads and what it puts back.
OneEditor == \A e, f \in Editors : e = f

\* No command, nothing to keep.
LEMMA NoCommandIsKept == NoCommand \in Command /\ Kept(NoCommand) /\ Kept(NoCommand)'
<1>1. NoCommand \in Command
  BY DEF NoCommand, Command, Nothing, Layer, State
<1>2. NoCommand.kind = "none" /\ NoCommand.installs = {} /\ NoCommand.removes = {}
      /\ NoCommand.phase = "idle"
  BY DEF NoCommand
<1> QED BY <1>1, <1>2 DEF Kept

\* What is left to show of a step of the one editor.
LEMMA Continued ==
  ASSUME ManifestInv, OneEditor, NEW e \in Editors, NEW w \in Command, Continue(e, w),
         Kept(w)', OwedIsDeclared',
         declared' \in [system : Layer, user : Layer], owed' \in Layer,
         machine' \in [installed : SUBSET Declarable, entries : SUBSET Declarable]
  PROVE  ManifestInv'
<1>1. command \in [Editors -> Command]
  BY DEF ManifestInv, ManifestType, Command
<1>2. command' \in [Editors -> Command] /\ \A f \in Editors : command'[f] = w
  BY <1>1 DEF Continue, OneEditor
<1>3. ManifestType'
  BY <1>2 DEF ManifestType, Command
<1> QED BY <1>2, <1>3 DEF ManifestInv, OneEditor

\* ManifestInv is inductive while one editor works at a time.
LEMMA ManifestStep ==
  ASSUME OneEditor, ManifestInv, [ManifestNext]_manifestVars
  PROVE  ManifestInv'
<1>0. /\ declared \in [system : Layer, user : Layer] /\ owed \in Layer
      /\ machine \in [installed : SUBSET Declarable, entries : SUBSET Declarable]
      /\ \A e \in Editors : command[e] \in Command
      /\ OwedIsDeclared
      /\ \A e \in Editors : Kept(command[e])
  BY DEF ManifestInv, ManifestType, Command
<1>1. CASE UNCHANGED manifestVars
  BY <1>1 DEF manifestVars, ManifestInv, ManifestType, OwedIsDeclared, Kept
<1>2. CASE ManifestNext
  <2> PICK e \in Editors :
        \/ BeginCommand(e) \/ Edit(e) \/ EditFails(e) \/ Compute(e) \/ TransactionFails(e)
        \/ DryRun(e) \/ Transact(e) \/ NothingToDo(e) \/ Repair(e) \/ Restore(e) \/ Dies(e)
    BY <1>2 DEF ManifestNext
  <2> PICK c \in Command : c = command[e]
    BY <1>0
  <2>0. Kept(c)
    BY <1>0
  <2>a. ASSUME EndCommand(e), UNCHANGED <<declared, owed>>,
               machine' \in [installed : SUBSET Declarable, entries : SUBSET Declarable]
        PROVE  ManifestInv'
    BY <1>0, <2>a, NoCommandIsKept, Continued DEF EndCommand, OwedIsDeclared
  <2>b. ASSUME Undo(e), UNCHANGED <<declared, owed>>,
               machine' \in [installed : SUBSET Declarable, entries : SUBSET Declarable]
        PROVE  ManifestInv'
    <3>1. CASE c.kind = "add" /\ ~c.committed
      <4> PICK w : w = [c EXCEPT !.phase = "restore"]
        OBVIOUS
      <4>1. w \in Command
        BY DEF Command
      <4>2. /\ w.installs = c.installs /\ w.removes = c.removes /\ w.names = c.names
            /\ w.todo = c.todo /\ w.kind = c.kind /\ w.state = c.state /\ w.previous = c.previous
            /\ w.committed = c.committed
        BY DEF Command
      <4>3. Kept(w)'
        BY <2>0, <2>b, <3>1, <4>2 DEF Kept
      <4>4. Continue(e, w)
        BY <2>b, <3>1 DEF Undo
      <4> QED BY <1>0, <2>b, <4>1, <4>3, <4>4, Continued DEF OwedIsDeclared
    <3>2. CASE ~(c.kind = "add" /\ ~c.committed)
      BY <2>a, <2>b, <3>2 DEF Undo
    <3> QED BY <3>1, <3>2
  <2>c. ASSUME NEW w \in Command, Continue(e, w), Kept(w), UNCHANGED <<declared, owed>>,
               machine' \in [installed : SUBSET Declarable, entries : SUBSET Declarable]
        PROVE  ManifestInv'
    <3>1. Kept(w)'
      BY <2>c DEF Kept
    <3> QED BY <1>0, <2>c, <3>1, Continued DEF OwedIsDeclared
  <2>1. CASE BeginCommand(e)
    <3> PICK kind \in {"add", "drop", "apply"}, names \in SUBSET Declarable \ {{}},
             state \in {"present", "absent"} :
          Continue(e, [NoCommand EXCEPT
              !.phase = "edit", !.kind = kind, !.previous = declared.user,
              !.names = IF kind = "apply" THEN Declarable ELSE names,
              !.todo = IF kind = "apply" THEN {} ELSE names,
              !.state = IF kind = "add" THEN state ELSE "none"])
      BY <2>1 DEF BeginCommand
    <3> PICK w : w = [NoCommand EXCEPT
              !.phase = "edit", !.kind = kind, !.previous = declared.user,
              !.names = IF kind = "apply" THEN Declarable ELSE names,
              !.todo = IF kind = "apply" THEN {} ELSE names,
              !.state = IF kind = "add" THEN state ELSE "none"]
      OBVIOUS
    <3>0. /\ declared.user \in Layer /\ state \in State /\ "none" \in State
          /\ names \subseteq Declarable
      BY <1>0 DEF State
    <3>1. w \in Command
      BY <3>0 DEF NoCommand, Command
    <3>2. /\ w.installs = {} /\ w.removes = {} /\ w.phase = "edit" /\ w.kind = kind
          /\ w.previous = declared.user
          /\ kind # "apply" => w.names = names /\ w.todo = names
      BY DEF NoCommand
    <3>3. Kept(w)
      BY <1>0, <3>2 DEF Kept, OwedIsDeclared
    <3> QED BY <1>0, <2>1, <2>c, <3>1, <3>3 DEF BeginCommand
  <2>2. CASE Edit(e)
    <3> PICK n \in c.todo :
          /\ declared' = [declared EXCEPT !.user[n] = c.state]
          /\ owed' = [owed EXCEPT ![n] = "none"]
          /\ Continue(e, [c EXCEPT !.todo = @ \ {n}])
      BY <2>2 DEF Edit
    <3> PICK w : w = [c EXCEPT !.todo = @ \ {n}]
      OBVIOUS
    <3>0. n \in Declarable /\ c.state \in State /\ "none" \in State
      BY DEF Command, State
    <3>1. w \in Command
      BY DEF Command
    <3>2. /\ w.installs = c.installs /\ w.removes = c.removes /\ w.names = c.names
          /\ w.todo = c.todo \ {n} /\ w.kind = c.kind /\ w.state = c.state
          /\ w.previous = c.previous /\ w.committed = c.committed /\ w.phase = c.phase
      BY DEF Command
    <3>3. declared' \in [system : Layer, user : Layer] /\ owed' \in Layer
      BY <1>0, <3>0 DEF Layer
    <3>4. /\ \A m \in Declarable : declared'.user[m] = IF m = n THEN c.state ELSE declared.user[m]
          /\ \A m \in Declarable : owed'[m] = IF m = n THEN "none" ELSE owed[m]
      BY <1>0, <3>0 DEF Layer
    <3>5. c.names \subseteq Declarable
      BY DEF Command
    <3>6. Kept(w)'
      BY <2>0, <3>2, <3>4, <3>5 DEF Kept
    <3>7. OwedIsDeclared'
      BY <1>0, <3>4 DEF OwedIsDeclared
    <3> QED BY <1>0, <2>2, <3>1, <3>3, <3>6, <3>7, Continued DEF Edit
  <2>3. CASE EditFails(e)
    BY <1>0, <2>3, <2>b DEF EditFails
  <2>4. CASE Compute(e)
    <3> PICK aur \in SUBSET Missing(e) :
          Continue(e, [c EXCEPT
              !.phase = "transact", !.removes = Surplus(e),
              !.installs = IF c.kind = "drop" THEN {} ELSE Missing(e) \ aur])
      BY <2>4 DEF Compute
    <3> PICK w : w = [c EXCEPT
              !.phase = "transact", !.removes = Surplus(e),
              !.installs = IF c.kind = "drop" THEN {} ELSE Missing(e) \ aur]
      OBVIOUS
    <3>0. Missing(e) \subseteq c.names /\ Surplus(e) \subseteq c.names /\ c.names \subseteq Declarable
      BY DEF Missing, Surplus, Command
    <3>1. w \in Command
      BY <3>0 DEF Command
    <3>2. /\ w.installs \subseteq Missing(e) /\ w.removes = Surplus(e) /\ w.names = c.names
          /\ w.todo = c.todo /\ w.kind = c.kind /\ w.state = c.state
          /\ w.previous = c.previous /\ w.committed = c.committed /\ w.phase = "transact"
      BY DEF Command
    <3>3. c.todo = {}
      BY <2>4 DEF Compute
    <3>4. Kept(w)
      BY <2>0, <3>0, <3>2, <3>3 DEF Kept
    <3> QED BY <1>0, <2>4, <2>c, <3>1, <3>4 DEF Compute
  <2>r. Rest(e) \in Command /\ Kept(Rest(e)) /\ Batch(e) \subseteq c.names \ c.todo
        /\ Batch(e) \subseteq Declarable
    <3> PICK w : w = Rest(e)
      OBVIOUS
    <3>1. w \in Command
      BY DEF Rest, Command
    <3>2. /\ w.installs \subseteq c.installs /\ w.removes \subseteq c.removes /\ w.names = c.names
          /\ w.todo = c.todo /\ w.kind = c.kind /\ w.state = c.state
          /\ w.previous = c.previous /\ w.committed = c.committed /\ w.phase \in {c.phase, "repair"}
      BY DEF Rest, Command
    <3>3. Kept(w)
      BY <2>0, <3>2 DEF Kept
    <3> QED BY <2>0, <3>1, <3>3 DEF Batch, Kept, Command
  <2>m. /\ Achieved(e) \in [installed : SUBSET Declarable, entries : SUBSET Declarable]
        /\ [Achieved(e) EXCEPT !.entries =
              IF c.installs # {} THEN @ \cup Batch(e) ELSE @ \ Batch(e)]
             \in [installed : SUBSET Declarable, entries : SUBSET Declarable]
    BY <1>0, <2>r DEF Achieved
  <2>5. CASE TransactionFails(e)
    BY <1>0, <2>5, <2>b, <2>m DEF TransactionFails
  <2>6. CASE DryRun(e)
    BY <1>0, <2>6, <2>c, <2>r DEF DryRun
  <2>7. CASE Transact(e)
    <3>1. owed' \in Layer /\ \A n \in Declarable :
             owed'[n] = IF c.kind = "add" /\ n \in Batch(e) THEN c.state ELSE owed[n]
      <4>1. c.state \in State
        BY DEF Command
      <4> QED BY <1>0, <2>7, <4>1 DEF Transact, Owed, Layer
    <3>2. UNCHANGED declared
      BY <2>7 DEF Transact
    <3>3. OwedIsDeclared'
      BY <1>0, <2>0, <2>r, <3>1, <3>2 DEF OwedIsDeclared, Kept
    <3>4. CASE /\ machine' = [Achieved(e) EXCEPT !.entries =
                    IF c.installs # {} THEN @ \cup Batch(e) ELSE @ \ Batch(e)]
               /\ Continue(e, [Rest(e) EXCEPT !.committed = TRUE])
      <4> PICK r \in Command : r = Rest(e)
        BY <2>r
      <4> PICK w : w = [r EXCEPT !.committed = TRUE]
        OBVIOUS
      <4>1. w \in Command
        BY DEF Command
      <4>2. /\ w.installs = r.installs /\ w.removes = r.removes /\ w.names = r.names
            /\ w.todo = r.todo /\ w.kind = r.kind /\ w.state = r.state
            /\ w.committed /\ w.phase = r.phase
        BY DEF Command
      <4>3. r.phase # "restore"
        BY <2>7 DEF Rest, Command, Transact
      <4>4. Kept(w)'
        BY <2>r, <3>2, <4>2, <4>3 DEF Kept
      <4> QED BY <1>0, <2>m, <3>1, <3>2, <3>3, <3>4, <4>1, <4>4, Continued
    <3>5. CASE machine' = Achieved(e) /\ KeepIfCommitted(e)
      BY <1>0, <2>m, <3>1, <3>2, <3>3, <3>5, NoCommandIsKept, Continued
         DEF KeepIfCommitted, EndCommand
    <3> QED BY <2>7, <3>4, <3>5 DEF Transact
  <2>8. CASE NothingToDo(e)
    <3> PICK w : w = [c EXCEPT !.phase = "repair"]
      OBVIOUS
    <3>1. w \in Command
      BY DEF Command
    <3>2. /\ w.installs = c.installs /\ w.removes = c.removes /\ w.names = c.names
          /\ w.todo = c.todo /\ w.kind = c.kind /\ w.state = c.state
          /\ w.previous = c.previous /\ w.committed = c.committed /\ w.phase = "repair"
      BY DEF Command
    <3>3. Kept(w)
      BY <2>0, <3>2 DEF Kept
    <3> QED BY <1>0, <2>8, <2>c, <3>1, <3>3 DEF NothingToDo
  <2>9. CASE Repair(e)
    <3>1. machine' \in [installed : SUBSET Declarable, entries : SUBSET Declarable]
      BY <1>0, <2>9 DEF Repair, Command
    <3> QED BY <2>9, <2>a, <2>b, <3>1 DEF Repair
  <2>10. CASE Restore(e)
    <3>1. c.phase = "restore" /\ c.kind = "add" /\ ~c.committed
      BY <2>0, <2>10 DEF Restore, Kept
    <3>2. c.previous \in Layer
      BY DEF Command
    <3>3. declared' \in [system : Layer, user : Layer] /\ declared'.user \in {c.previous, declared.user}
      BY <1>0, <2>10, <3>2 DEF Restore
    <3>4. OwedIsDeclared'
      BY <1>0, <2>0, <2>10, <3>1, <3>3 DEF Restore, OwedIsDeclared, Kept
    <3> QED BY <1>0, <2>10, <3>3, <3>4, NoCommandIsKept, Continued DEF Restore, EndCommand
  <2>11. CASE Dies(e)
    BY <1>0, <2>11, <2>a DEF Dies
  <2> QED BY <2>1, <2>2, <2>3, <2>4, <2>5, <2>6, <2>7, <2>8, <2>9, <2>10, <2>11
<1> QED BY <1>1, <1>2

\* What an add has done stays declared until the user says otherwise, as long
\* as commands come one after the other (cli/declare.rs Add).
THEOREM OwedStaysDeclared ==
  ASSUME OneEditor
  PROVE  ManifestSpec => []OwedIsDeclared
<1>1. ManifestInit => ManifestInv
  BY NoCommandIsKept DEF ManifestInit, ManifestInv, ManifestType, OwedIsDeclared, Nothing,
     Layer, State, Command
<1>2. ManifestInv /\ [ManifestNext]_manifestVars => ManifestInv'
  BY ManifestStep
<1>3. ManifestInv => OwedIsDeclared
  BY DEF ManifestInv
<1> QED BY <1>1, <1>2, <1>3, PTL DEF ManifestSpec

-----------------------------------------------------------------------------
(* pacman.conf.                                                            *)

ConfSpec == ConfInit /\ [][ConfNext]_confVars

Sections == {"none", "options"} \cup Repositories
CheckWords == {"unsaid", "Never", "Optional", "Required"}
TrustWords == {"unsaid", "TrustedOnly", "TrustAll"}

\* x is the last header opened among the first n of h.
LastOpened(x, h, n) ==
  \/ x = "none" /\ \A i \in 1..n : h[i] = "none"
  \/ \E i \in 1..n : x = h[i] /\ x # "none" /\ \A j \in (i + 1)..n : h[j] = "none"

\* The bits of a level and its mask say what was said last.
SaysCheck(word, s, level, mask) ==
  CASE word = "unsaid"   -> /\ <<s, "check">> \in level /\ <<s, "optional">> \notin level
                            /\ <<s, "check">> \notin mask /\ <<s, "optional">> \notin mask
    [] word = "Never"    -> <<s, "check">> \in mask \ level
    [] word = "Optional" -> {<<s, "check">>, <<s, "optional">>} \subseteq mask \cap level
    [] word = "Required" -> /\ <<s, "check">> \in mask \cap level
                            /\ <<s, "optional">> \in mask \ level

SaysTrust(word, s, level, mask) ==
  CASE word = "unsaid"      -> <<s, "trust">> \notin level \cup mask
    [] word = "TrustedOnly" -> <<s, "trust">> \in mask \ level
    [] word = "TrustAll"    -> <<s, "trust">> \in mask \cap level

Said ==
  \A o \in Owners, s \in Subjects :
    /\ SaysCheck(spoken.last[o][s].check, s, conf.level[o], conf.mask[o])
    /\ SaysTrust(spoken.last[o][s].trust, s, conf.level[o], conf.mask[o])

Placed ==
  /\ LastOpened(conf.section, spoken.headers, Len(spoken.headers))
  /\ \A i \in 1..Len(conf.parents) : LastOpened(conf.parents[i], spoken.headers, i)

Parser ==
  [outcome : {"reading", "failed", "read"}, lines : 0..MaxLines,
   section : Sections, parents : Seq(Sections),
   declared : SUBSET Repositories, arch : BOOLEAN,
   needsArch : SUBSET Repositories, usage : [Repositories -> SUBSET Uses],
   level : [Owners -> SUBSET Bits], mask : [Owners -> SUBSET Bits]]

Words == [Owners -> [Subjects -> [check : CheckWords, trust : TrustWords]]]

ConfTyped ==
  /\ conf \in Parser /\ spoken \in [headers : Seq(Sections), last : Words]
  /\ Len(spoken.headers) = Len(conf.parents) + 1

ConfInv == ConfTyped /\ Said /\ Placed

\* A token sets and unsets its bits of the subjects it is about, and of no other.
LEMMA TokenBits ==
  ASSUME NEW level, NEW t \in AllTokens, NEW s \in Subjects, NEW a
  PROVE  /\ <<s, a>> \in WithToken(level, t) <=>
              IF s \in t.of THEN a \notin Unsets(t.value) /\ (a \in Sets(t.value) \/ <<s, a>> \in level)
              ELSE <<s, a>> \in level
         /\ <<s, a>> \in Touched(t) <=> s \in t.of /\ a \in Sets(t.value) \cup Unsets(t.value)
BY DEF WithToken, Touched, AllTokens

\* Tokens work on bits.
LEMMA TokenTyped ==
  ASSUME NEW level \in SUBSET Bits, NEW t \in AllTokens
  PROVE  WithToken(level, t) \in SUBSET Bits /\ Touched(t) \in SUBSET Bits
<1>1. t.of \subseteq Subjects /\ t.value \in Values
  BY DEF AllTokens
<1>2. Sets(t.value) \subseteq Aspects /\ Unsets(t.value) \subseteq Aspects
  BY <1>1 DEF Sets, Unsets, Aspects, Values
<1> QED BY <1>1, <1>2 DEF WithToken, Touched, Bits

\* What a token says of a subject is what its level says from then on.
LEMMA TokenIsSaid ==
  ASSUME NEW level, NEW mask, NEW t \in AllTokens, NEW s \in Subjects,
         NEW word \in [check : CheckWords, trust : TrustWords],
         SaysCheck(word.check, s, level, mask), SaysTrust(word.trust, s, level, mask),
         NEW next, next = IF s \in t.of THEN Spoken(word, t.value) ELSE word
  PROVE  /\ next \in [check : CheckWords, trust : TrustWords]
         /\ SaysCheck(next.check, s, WithToken(level, t), mask \cup Touched(t))
         /\ SaysTrust(next.trust, s, WithToken(level, t), mask \cup Touched(t))
<1>1. t.value \in Values
  BY DEF AllTokens
<1>2. \A a \in Aspects :
        /\ <<s, a>> \in WithToken(level, t) <=>
             IF s \in t.of THEN a \notin Unsets(t.value) /\ (a \in Sets(t.value) \/ <<s, a>> \in level)
             ELSE <<s, a>> \in level
        /\ <<s, a>> \in mask \cup Touched(t) <=>
             <<s, a>> \in mask \/ (s \in t.of /\ a \in Sets(t.value) \cup Unsets(t.value))
  BY TokenBits
<1>3. CASE s \notin t.of
  <2>1. \A a \in Aspects : /\ <<s, a>> \in WithToken(level, t) <=> <<s, a>> \in level
                           /\ <<s, a>> \in mask \cup Touched(t) <=> <<s, a>> \in mask
    BY <1>2, <1>3
  <2> QED BY <1>3, <2>1 DEF SaysCheck, SaysTrust, Aspects, CheckWords, TrustWords
<1>4. CASE s \in t.of
  <2>1. \A a \in Aspects :
        /\ <<s, a>> \in WithToken(level, t) <=>
             a \notin Unsets(t.value) /\ (a \in Sets(t.value) \/ <<s, a>> \in level)
        /\ <<s, a>> \in mask \cup Touched(t) <=>
             <<s, a>> \in mask \/ a \in Sets(t.value) \cup Unsets(t.value)
    BY <1>2, <1>4
  <2>2. CASE t.value \in {"TrustedOnly", "TrustAll"}
    <3>1. next = [word EXCEPT !.trust = t.value]
      BY <1>4, <2>2 DEF Spoken
    <3>2. next.trust = t.value /\ next.check = word.check
          /\ next \in [check : CheckWords, trust : TrustWords]
      BY <2>2, <3>1 DEF TrustWords
    <3>3. SaysCheck(word.check, s, WithToken(level, t), mask \cup Touched(t))
      <4>1. \A a \in {"check", "optional"} :
              /\ <<s, a>> \in WithToken(level, t) <=> <<s, a>> \in level
              /\ <<s, a>> \in mask \cup Touched(t) <=> <<s, a>> \in mask
        BY <2>1, <2>2 DEF Sets, Unsets, Aspects
      <4> QED BY <4>1 DEF SaysCheck, CheckWords
    <3>4. SaysTrust(t.value, s, WithToken(level, t), mask \cup Touched(t))
      BY <2>1, <2>2 DEF SaysTrust, Sets, Unsets, Aspects
    <3> QED BY <3>2, <3>3, <3>4
  <2>3. CASE t.value \in {"Never", "Optional", "Required"}
    <3>1. next = [word EXCEPT !.check = t.value]
      BY <1>4, <2>3 DEF Spoken
    <3>2. next.check = t.value /\ next.trust = word.trust
          /\ next \in [check : CheckWords, trust : TrustWords]
      BY <2>3, <3>1 DEF CheckWords
    <3>3. SaysTrust(word.trust, s, WithToken(level, t), mask \cup Touched(t))
      <4>1. /\ <<s, "trust">> \in WithToken(level, t) <=> <<s, "trust">> \in level
            /\ <<s, "trust">> \in mask \cup Touched(t) <=> <<s, "trust">> \in mask
        BY <2>1, <2>3 DEF Sets, Unsets, Aspects
      <4> QED BY <4>1 DEF SaysTrust, TrustWords
    <3>4. SaysCheck(t.value, s, WithToken(level, t), mask \cup Touched(t))
      BY <2>1, <2>3 DEF SaysCheck, Sets, Unsets, Aspects
    <3> QED BY <3>2, <3>3, <3>4
  <2> QED BY <1>1, <2>2, <2>3 DEF Values
<1> QED BY <1>3, <1>4

\* What is opened last is what a line belongs to as files are written.
LEMMA LastIsLexical ==
  ASSUME spoken.headers \in Seq(Sections), NEW x,
         LastOpened(x, spoken.headers, Len(spoken.headers))
  PROVE  Lexical = x
<1> DEFINE h == spoken.headers
<1> DEFINE opened == {i \in DOMAIN h : h[i] # "none"}
<1>0. DOMAIN h = 1..Len(h) /\ Len(h) \in Nat
  OBVIOUS
<1>1. CASE x = "none" /\ \A i \in 1..Len(h) : h[i] = "none"
  <2>1. opened = {}
    BY <1>0, <1>1
  <2> QED BY <1>1, <2>1 DEF Lexical
<1>2. CASE \E i \in 1..Len(h) : x = h[i] /\ x # "none" /\ \A j \in (i + 1)..Len(h) : h[j] = "none"
  <2> PICK i \in 1..Len(h) : x = h[i] /\ x # "none" /\ \A j \in (i + 1)..Len(h) : h[j] = "none"
    BY <1>2
  <2>1. i \in opened
    BY <1>0
  <2>2. \A j \in opened : j \in Nat /\ i >= j
    <3> SUFFICES ASSUME NEW j \in opened PROVE j \in Nat /\ i >= j
      OBVIOUS
    <3>1. j \in 1..Len(h) /\ h[j] # "none"
      BY <1>0
    <3>2. ~(j \in (i + 1)..Len(h))
      BY <3>1
    <3> QED BY <1>0, <3>1, <3>2
  <2>3. \A j \in opened : (\A k \in opened : j >= k) => j = i
    <3> HIDE DEF opened
    <3> QED BY <2>1, <2>2
  <2>4. Max(opened) = i
    <3> HIDE DEF opened
    <3> QED BY <2>1, <2>2, <2>3 DEF Max
  <2> QED BY <2>1, <2>4 DEF Lexical
<1> QED BY <1>1, <1>2 DEF LastOpened

\* Steps that say nothing of levels, and open or close nothing.
LEMMA ConfKeeps ==
  ASSUME ConfInv, conf' \in Parser, UNCHANGED spoken, conf'.section = conf.section,
         conf'.parents = conf.parents, conf'.level = conf.level, conf'.mask = conf.mask
  PROVE  ConfInv'
<1>1. ConfTyped'
  BY DEF ConfInv, ConfTyped
<1>2. Said'
  BY DEF ConfInv, Said
<1>3. Placed'
  BY DEF ConfInv, Placed
<1> QED BY <1>1, <1>2, <1>3 DEF ConfInv

\* One more line is within the bound.
LEMMA LineIsCounted == ConfInv /\ Reading => conf.lines + 1 \in 0..MaxLines
BY ConfAssumption DEF ConfInv, ConfTyped, Parser, Reading

\* Only the first n headers count.
LEMMA SamePrefix ==
  ASSUME NEW x, NEW g, NEW h, NEW n \in Nat, \A i \in 1..n : g[i] = h[i], LastOpened(x, h, n)
  PROVE  LastOpened(x, g, n)
<1>1. CASE x = "none" /\ \A i \in 1..n : h[i] = "none"
  BY <1>1 DEF LastOpened
<1>2. CASE \E i \in 1..n : x = h[i] /\ x # "none" /\ \A j \in (i + 1)..n : h[j] = "none"
  <2> PICK i \in 1..n : x = h[i] /\ x # "none" /\ \A j \in (i + 1)..n : h[j] = "none"
    BY <1>2
  <2>1. \A j \in (i + 1)..n : j \in 1..n
    OBVIOUS
  <2>2. \A j \in (i + 1)..n : g[j] = "none"
    BY <2>1
  <2> QED BY <2>2 DEF LastOpened
<1> QED BY <1>1, <1>2 DEF LastOpened

\* A header is the last one opened in its file.
LEMMA HeaderStep == ConfInv /\ Header => ConfInv'
<1> SUFFICES ASSUME ConfInv, Header PROVE ConfInv'
  OBVIOUS
<1> PICK s \in {"options"} \cup (Repositories \ conf.declared) :
      /\ conf' = [conf EXCEPT !.lines = @ + 1, !.section = s,
                              !.declared = @ \cup ({s} \ {"options"})]
      /\ spoken' = [spoken EXCEPT !.headers[Len(spoken.headers)] = s]
  BY DEF Header
<1>0. ConfTyped /\ Said /\ Placed
  BY DEF ConfInv
<1>1. conf.lines + 1 \in 0..MaxLines
  BY LineIsCounted DEF Header
<1>2. conf' \in Parser /\ conf'.section = s /\ conf'.parents = conf.parents
      /\ conf'.level = conf.level /\ conf'.mask = conf.mask
  BY <1>0, <1>1 DEF ConfTyped, Parser, Sections
<1> PICK n : n = Len(spoken.headers)
  OBVIOUS
<1>3. n \in Nat \ {0} /\ n = Len(conf.parents) + 1 /\ spoken.headers \in Seq(Sections)
      /\ s \in Sections
  BY <1>0 DEF ConfTyped, Parser, Sections
<1>4. /\ spoken'.headers \in Seq(Sections) /\ spoken'.last = spoken.last
      /\ Len(spoken'.headers) = n
      /\ \A i \in 1..n : spoken'.headers[i] = IF i = n THEN s ELSE spoken.headers[i]
      /\ spoken' \in [headers : Seq(Sections), last : Words]
  <2>1. spoken' = [spoken EXCEPT !.headers = [@ EXCEPT ![n] = s]]
    OBVIOUS
  <2> PICK h : h = spoken.headers
    OBVIOUS
  <2>a. h \in Seq(Sections) /\ s \in Sections /\ n \in 1..Len(h) /\ n = Len(h)
    BY <1>3
  <2>b. /\ [h EXCEPT ![n] = s] \in Seq(Sections)
        /\ Len([h EXCEPT ![n] = s]) = Len(h)
        /\ \A i \in 1..Len(h) : [h EXCEPT ![n] = s][i] = IF i = n THEN s ELSE h[i]
    BY <2>a, ExceptSeq
  <2>2. [spoken.headers EXCEPT ![n] = s] \in Seq(Sections)
        /\ Len([spoken.headers EXCEPT ![n] = s]) = n
    BY <2>a, <2>b
  <2>3. \A i \in 1..n : [spoken.headers EXCEPT ![n] = s][i] = IF i = n THEN s ELSE spoken.headers[i]
    BY <2>a, <2>b
  <2>4. spoken'.headers = [spoken.headers EXCEPT ![n] = s] /\ spoken'.last = spoken.last
    BY <1>0, <2>1 DEF ConfTyped
  <2> QED BY <1>0, <2>1, <2>2, <2>3, <2>4 DEF ConfTyped
<1>5. ConfTyped'
  BY <1>2, <1>3, <1>4 DEF ConfTyped
<1>6. Said'
  BY <1>0, <1>2, <1>4 DEF Said
<1>7. Placed'
  <2>1. s # "none"
    BY ConfAssumption
  <2>2. LastOpened(s, spoken'.headers, n)
    BY <1>3, <1>4, <2>1 DEF LastOpened
  <2> PICK g : g = spoken'.headers
    OBVIOUS
  <2>3. \A i \in 1..Len(conf.parents) : LastOpened(conf.parents[i], g, i)
    <3> SUFFICES ASSUME NEW i \in 1..Len(conf.parents) PROVE LastOpened(conf.parents[i], g, i)
      OBVIOUS
    <3>1. LastOpened(conf.parents[i], spoken.headers, i) /\ i \in Nat
      BY <1>0 DEF Placed
    <3>2. \A j \in 1..i : g[j] = spoken.headers[j]
      BY <1>3, <1>4
    <3> QED BY <3>1, <3>2, SamePrefix
  <2> QED BY <1>2, <1>4, <2>2, <2>3 DEF Placed
<1> QED BY <1>5, <1>6, <1>7 DEF ConfInv

\* An included file starts in the section that includes it.
LEMMA IncludeStep == ConfInv /\ Include => ConfInv'
<1> SUFFICES ASSUME ConfInv, Include PROVE ConfInv'
  OBVIOUS
<1>0. ConfTyped /\ Said /\ Placed
  BY DEF ConfInv
<1>1. conf.lines + 1 \in 0..MaxLines
  BY LineIsCounted DEF Include
<1> PICK n : n = Len(spoken.headers)
  OBVIOUS
<1>2. n \in Nat \ {0} /\ n = Len(conf.parents) + 1 /\ spoken.headers \in Seq(Sections)
      /\ conf.parents \in Seq(Sections) /\ conf.section \in Sections /\ "none" \in Sections
  BY <1>0 DEF ConfTyped, Parser, Sections
<1>a. /\ Append(spoken.headers, "none") \in Seq(Sections)
      /\ Len(Append(spoken.headers, "none")) = Len(spoken.headers) + 1
      /\ \A i \in 1..Len(spoken.headers) : Append(spoken.headers, "none")[i] = spoken.headers[i]
      /\ Append(spoken.headers, "none")[Len(spoken.headers) + 1] = "none"
  <2> PICK h \in Seq(Sections), x \in Sections : h = spoken.headers /\ x = "none"
    BY <1>2
  <2>1. /\ Append(h, x) \in Seq(Sections)
        /\ Len(Append(h, x)) = Len(h) + 1
        /\ \A i \in 1..Len(h) : Append(h, x)[i] = h[i]
        /\ Append(h, x)[Len(h) + 1] = x
    BY AppendProperties
  <2> QED BY <2>1
<1>3. /\ Append(spoken.headers, "none") \in Seq(Sections)
      /\ Len(Append(spoken.headers, "none")) = n + 1
      /\ \A i \in 1..n : Append(spoken.headers, "none")[i] = spoken.headers[i]
      /\ Append(spoken.headers, "none")[n + 1] = "none"
  BY <1>a
<1>4. /\ Append(conf.parents, conf.section) \in Seq(Sections)
      /\ Len(Append(conf.parents, conf.section)) = n
      /\ \A i \in 1..(n - 1) : Append(conf.parents, conf.section)[i] = conf.parents[i]
      /\ Append(conf.parents, conf.section)[n] = conf.section
  BY <1>2, AppendProperties
<1>5. conf' \in Parser /\ conf'.section = conf.section
      /\ conf'.parents = Append(conf.parents, conf.section)
      /\ conf'.level = conf.level /\ conf'.mask = conf.mask
  BY <1>0, <1>1, <1>4 DEF Include, ConfTyped, Parser
<1>6. /\ spoken' \in [headers : Seq(Sections), last : Words]
      /\ spoken'.headers = Append(spoken.headers, "none") /\ spoken'.last = spoken.last
  BY <1>0, <1>3 DEF Include, ConfTyped
<1>7. ConfTyped'
  BY <1>2, <1>3, <1>4, <1>5, <1>6 DEF ConfTyped
<1>8. Said'
  BY <1>0, <1>5, <1>6 DEF Said
<1>9. Placed'
  <2>1. LastOpened(conf.section, spoken.headers, n)
    BY <1>0 DEF Placed
  <2> PICK g : g = spoken'.headers
    OBVIOUS
  <2>0. \A i \in 1..n : g[i] = spoken.headers[i]
    BY <1>3, <1>6
  <2>2. LastOpened(conf.section, g, n)
    BY <1>2, <2>0, <2>1, SamePrefix
  <2>3. LastOpened(conf.section, g, n + 1)
    <3>1. CASE conf.section = "none" /\ \A i \in 1..n : g[i] = "none"
      BY <1>2, <1>3, <1>6, <3>1 DEF LastOpened
    <3>2. CASE \E i \in 1..n : /\ conf.section = g[i] /\ conf.section # "none"
                               /\ \A j \in (i + 1)..n : g[j] = "none"
      <4> PICK i \in 1..n : /\ conf.section = g[i] /\ conf.section # "none"
                            /\ \A j \in (i + 1)..n : g[j] = "none"
        BY <3>2
      <4>1. i \in 1..(n + 1) /\ \A j \in (i + 1)..(n + 1) : g[j] = "none"
        BY <1>2, <1>3, <1>6
      <4> QED BY <4>1 DEF LastOpened
    <3> QED BY <2>2, <3>1, <3>2 DEF LastOpened
  <2>4. \A i \in 1..(n - 1) : LastOpened(conf.parents[i], spoken.headers, i)
    BY <1>0, <1>2 DEF Placed
  <2>5. \A i \in 1..(n - 1) : LastOpened(conf.parents[i], g, i)
    <3> SUFFICES ASSUME NEW i \in 1..(n - 1) PROVE LastOpened(conf.parents[i], g, i)
      OBVIOUS
    <3>1. i \in Nat /\ \A j \in 1..i : g[j] = spoken.headers[j]
      BY <1>2, <2>0
    <3> QED BY <2>4, <3>1, SamePrefix
  <2>6. \A i \in 1..n : LastOpened(conf'.parents[i], g, i)
    <3> SUFFICES ASSUME NEW i \in 1..n PROVE LastOpened(conf'.parents[i], g, i)
      OBVIOUS
    <3>1. CASE i = n
      BY <1>4, <1>5, <2>2, <3>1
    <3>2. CASE i # n
      <4>1. i \in 1..(n - 1)
        BY <1>2, <3>2
      <4> QED BY <1>4, <1>5, <2>5, <4>1
    <3> QED BY <3>1, <3>2
  <2> QED BY <1>3, <1>4, <1>5, <1>6, <2>3, <2>6 DEF Placed
<1> QED BY <1>7, <1>8, <1>9 DEF ConfInv

\* Where a file ends, the line after its include belongs where the include
\* does.
LEMMA IncludeEndsStep == ConfInv /\ IncludeEnds => ConfInv'
<1> SUFFICES ASSUME ConfInv, IncludeEnds PROVE ConfInv'
  OBVIOUS
<1>0. ConfTyped /\ Said /\ Placed
  BY DEF ConfInv
<1> PICK n : n = Len(conf.parents)
  OBVIOUS
<1>1. n \in Nat \ {0} /\ Len(spoken.headers) = n + 1 /\ spoken.headers \in Seq(Sections)
      /\ conf.parents \in Seq(Sections)
  <2>1. conf.parents # <<>> /\ conf.parents \in Seq(Sections)
    BY <1>0 DEF IncludeEnds, ConfTyped, Parser
  <2> QED BY <1>0, <2>1 DEF ConfTyped
<1>2. /\ Front(spoken.headers) \in Seq(Sections) /\ Len(Front(spoken.headers)) = n
      /\ \A i \in 1..n : Front(spoken.headers)[i] = spoken.headers[i]
  <2>1. \A i \in 1..n : spoken.headers[i] \in Sections
    BY <1>1
  <2>2. \A i \in 1..(Len(spoken.headers) - 1) : spoken.headers[i] \in Sections
    BY <1>1
  <2>3. Len(spoken.headers) - 1 = n /\ n \in Int /\ 1 \in Int /\ 1 <= n /\ n - 1 + 1 = n
    BY <1>1
  <2>4. /\ SubSeq(spoken.headers, 1, n) \in Seq(Sections)
        /\ Len(SubSeq(spoken.headers, 1, n)) = n
        /\ \A i \in 1..n : SubSeq(spoken.headers, 1, n)[i] = spoken.headers[1 + i - 1]
    BY <2>1, <2>3, SubSeqProperties
  <2>5. \A i \in 1..n : 1 + i - 1 = i
    OBVIOUS
  <2>6. Front(spoken.headers) = SubSeq(spoken.headers, 1, n)
    BY <2>3 DEF Front
  <2> QED BY <2>4, <2>5, <2>6
<1>3. /\ Front(conf.parents) \in Seq(Sections) /\ Len(Front(conf.parents)) = n - 1
      /\ \A i \in 1..(n - 1) : Front(conf.parents)[i] = conf.parents[i]
  <2>1. \A i \in 1..(n - 1) : conf.parents[i] \in Sections
    BY <1>1
  <2>3. n - 1 \in Int /\ 1 \in Int /\ (n - 1) - 1 + 1 = n - 1
    BY <1>1
  <2>4. /\ SubSeq(conf.parents, 1, n - 1) \in Seq(Sections)
        /\ Len(SubSeq(conf.parents, 1, n - 1)) = IF 1 <= n - 1 THEN (n - 1) - 1 + 1 ELSE 0
        /\ \A i \in 1..((n - 1) - 1 + 1) : SubSeq(conf.parents, 1, n - 1)[i] = conf.parents[1 + i - 1]
    BY <2>1, <2>3, SubSeqProperties
  <2>5. Len(SubSeq(conf.parents, 1, n - 1)) = n - 1
    BY <1>1, <2>4
  <2>6. \A i \in 1..(n - 1) : SubSeq(conf.parents, 1, n - 1)[i] = conf.parents[i]
    <3> SUFFICES ASSUME NEW i \in 1..(n - 1)
                 PROVE  SubSeq(conf.parents, 1, n - 1)[i] = conf.parents[i]
      OBVIOUS
    <3>1. 1 + i - 1 = i
      OBVIOUS
    <3> QED BY <2>3, <2>4, <3>1
  <2>7. Front(conf.parents) = SubSeq(conf.parents, 1, n - 1)
    BY DEF Front
  <2> QED BY <2>4, <2>5, <2>6, <2>7
<1>4. conf.parents[n] \in Sections /\ SectionAfter = conf.parents[n]
  BY <1>1 DEF SectionAfter, Last
<1>5. conf' \in Parser /\ conf'.section = conf.parents[n] /\ conf'.parents = Front(conf.parents)
      /\ conf'.level = conf.level /\ conf'.mask = conf.mask
  BY <1>0, <1>3, <1>4 DEF IncludeEnds, ConfTyped, Parser
<1>6. /\ spoken' \in [headers : Seq(Sections), last : Words]
      /\ spoken'.headers = Front(spoken.headers) /\ spoken'.last = spoken.last
  BY <1>0, <1>2 DEF IncludeEnds, ConfTyped
<1>7. ConfTyped'
  BY <1>1, <1>2, <1>3, <1>5, <1>6 DEF ConfTyped
<1>8. Said'
  BY <1>0, <1>5, <1>6 DEF Said
<1>9. Placed'
  <2>1. \A i \in 1..n : LastOpened(conf.parents[i], spoken.headers, i)
    BY <1>0 DEF Placed
  <2> PICK g : g = spoken'.headers
    OBVIOUS
  <2>2. \A i \in 1..n : LastOpened(conf.parents[i], g, i)
    <3> SUFFICES ASSUME NEW i \in 1..n PROVE LastOpened(conf.parents[i], g, i)
      OBVIOUS
    <3>1. i \in Nat /\ \A j \in 1..i : g[j] = spoken.headers[j]
      BY <1>1, <1>2, <1>6
    <3> QED BY <2>1, <3>1, SamePrefix
  <2>3. LastOpened(conf'.section, spoken'.headers, n)
    BY <1>1, <1>5, <2>2
  <2>4. \A i \in 1..(n - 1) : LastOpened(conf'.parents[i], spoken'.headers, i)
    BY <1>1, <1>3, <1>5, <2>2
  <2> QED BY <1>2, <1>3, <1>5, <1>6, <2>3, <2>4 DEF Placed
<1> QED BY <1>7, <1>8, <1>9 DEF ConfInv

\* A line about a level is the last word on it.
LEMMA LevelLineStep == ConfInv /\ LevelLine => ConfInv'
<1> SUFFICES ASSUME ConfInv, LevelLine PROVE ConfInv'
  OBVIOUS
<1>0. ConfTyped /\ Said /\ Placed
  BY DEF ConfInv
<1>1. conf.lines + 1 \in 0..MaxLines
  BY LineIsCounted DEF LevelLine
<1>2. Lexical = conf.section
  BY <1>0, LastIsLexical DEF ConfTyped, Placed
<1> PICK t \in LevelTokens,
         key \in {"SigLevel"} \cup (IF conf.section = "options" THEN FileLevels ELSE {}) :
      /\ conf' = [conf EXCEPT !.lines = @ + 1,
                   !.level[LevelOf(key, conf.section)] = WithToken(@, t),
                   !.mask[LevelOf(key, conf.section)] = @ \cup Touched(t)]
      /\ spoken' = [spoken EXCEPT !.last[LevelOf(key, Lexical)] =
                      [s \in Subjects |-> IF s \in t.of THEN Spoken(@[s], t.value) ELSE @[s]]]
  BY DEF LevelLine
<1> PICK o : o = LevelOf(key, conf.section)
  OBVIOUS
<1>3. o \in Owners
  <2>1. conf.section # "none" /\ conf.section \in Sections
    BY <1>0 DEF LevelLine, ConfTyped, Parser
  <2> QED BY <2>1 DEF LevelOf, Owners, Sections
<1>4. t \in AllTokens
  BY ConfAssumption
<1>5. /\ conf.level \in [Owners -> SUBSET Bits] /\ conf.mask \in [Owners -> SUBSET Bits]
      /\ spoken.last \in Words
  BY <1>0 DEF ConfTyped, Parser
<1>6. WithToken(conf.level[o], t) \in SUBSET Bits /\ conf.mask[o] \cup Touched(t) \in SUBSET Bits
  BY <1>3, <1>4, <1>5, TokenTyped
<1>7. /\ conf' \in Parser /\ conf'.section = conf.section /\ conf'.parents = conf.parents
      /\ \A q \in Owners :
           /\ conf'.level[q] = IF q = o THEN WithToken(conf.level[o], t) ELSE conf.level[q]
           /\ conf'.mask[q] = IF q = o THEN conf.mask[o] \cup Touched(t) ELSE conf.mask[q]
  <2>2. /\ [conf.level EXCEPT ![o] = WithToken(@, t)] \in [Owners -> SUBSET Bits]
        /\ [conf.mask EXCEPT ![o] = @ \cup Touched(t)] \in [Owners -> SUBSET Bits]
    BY <1>5, <1>6
  <2>3. /\ conf'.level = [conf.level EXCEPT ![o] = WithToken(@, t)]
        /\ conf'.mask = [conf.mask EXCEPT ![o] = @ \cup Touched(t)]
    BY <1>0 DEF ConfTyped, Parser
  <2>4. /\ conf'.section = conf.section /\ conf'.parents = conf.parents
        /\ conf'.outcome = conf.outcome /\ conf'.declared = conf.declared
        /\ conf'.arch = conf.arch /\ conf'.needsArch = conf.needsArch /\ conf'.usage = conf.usage
        /\ conf'.lines = conf.lines + 1
    BY <1>0 DEF ConfTyped, Parser
  <2>5. conf' \in Parser
    BY <1>0, <1>1, <2>2 DEF ConfTyped, Parser
  <2>6. \A q \in Owners :
           /\ conf'.level[q] = IF q = o THEN WithToken(conf.level[o], t) ELSE conf.level[q]
           /\ conf'.mask[q] = IF q = o THEN conf.mask[o] \cup Touched(t) ELSE conf.mask[q]
    BY <1>5, <2>3
  <2> QED BY <2>4, <2>5, <2>6
<1> PICK w : w = [s \in Subjects |-> IF s \in t.of THEN Spoken(spoken.last[o][s], t.value)
                                     ELSE spoken.last[o][s]]
  OBVIOUS
<1>8. \A s \in Subjects :
        /\ w[s] \in [check : CheckWords, trust : TrustWords]
        /\ SaysCheck(w[s].check, s, WithToken(conf.level[o], t), conf.mask[o] \cup Touched(t))
        /\ SaysTrust(w[s].trust, s, WithToken(conf.level[o], t), conf.mask[o] \cup Touched(t))
  <2> SUFFICES ASSUME NEW s \in Subjects
               PROVE  /\ w[s] \in [check : CheckWords, trust : TrustWords]
                      /\ SaysCheck(w[s].check, s, WithToken(conf.level[o], t),
                                   conf.mask[o] \cup Touched(t))
                      /\ SaysTrust(w[s].trust, s, WithToken(conf.level[o], t),
                                   conf.mask[o] \cup Touched(t))
    OBVIOUS
  <2>1. spoken.last[o][s] \in [check : CheckWords, trust : TrustWords]
    BY <1>3, <1>5 DEF Words
  <2>2. /\ SaysCheck(spoken.last[o][s].check, s, conf.level[o], conf.mask[o])
        /\ SaysTrust(spoken.last[o][s].trust, s, conf.level[o], conf.mask[o])
    BY <1>0, <1>3 DEF Said
  <2>3. w[s] = IF s \in t.of THEN Spoken(spoken.last[o][s], t.value) ELSE spoken.last[o][s]
    OBVIOUS
  <2> QED BY <1>4, <2>1, <2>2, <2>3, TokenIsSaid
<1>9. /\ spoken' \in [headers : Seq(Sections), last : Words] /\ spoken'.headers = spoken.headers
      /\ \A q \in Owners : spoken'.last[q] = IF q = o THEN w ELSE spoken.last[q]
  <2>1. spoken' = [spoken EXCEPT !.last = [@ EXCEPT ![o] = w]]
    BY <1>2
  <2>2. w \in [Subjects -> [check : CheckWords, trust : TrustWords]]
    BY <1>8
  <2>3. [spoken.last EXCEPT ![o] = w] \in Words
    BY <1>5, <2>2 DEF Words
  <2>4. spoken'.last = [spoken.last EXCEPT ![o] = w]
    BY <1>0, <2>1 DEF ConfTyped
  <2> QED BY <1>0, <1>3, <1>5, <2>1, <2>3, <2>4 DEF ConfTyped, Words
<1>10. ConfTyped'
  BY <1>0, <1>7, <1>9 DEF ConfTyped
<1>11. Said'
  <2> SUFFICES ASSUME NEW q \in Owners, NEW s \in Subjects
               PROVE  /\ SaysCheck(spoken'.last[q][s].check, s, conf'.level[q], conf'.mask[q])
                      /\ SaysTrust(spoken'.last[q][s].trust, s, conf'.level[q], conf'.mask[q])
    BY DEF Said
  <2>1. CASE q = o
    <3>1. spoken'.last[q] = w /\ conf'.level[q] = WithToken(conf.level[o], t)
          /\ conf'.mask[q] = conf.mask[o] \cup Touched(t)
      BY <1>3, <1>7, <1>9, <2>1
    <3>2. /\ SaysCheck(w[s].check, s, WithToken(conf.level[o], t), conf.mask[o] \cup Touched(t))
          /\ SaysTrust(w[s].trust, s, WithToken(conf.level[o], t), conf.mask[o] \cup Touched(t))
      BY <1>8
    <3> QED BY <3>1, <3>2
  <2>2. CASE q # o
    <3>1. spoken'.last[q] = spoken.last[q] /\ conf'.level[q] = conf.level[q]
          /\ conf'.mask[q] = conf.mask[q]
      BY <1>7, <1>9, <2>2
    <3>2. /\ SaysCheck(spoken.last[q][s].check, s, conf.level[q], conf.mask[q])
          /\ SaysTrust(spoken.last[q][s].trust, s, conf.level[q], conf.mask[q])
      BY <1>0 DEF Said
    <3> QED BY <3>1, <3>2
  <2> QED BY <2>1, <2>2
<1>12. Placed'
  BY <1>0, <1>7, <1>9 DEF Placed
<1> QED BY <1>10, <1>11, <1>12 DEF ConfInv

\* ConfInv is inductive.
LEMMA ConfStep == ConfInv /\ [ConfNext]_confVars => ConfInv'
<1> SUFFICES ASSUME ConfInv, [ConfNext]_confVars PROVE ConfInv'
  OBVIOUS
<1>0. conf \in Parser
  BY DEF ConfInv, ConfTyped
<1>1. CASE UNCHANGED confVars
  BY <1>0, <1>1, ConfKeeps DEF confVars
<1>2. CASE UsageLine
  <2>1. conf.lines + 1 \in 0..MaxLines
    BY <1>2, LineIsCounted DEF UsageLine
  <2> PICK u \in {{w} : w \in Uses} \cup {Uses} :
        conf' = [conf EXCEPT !.lines = @ + 1, !.usage[conf.section] = @ \cup u]
    BY <1>2 DEF UsageLine
  <2>2. u \subseteq Uses /\ conf.section \in Repositories /\ UNCHANGED spoken
    BY <1>2 DEF UsageLine
  <2>3. [conf.usage EXCEPT ![conf.section] = @ \cup u] \in [Repositories -> SUBSET Uses]
    BY <1>0, <2>2 DEF Parser
  <2>4. /\ conf'.section = conf.section /\ conf'.parents = conf.parents
        /\ conf'.level = conf.level /\ conf'.mask = conf.mask /\ conf'.outcome = conf.outcome
        /\ conf'.declared = conf.declared /\ conf'.lines = conf.lines + 1
        /\ conf'.usage = [conf.usage EXCEPT ![conf.section] = @ \cup u]
    BY <1>0 DEF Parser
  <2>5. conf' \in Parser
    BY <1>0, <2>1, <2>3, <2>4 DEF Parser
  <2> QED BY <2>2, <2>4, <2>5, ConfKeeps
<1>3. CASE ServerLine
  <2>1. conf.lines + 1 \in 0..MaxLines
    BY <1>3, LineIsCounted DEF ServerLine
  <2>2. /\ conf.section \in Repositories /\ UNCHANGED spoken
        /\ conf' = [conf EXCEPT !.lines = @ + 1, !.needsArch = @ \cup {conf.section}]
    BY <1>3 DEF ServerLine
  <2>3. /\ conf' \in Parser /\ conf'.section = conf.section /\ conf'.parents = conf.parents
        /\ conf'.level = conf.level /\ conf'.mask = conf.mask
    BY <1>0, <2>1, <2>2 DEF Parser
  <2> QED BY <2>2, <2>3, ConfKeeps
<1>5. CASE ArchitectureLine
  <2>1. conf.lines + 1 \in 0..MaxLines
    BY <1>5, LineIsCounted DEF ArchitectureLine
  <2>2. /\ conf' \in Parser /\ conf'.section = conf.section /\ conf'.parents = conf.parents
        /\ conf'.level = conf.level /\ conf'.mask = conf.mask
    BY <1>0, <1>5, <2>1 DEF ArchitectureLine, Parser
  <2> QED BY <1>5, <2>2, ConfKeeps DEF ArchitectureLine
<1>4. CASE RejectFile \/ Finish
  <2>1. /\ conf' \in Parser /\ conf'.section = conf.section /\ conf'.parents = conf.parents
        /\ conf'.level = conf.level /\ conf'.mask = conf.mask
    BY <1>0, <1>4 DEF RejectFile, Finish, Parser
  <2> QED BY <1>4, <2>1, ConfKeeps DEF RejectFile, Finish
<1> QED BY <1>1, <1>2, <1>3, <1>4, <1>5, HeaderStep, IncludeStep, IncludeEndsStep, LevelLineStep
        DEF ConfNext

\* What bits that say the last word amount to.
LEMMA WordIsChecked ==
  ASSUME ConfInv, NEW o \in Owners, NEW s \in Subjects
  PROVE  /\ Check(EffectiveLevel(o), s) = LastWord(o, s, "check", "Required")
         /\ Trust(EffectiveLevel(o), s) = LastWord(o, s, "trust", "TrustedOnly")
<1> PICK own : own = spoken.last[o][s]
  OBVIOUS
<1> PICK global : global = spoken.last["options"][s]
  OBVIOUS
<1>0. "options" \in Owners
  BY DEF Owners
<1>1. /\ own \in [check : CheckWords, trust : TrustWords]
      /\ global \in [check : CheckWords, trust : TrustWords]
  BY <1>0 DEF ConfInv, ConfTyped, Words
<1>2. /\ SaysCheck(own.check, s, conf.level[o], conf.mask[o])
      /\ SaysTrust(own.trust, s, conf.level[o], conf.mask[o])
      /\ SaysCheck(global.check, s, conf.level["options"], conf.mask["options"])
      /\ SaysTrust(global.trust, s, conf.level["options"], conf.mask["options"])
  BY <1>0 DEF ConfInv, Said
<1>3. /\ own["check"] = own.check /\ own["trust"] = own.trust
      /\ global["check"] = global.check /\ global["trust"] = global.trust
  OBVIOUS
<1> PICK base : base = conf.level["options"]
  OBVIOUS
<1> PICK level : level = conf.level[o]
  OBVIOUS
<1> PICK mask : mask = conf.mask[o]
  OBVIOUS
<1>4. CASE o = "options"
  <2>1. EffectiveLevel(o) = base /\ own = global
    BY <1>4 DEF EffectiveLevel
  <2>2. Check(base, s) = IF global.check = "unsaid" THEN "Required" ELSE global.check
    BY <1>1, <1>2 DEF SaysCheck, Check, CheckWords
  <2>3. Trust(base, s) = IF global.trust = "unsaid" THEN "TrustedOnly" ELSE global.trust
    BY <1>1, <1>2 DEF SaysTrust, Trust, TrustWords
  <2> QED BY <1>3, <2>1, <2>2, <2>3 DEF LastWord
<1>5. CASE o # "options"
  <2> PICK eff : eff = Merged(base, level, mask)
    OBVIOUS
  <2>1. EffectiveLevel(o) = eff
    BY <1>5 DEF EffectiveLevel
  <2>2. \A x : x \in eff <=> IF x \in mask THEN x \in level ELSE x \in base
    BY DEF Merged
  <2>3. Check(eff, s) = IF own.check # "unsaid" THEN own.check
                        ELSE IF global.check = "unsaid" THEN "Required" ELSE global.check
    BY <1>1, <1>2, <2>2 DEF SaysCheck, Check, CheckWords
  <2>4. Trust(eff, s) = IF own.trust # "unsaid" THEN own.trust
                        ELSE IF global.trust = "unsaid" THEN "TrustedOnly" ELSE global.trust
    BY <1>1, <1>2, <2>2 DEF SaysTrust, Trust, TrustWords
  <2> QED BY <1>3, <2>1, <2>3, <2>4 DEF LastWord
<1> QED BY <1>4, <1>5

\* The default level is what is said before any line.
LEMMA ConfBegins == ConfInit => ConfInv
<1> SUFFICES ASSUME ConfInit PROVE ConfInv
  OBVIOUS
<1>1. 0 \in 0..MaxLines
  BY ConfAssumption
<1>2. <<>> \in Seq(Sections) /\ <<"none">> \in Seq(Sections) /\ "none" \in Sections
  BY DEF Sections
<1>3. conf \in Parser
  BY <1>1, <1>2 DEF ConfInit, Parser, DefaultLevel, Bits, Aspects
<1>4. Unspoken \in Words
  BY DEF Unspoken, Words, CheckWords, TrustWords
<1>5. ConfTyped
  BY <1>2, <1>3, <1>4 DEF ConfInit, ConfTyped
<1>6. Said
  <2> SUFFICES ASSUME NEW o \in Owners, NEW s \in Subjects
               PROVE  /\ SaysCheck(spoken.last[o][s].check, s, conf.level[o], conf.mask[o])
                      /\ SaysTrust(spoken.last[o][s].trust, s, conf.level[o], conf.mask[o])
    BY DEF Said
  <2>1. conf.level[o] = DefaultLevel /\ conf.mask[o] = {}
    BY DEF ConfInit
  <2>2. spoken.last[o][s].check = "unsaid" /\ spoken.last[o][s].trust = "unsaid"
    BY DEF ConfInit, Unspoken
  <2> QED BY <2>1, <2>2 DEF SaysCheck, SaysTrust, DefaultLevel
<1>7. Placed
  BY DEF ConfInit, Placed, LastOpened
<1> QED BY <1>5, <1>6, <1>7 DEF ConfInv

\* Each level of pacman.conf is what the last line about it says, whichever
\* files include which (alpm-db/src/conf.rs).
THEOREM LastWordsCount == ConfSpec => []LevelsAreLastWords
<1>1. ConfInv => LevelsAreLastWords
  <2>1. ConfInv => Configured \cup FileLevels \subseteq Owners
    BY DEF ConfInv, ConfTyped, Parser, Configured, Owners
  <2> QED BY <2>1, WordIsChecked DEF LevelsAreLastWords
<1> QED BY <1>1, ConfBegins, ConfStep, PTL DEF ConfSpec

-----------------------------------------------------------------------------
(* What rollback stages of pacman.conf.                                    *)

\* Of some numbers up to n one is the largest.
LEMMA SomeIsLargest ==
  ASSUME NEW n \in Nat, NEW S \in SUBSET (1..n), S # {}
  PROVE  Max(S) \in S /\ \A y \in S : Max(S) >= y
<1> DEFINE Above == {m \in Nat : \A y \in S : y <= m}
<1>1. n \in Above
  OBVIOUS
<1>2. PICK m \in Above : \A k \in Above : m <= k
  <2>1. Above \in SUBSET Nat /\ Above # {}
    BY <1>1
  <2> HIDE DEF Above
  <2> QED BY <2>1, SomeIsLeast
<1>3. m \in S
  <2> SUFFICES ASSUME m \notin S PROVE FALSE
    OBVIOUS
  <2>1. \A y \in S : y \in Nat /\ y >= 1 /\ y <= m - 1
    BY <1>2
  <2>2. PICK y \in S : TRUE
    OBVIOUS
  <2>3. m - 1 \in Above
    BY <1>2, <2>1, <2>2
  <2> QED BY <1>2, <2>3
<1>4. \A y \in S : m >= y
  BY <1>2
<1> QED BY <1>3, <1>4 DEF Max

\* The levels a fold goes through, as its definition has them.
Levels(tokens) == CHOOSE iter : iter = [s \in SUBSET (DOMAIN tokens) |->
  IF s = {} THEN DefaultLevel ELSE WithToken(iter[s \ {Max(s)}], tokens[Max(s)])]

\* What the tokens at some places make of a bit: the last that touches it decides.
Decided(tokens, s, b) ==
  LET about == {i \in s : b \in Touched(tokens[i])}
  IN  IF about = {} THEN b \in DefaultLevel ELSE b[2] \in Sets(tokens[Max(about)].value)

\* A token decides on the bits it touches, and leaves the others.
LEMMA TokenSays ==
  ASSUME NEW t \in AllTokens, NEW level \in SUBSET Bits, NEW b \in Bits
  PROVE  /\ WithToken(level, t) \in SUBSET Bits
         /\ b \in Touched(t) => (b \in WithToken(level, t) <=> b[2] \in Sets(t.value))
         /\ b \notin Touched(t) => (b \in WithToken(level, t) <=> b \in level)
<1>1. PICK x \in Subjects, a \in Aspects : b = <<x, a>>
  BY DEF Bits
<1>2. t.of \subseteq Subjects /\ t.value \in Values
  BY DEF AllTokens
<1>3. Sets(t.value) \subseteq Aspects /\ Unsets(t.value) \subseteq Aspects
      /\ Sets(t.value) \cap Unsets(t.value) = {}
  BY <1>2 DEF Values, Sets, Unsets, Aspects
<1>4. \A Y : b \in t.of \X Y <=> x \in t.of /\ a \in Y
  BY <1>1
<1>5. b[2] = a
  BY <1>1
<1>6. t.of \X Sets(t.value) \subseteq Bits
  BY <1>2, <1>3 DEF Bits
<1> QED BY <1>3, <1>4, <1>5, <1>6 DEF WithToken, Touched

\* There are such levels.
LEMMA LevelsAre ==
  ASSUME NEW tokens \in Seq(AllTokens)
  PROVE  Levels(tokens) = [s \in SUBSET (DOMAIN tokens) |->
           IF s = {} THEN DefaultLevel
           ELSE WithToken(Levels(tokens)[s \ {Max(s)}], tokens[Max(s)])]
<1> DEFINE G == [s \in SUBSET (DOMAIN tokens) |-> {b \in Bits : Decided(tokens, s, b)}]
<1>1. DOMAIN tokens = 1..Len(tokens) /\ Len(tokens) \in Nat
  OBVIOUS
<1>2. DefaultLevel \in SUBSET Bits
  BY DEF DefaultLevel, Bits, Aspects
<1>3. ASSUME NEW s \in SUBSET (DOMAIN tokens)
      PROVE  G[s] = IF s = {} THEN DefaultLevel
                    ELSE WithToken(G[s \ {Max(s)}], tokens[Max(s)])
  <2>1. CASE s = {}
    BY <1>2, <2>1 DEF Decided
  <2>2. CASE s # {}
    <3> DEFINE m == Max(s)  r == s \ {m}
    <3>1. m \in s /\ \A y \in s : m >= y
      BY <1>1, <2>2, SomeIsLargest
    <3>2. tokens[m] \in AllTokens /\ m \in 1..Len(tokens)
      BY <1>1, <3>1
    <3> HIDE DEF m
    <3>3. r \in SUBSET (DOMAIN tokens) /\ G[r] \in SUBSET Bits
      OBVIOUS
    <3>4. ASSUME NEW b \in Bits
          PROVE  Decided(tokens, s, b) <=> b \in WithToken(G[r], tokens[m])
      <4> DEFINE aboutS == {i \in s : b \in Touched(tokens[i])}
                 aboutR == {i \in r : b \in Touched(tokens[i])}
      <4>1. CASE b \in Touched(tokens[m])
        <5>1. aboutS \in SUBSET (1..Len(tokens)) /\ m \in aboutS
          BY <1>1, <3>1, <4>1
        <5>2. Max(aboutS) \in aboutS /\ \A y \in aboutS : Max(aboutS) >= y
          <6> HIDE DEF aboutS
          <6> QED BY <1>1, <5>1, SomeIsLargest
        <5>3. Max(aboutS) = m
          <6> DEFINE x == Max(aboutS)
          <6>1. x \in s /\ x >= m
            BY <5>1, <5>2
          <6>2. x \in Nat /\ m \in Nat
            BY <1>1, <3>2, <6>1
          <6> HIDE DEF x
          <6>3. x = m
            BY <3>1, <6>1, <6>2
          <6> QED BY <6>3 DEF x
        <5>4. Decided(tokens, s, b) <=> b[2] \in Sets(tokens[m].value)
          BY <5>1, <5>3 DEF Decided
        <5> HIDE DEF r, G
        <5> QED BY <3>2, <3>3, <4>1, <5>4, TokenSays
      <4>2. CASE b \notin Touched(tokens[m])
        <5>1. aboutS = aboutR
          BY <4>2
        <5>2. Decided(tokens, s, b) <=> Decided(tokens, r, b)
          BY <5>1 DEF Decided
        <5>3. b \in G[r] <=> Decided(tokens, r, b)
          BY <3>3
        <5> HIDE DEF r, G
        <5> QED BY <3>2, <3>3, <4>2, <5>2, <5>3, TokenSays
      <4> QED BY <4>1, <4>2
    <3>5. WithToken(G[r], tokens[m]) \in SUBSET Bits
      <4> HIDE DEF r, G
      <4>1. <<"package", "check">> \in Bits
        BY DEF Bits, Subjects, Aspects
      <4> QED BY <3>2, <3>3, <4>1, TokenSays
    <3>6. G[s] = {b \in Bits : Decided(tokens, s, b)}
      OBVIOUS
    <3> HIDE DEF G, r
    <3>7. G[s] = WithToken(G[r], tokens[m])
      BY <3>4, <3>5, <3>6
    <3> QED BY <2>2, <3>7 DEF m, r
  <2> QED BY <2>1, <2>2
<1>4. G = [s \in SUBSET (DOMAIN tokens) |->
             IF s = {} THEN DefaultLevel ELSE WithToken(G[s \ {Max(s)}], tokens[Max(s)])]
  <2>1. DOMAIN G = SUBSET (DOMAIN tokens) /\ G = [s \in SUBSET (DOMAIN tokens) |-> G[s]]
    OBVIOUS
  <2> HIDE DEF G
  <2> QED BY <1>3, <2>1
<1>5. \E iter : iter = [s \in SUBSET (DOMAIN tokens) |->
        IF s = {} THEN DefaultLevel ELSE WithToken(iter[s \ {Max(s)}], tokens[Max(s)])]
  <2> HIDE DEF G
  <2> QED BY <1>4
<1> QED BY <1>5 DEF Levels

\* Reading tokens back applies them one after the other.
LEMMA RereadApplies ==
  ASSUME NEW tokens \in Seq(AllTokens)
  PROVE  /\ Levels(tokens)[1..0] = DefaultLevel
         /\ \A k \in 1..Len(tokens) :
              Levels(tokens)[1..k] = WithToken(Levels(tokens)[1..(k - 1)], tokens[k])
         /\ Reread(tokens) = Levels(tokens)[1..Len(tokens)]
<1>1. DOMAIN tokens = 1..Len(tokens) /\ Len(tokens) \in Nat
  OBVIOUS
<1>2. ASSUME NEW s \in SUBSET (DOMAIN tokens)
      PROVE  Levels(tokens)[s] = IF s = {} THEN DefaultLevel
               ELSE WithToken(Levels(tokens)[s \ {Max(s)}], tokens[Max(s)])
  BY LevelsAre
<1>3. ASSUME NEW k \in 1..Len(tokens)
      PROVE  Levels(tokens)[1..k] = WithToken(Levels(tokens)[1..(k - 1)], tokens[k])
  <2>1. 1..k \in SUBSET (DOMAIN tokens) /\ 1..k # {}
    BY <1>1, SMTT(30)
  <2>2. Max(1..k) \in 1..k /\ \A y \in 1..k : Max(1..k) >= y
    BY <1>1, <2>1, SomeIsLargest
  <2>3. Max(1..k) = k
    BY <2>2
  <2>4. (1..k) \ {k} = 1..(k - 1)
    OBVIOUS
  <2> QED BY <1>2, <2>1, <2>3, <2>4
<1>4. 1..0 = {}
  OBVIOUS
<1>5. Reread(tokens) = Levels(tokens)[DOMAIN tokens]
  BY DEF Reread, FoldLeft, MapThenFoldSet, Levels
<1> QED BY <1>1, <1>2, <1>3, <1>4, <1>5

\* The last token that touches a bit decides on it.
LEMMA LastTouchDecides ==
  ASSUME NEW tokens \in Seq(AllTokens), NEW b \in Bits, NEW k \in 1..Len(tokens),
         b \in Touched(tokens[k]), \A j \in k + 1..Len(tokens) : b \notin Touched(tokens[j])
  PROVE  /\ b \in Reread(tokens) <=> b[2] \in Sets(tokens[k].value)
         /\ b \in RereadMask(tokens)
<1> DEFINE At(j) == Levels(tokens)[1..j]
           Told(j) == b \in At(j) <=> b[2] \in Sets(tokens[k].value)
<1>1. Len(tokens) \in Nat /\ \A j \in 1..Len(tokens) : tokens[j] \in AllTokens
  OBVIOUS
<1>2. At(0) = DefaultLevel /\ \A j \in 1..Len(tokens) : At(j) = WithToken(At(j - 1), tokens[j])
      /\ Reread(tokens) = At(Len(tokens))
  BY RereadApplies
<1> HIDE DEF At
<1>3. \A j \in 0..Len(tokens) : At(j) \in SUBSET Bits
  <2> SUFFICES ASSUME NEW i \in 0..Len(tokens), At(i) \notin SUBSET Bits PROVE FALSE
    OBVIOUS
  <2> DEFINE S == {j \in 0..Len(tokens) : At(j) \notin SUBSET Bits}
  <2>1. PICK j \in S : \A y \in S : j <= y
    <3>1. S \in SUBSET Nat /\ S # {}
      OBVIOUS
    <3> HIDE DEF S
    <3> QED BY <3>1, SomeIsLeast
  <2>2. j # 0
    BY <1>2, <2>1 DEF DefaultLevel, Bits, Aspects
  <2>3. j - 1 \in 0..Len(tokens) /\ j - 1 \notin S /\ j \in 1..Len(tokens)
    BY <1>1, <2>1, <2>2
  <2>4. At(j - 1) \in SUBSET Bits
    BY <2>3
  <2>5. At(j) \in SUBSET Bits
    BY <1>1, <1>2, <2>3, <2>4, TokenSays
  <2> QED BY <2>1, <2>5
<1>4. \A j \in k..Len(tokens) : Told(j)
  <2> SUFFICES ASSUME NEW i \in k..Len(tokens), ~Told(i) PROVE FALSE
    OBVIOUS
  <2> DEFINE S == {j \in k..Len(tokens) : ~Told(j)}
  <2>1. PICK j \in S : \A y \in S : j <= y
    <3>1. S \in SUBSET Nat /\ S # {}
      OBVIOUS
    <3> HIDE DEF S
    <3> QED BY <3>1, SomeIsLeast
  <2>2. /\ j \in 1..Len(tokens) /\ j - 1 \in 0..Len(tokens) /\ j >= k
        /\ At(j - 1) \in SUBSET Bits /\ At(j) = WithToken(At(j - 1), tokens[j])
        /\ tokens[j] \in AllTokens
    BY <1>1, <1>2, <1>3, <2>1
  <2>3. CASE j = k
    BY <2>1, <2>2, <2>3, TokenSays
  <2>4. CASE j # k
    <3>1. j - 1 \in k..Len(tokens) /\ j - 1 \notin S /\ j \in k + 1..Len(tokens)
      BY <1>1, <2>1, <2>2, <2>4
    <3>2. Told(j - 1)
      BY <3>1
    <3>3. b \notin Touched(tokens[j])
      BY <3>1
    <3> QED BY <2>1, <2>2, <3>2, <3>3, TokenSays
  <2> QED BY <2>3, <2>4
<1>5. Told(Len(tokens))
  BY <1>1, <1>4
<1> QED BY <1>2, <1>5 DEF RereadMask

\* The tokens of two printed lists, one after the other.
LEMMA TokensFollow ==
  ASSUME NEW u \in Seq(AllTokens), NEW v \in Seq(AllTokens)
  PROVE  /\ u \o v \in Seq(AllTokens) /\ Len(u \o v) = Len(u) + Len(v)
         /\ \A i \in 1..Len(u) : (u \o v)[i] = u[i]
         /\ \A i \in Len(u) + 1..Len(u) + Len(v) : (u \o v)[i] = v[i - Len(u)]
<1>1. Len(u) \in Nat /\ Len(v) \in Nat
  OBVIOUS
<1>2. /\ u \o v \in Seq(AllTokens) /\ Len(u \o v) = Len(u) + Len(v)
      /\ \A i \in 1..Len(u) + Len(v) : (u \o v)[i] = IF i <= Len(u) THEN u[i] ELSE v[i - Len(u)]
  BY ConcatProperties
<1> HIDE DEF AllTokens
<1> QED BY <1>1, <1>2

\* What a level says of a subject is printed, and read back with its mask.
LEMMA ChecksComeBack ==
  ASSUME NEW level \in SUBSET Bits, NEW s \in Subjects, NEW base
  PROVE  /\ Check(Reread(Tokens(level)), s) = Check(level, s)
         /\ Check(Merged(base, Reread(Tokens(level)), RereadMask(Tokens(level))), s) = Check(level, s)
<1> DEFINE c == [x \in Subjects |-> Check(level, x)]
           t == [x \in Subjects |-> Trust(level, x)]
           Database(v) == [of |-> {"database"}, value |-> v]
           Both(v) == [of |-> Subjects, value |-> v]
           one == <<Both(c["package"])>>
           two == IF c["database"] = c["package"] THEN <<>> ELSE <<Database(c["database"])>>
           three == IF t["package"] = "TrustedOnly" THEN <<>> ELSE <<Both("TrustAll")>>
           four == IF t["database"] = t["package"] THEN <<>> ELSE <<Database(t["database"])>>
           tokens == one \o two \o three \o four
<1>1. Tokens(level) = tokens
  BY DEF Tokens
<1>2. /\ c \in [Subjects -> {"Never", "Optional", "Required"}]
      /\ t \in [Subjects -> {"TrustAll", "TrustedOnly"}] /\ c[s] = Check(level, s)
  BY DEF Check, Trust
<1>3. \A of \in (SUBSET Subjects) \ {{}}, v \in Values : [of |-> of, value |-> v] \in AllTokens
  BY DEF AllTokens
<1>4. /\ "package" \in Subjects /\ "database" \in Subjects /\ Subjects # {}
      /\ \A x \in Subjects : x = "package" \/ x = "database"
  BY DEF Subjects
<1> HIDE DEF c, t
<1>5. c["package"] \in {"Never", "Optional", "Required"} /\ c["database"] \in {"Never", "Optional", "Required"}
      /\ t["package"] \in {"TrustAll", "TrustedOnly"} /\ t["database"] \in {"TrustAll", "TrustedOnly"}
  BY <1>2, <1>4
<1>6. one \in Seq(AllTokens) /\ two \in Seq(AllTokens) /\ three \in Seq(AllTokens) /\ four \in Seq(AllTokens)
  <2>1. Both(c["package"]) \in AllTokens /\ Both("TrustAll") \in AllTokens
    BY <1>3, <1>4, <1>5 DEF Values
  <2>2. Database(c["database"]) \in AllTokens /\ Database(t["database"]) \in AllTokens
    BY <1>3, <1>4, <1>5 DEF Values
  <2>3. \A x \in AllTokens : <<x>> \in Seq(AllTokens)
    OBVIOUS
  <2>4. <<>> \in Seq(AllTokens)
    OBVIOUS
  <2> HIDE DEF Both, Database
  <2> QED BY <2>1, <2>2, <2>3, <2>4
<1>7. tokens \in Seq(AllTokens)
  BY <1>6
\* Where the last token about the checks of s is.
<1> DEFINE k == IF s = "database" /\ c["database"] # c["package"] THEN 2 ELSE 1
<1>8. /\ Len(one) = 1 /\ one[1] = Both(c["package"])
      /\ Len(two) \in 0..1 /\ (Len(two) = 1 <=> c["database"] # c["package"])
      /\ Len(two) = 1 => two[1] = Database(c["database"])
      /\ Len(three) \in 0..1 /\ \A i \in 1..Len(three) : three[i].value \in {"TrustAll", "TrustedOnly"}
      /\ Len(four) \in 0..1 /\ \A i \in 1..Len(four) : four[i].value \in {"TrustAll", "TrustedOnly"}
  BY <1>5
<1> HIDE DEF one, two, three, four
<1>9. /\ Len(tokens) = 1 + Len(two) + Len(three) + Len(four)
      /\ tokens[1] = one[1]
      /\ Len(two) = 1 => tokens[2] = two[1]
      /\ \A i \in 2 + Len(two)..Len(tokens) : tokens[i].value \in {"TrustAll", "TrustedOnly"}
  <2> DEFINE first == one \o two
             most == first \o three
  <2>1. /\ first \in Seq(AllTokens) /\ Len(first) = 1 + Len(two)
        /\ first[1] = one[1] /\ (Len(two) = 1 => first[2] = two[1])
    <3>1. /\ first \in Seq(AllTokens) /\ Len(first) = Len(one) + Len(two)
          /\ \A i \in 1..Len(one) : first[i] = one[i]
          /\ \A i \in Len(one) + 1..Len(one) + Len(two) : first[i] = two[i - Len(one)]
      BY <1>6, TokensFollow, Zenon
    <3> HIDE DEF first
    <3>2. Len(two) = 1 => first[2] = two[1]
      BY <1>8, <3>1
    <3> QED BY <1>8, <3>1, <3>2
  <2> HIDE DEF first
  <2>2. /\ most \in Seq(AllTokens) /\ Len(most) = Len(first) + Len(three)
        /\ \A i \in 1..Len(first) : most[i] = first[i]
        /\ \A i \in Len(first) + 1..Len(first) + Len(three) : most[i] = three[i - Len(first)]
    BY <1>6, <2>1, TokensFollow, Zenon
  <2>3. tokens = most \o four
    BY DEF first
  <2> HIDE DEF most, tokens
  <2>4. /\ Len(tokens) = Len(most) + Len(four)
        /\ \A i \in 1..Len(most) : tokens[i] = most[i]
        /\ \A i \in Len(most) + 1..Len(most) + Len(four) : tokens[i] = four[i - Len(most)]
    BY <1>6, <2>2, <2>3, TokensFollow, ZenonT(60)
  <2>5. ASSUME NEW i \in 2 + Len(two)..Len(tokens) PROVE tokens[i].value \in {"TrustAll", "TrustedOnly"}
    <3>1. CASE i <= Len(most)
      <4>1. tokens[i] = three[i - Len(first)] /\ i - Len(first) \in 1..Len(three)
        BY <1>8, <2>1, <2>2, <2>4, <3>1
      <4> QED BY <1>8, <4>1
    <3>2. CASE i > Len(most)
      <4>1. tokens[i] = four[i - Len(most)] /\ i - Len(most) \in 1..Len(four)
        BY <1>8, <2>1, <2>2, <2>4, <3>2
      <4> QED BY <1>8, <4>1
    <3> QED BY <1>8, <2>1, <2>2, <3>1, <3>2
  <2> QED BY <1>8, <2>1, <2>2, <2>4, <2>5
<1> HIDE DEF tokens
<1>10. /\ k \in 1..Len(tokens) /\ tokens[k].value = c[s] /\ s \in tokens[k].of
       /\ \A j \in k + 1..Len(tokens) :
            tokens[j].value \in {"TrustAll", "TrustedOnly"} \/ s \notin tokens[j].of
  <2>1. CASE s = "database" /\ c["database"] # c["package"]
    <3>1. k = 2 /\ tokens[2] = Database(c["database"]) /\ Len(two) = 1 /\ Len(tokens) \in Nat
          /\ Len(tokens) >= 2
      BY <1>8, <1>9, <2>1
    <3>2. \A j \in 3..Len(tokens) : tokens[j].value \in {"TrustAll", "TrustedOnly"}
      BY <1>9, <3>1
    <3> QED BY <2>1, <3>1, <3>2
  <2>2. CASE s = "database" /\ c["database"] = c["package"]
    BY <1>4, <1>8, <1>9, <2>2
  <2>3. CASE s = "package"
    <3>1. k = 1 /\ tokens[1] = Both(c["package"]) /\ Len(tokens) \in Nat /\ Len(tokens) >= 1
      BY <1>8, <1>9, <2>3
    <3>2. ASSUME NEW j \in 2..Len(tokens)
          PROVE  tokens[j].value \in {"TrustAll", "TrustedOnly"} \/ s \notin tokens[j].of
      <4>1. j \in 2 + Len(two)..Len(tokens) \/ (j = 2 /\ Len(two) = 1)
        <5>1. Len(two) = 0 \/ Len(two) = 1
          BY <1>8
        <5>2. CASE Len(two) = 0
          BY <3>1, <5>2
        <5>3. CASE Len(two) = 1
          <6>1. j = 2 \/ j \in 2 + 1..Len(tokens)
            BY <3>1
          <6> QED BY <5>3, <6>1
        <5> QED BY <5>1, <5>2, <5>3
      <4>2. "package" \notin {"database"}
        OBVIOUS
      <4>3. CASE j \in 2 + Len(two)..Len(tokens)
        BY <1>9, <4>3
      <4>4. CASE j = 2 /\ Len(two) = 1
        BY <1>8, <1>9, <2>3, <4>2, <4>4
      <4> QED BY <4>1, <4>3, <4>4
    <3> QED BY <2>3, <3>1, <3>2
  <2> QED BY <1>4, <2>1, <2>2, <2>3
<1> HIDE DEF k
<1>11. ASSUME NEW a \in {"check", "optional"}, a \in Sets(c[s]) \cup Unsets(c[s])
       PROVE  /\ <<s, a>> \in Reread(tokens) <=> a \in Sets(c[s])
              /\ <<s, a>> \in RereadMask(tokens)
  <2>1. <<s, a>> \in Bits /\ <<s, a>>[2] = a
    BY DEF Bits, Aspects
  <2>2. <<s, a>> \in Touched(tokens[k])
    BY <1>10, <1>11 DEF Touched
  <2>3. \A v \in {"TrustAll", "TrustedOnly"} : a \notin Sets(v) \cup Unsets(v)
    BY <1>11 DEF Sets, Unsets
  <2>4. \A j \in k + 1..Len(tokens) : <<s, a>> \notin Touched(tokens[j])
    BY <1>10, <2>3 DEF Touched
  <2> QED BY <1>7, <1>10, <2>1, <2>2, <2>4, LastTouchDecides
<1>12. c[s] \in {"Never", "Optional", "Required"}
  BY <1>4, <1>5
<1>13. ASSUME NEW read, \A a \in {"check", "optional"} :
                a \in Sets(c[s]) \cup Unsets(c[s]) => (<<s, a>> \in read <=> a \in Sets(c[s]))
       PROVE  Check(read, s) = c[s]
  BY <1>12, <1>13 DEF Check, Sets, Unsets
<1>14. Check(Reread(tokens), s) = c[s]
  BY <1>11, <1>13
<1>15. Check(Merged(base, Reread(tokens), RereadMask(tokens)), s) = c[s]
  <2>1. ASSUME NEW a \in {"check", "optional"}, a \in Sets(c[s]) \cup Unsets(c[s])
        PROVE  <<s, a>> \in Merged(base, Reread(tokens), RereadMask(tokens)) <=> a \in Sets(c[s])
    BY <1>11, <2>1 DEF Merged
  <2> QED BY <1>13, <2>1
<1> QED BY <1>1, <1>2, <1>14, <1>15

\* A configuration that is printed and read again checks the same.
LEMMA StagingFollows == ASSUME ConfInv PROVE StagingChecksTheSame
<1>1. ASSUME NEW o \in Owners PROVE EffectiveLevel(o) \in SUBSET Bits
  <2>1. "options" \in Owners
    BY DEF Owners
  <2>2. conf.level[o] \in SUBSET Bits /\ conf.level["options"] \in SUBSET Bits
    BY <2>1 DEF ConfInv, ConfTyped, Parser
  <2> QED BY <2>2 DEF EffectiveLevel, Merged
<1>2. Configured \subseteq Owners
  BY DEF ConfInv, ConfTyped, Parser, Configured, Owners
<1>3. ASSUME NEW o \in Configured, NEW s \in Subjects
      PROVE  Check(Staged(o), s) = Check(EffectiveLevel(o), s)
  <2>1. EffectiveLevel(o) \in SUBSET Bits
    BY <1>1, <1>2
  <2>2. CASE o = "options"
    BY <2>1, <2>2, ChecksComeBack DEF Staged, StagedOptions
  <2>3. CASE o # "options"
    BY <2>1, <2>3, ChecksComeBack DEF Staged
  <2> QED BY <2>2, <2>3
<1>4. ASSUME NEW r \in Repositories PROVE StagedUse(r) = Used(conf.usage[r])
  BY DEF StagedUse, Used, Uses
<1> QED BY <1>3, <1>4 DEF StagingChecksTheSame, ConfInv, ConfTyped, Parser

\* StagingChecksTheSame (staged_pacman_config of cli/channel.rs, SigLevel::tokens
\* of conf.rs): whatever level a file gives, the tokens printed for it read back
\* to a level that checks the same, merged over whichever global one.
THEOREM StagedAsOnTheHost == ConfSpec => []StagingChecksTheSame
BY ConfBegins, ConfStep, StagingFollows, PTL DEF ConfSpec

-----------------------------------------------------------------------------
(* The chain of builds.                                                    *)

ChainSpec == ChainInit /\ [][ChainNext]_chainVars

CallsOfChain == [pkgname : Packages, early : BOOLEAN, want : Packages, missing : SUBSET Packages]

\* A call that is not early lacks nothing but what it has noted.
Noted(c) ==
  ~c.early => Needs(c.pkgname) \ Outputs(c.pkgname) \subseteq Current \cup c.missing

ChainInv ==
  /\ ChainType
  /\ \A i \in 1..Len(calls) : Noted(calls[i])

\* A recipe builds packages and needs packages.
LEMMA RecipesAreOfPackages ==
  ASSUME ChainType, NEW n \in Packages
  PROVE  Outputs(n) \subseteq Packages /\ Needs(n) \subseteq Packages
<1>1. PICK base \in [Packages -> Packages] :
        recipes.outputs = {{m \in Packages : base[m] = base[k]} : k \in Packages}
  BY DEF ChainType, Splits
<1>2. \E S \in recipes.outputs : n \in S
  <2> DEFINE S == {m \in Packages : base[m] = base[n]}
  <2>1. n \in S /\ S \in recipes.outputs
    BY <1>1
  <2> QED BY <2>1
<1>3. Outputs(n) \in recipes.outputs
  BY <1>2 DEF Outputs
<1>4. Outputs(n) \subseteq Packages
  BY <1>1, <1>3
<1>5. \A m \in Packages : recipes.depends[m] \cup recipes.makedepends[m] \subseteq Packages
  BY DEF ChainType
<1> QED BY <1>4, <1>5 DEF Needs

\* What is missing at first is noted.
LEMMA MissingIsNoted ==
  ASSUME ChainType, NEW n \in Packages
  PROVE  /\ MissingDeps(n) \subseteq Packages
         /\ Needs(n) \ Outputs(n) \subseteq Current \cup MissingDeps(n)
BY RecipesAreOfPackages DEF MissingDeps

\* A call joins the chain.
LEMMA CallJoins ==
  ASSUME ChainInv, NEW c \in CallsOfChain, Noted(c), calls' = Append(calls, c),
         Len(calls) <= MaxAurDepth, UNCHANGED <<recipes, installed, outcome>>
  PROVE  ChainInv'
<1>1. calls \in Seq(CallsOfChain)
  BY DEF ChainInv, ChainType, CallsOfChain
<1>2. /\ calls' \in Seq(CallsOfChain) /\ Len(calls') = Len(calls) + 1
      /\ calls'[Len(calls) + 1] = c
      /\ \A i \in 1..Len(calls) : calls'[i] = calls[i]
  BY <1>1
<1>3. Len(calls') <= MaxAurDepth + 1
  BY <1>1, <1>2, ChainAssumption
<1>4. ChainType'
  BY <1>2, <1>3 DEF ChainInv, ChainType, CallsOfChain
<1>5. ASSUME NEW i \in 1..Len(calls') PROVE Noted(calls'[i])
  <2>1. i \in 1..Len(calls) \/ i = Len(calls) + 1
    BY <1>1, <1>2, <1>5
  <2> QED BY <2>1, <1>2 DEF ChainInv
<1>6. \A k : Noted(k)' <=> Noted(k)
  BY DEF Noted, Needs, Outputs, Current
<1> QED BY <1>4, <1>5, <1>6 DEF ChainInv

\* The chain loses calls, and packages may be installed.
LEMMA CallsLeave ==
  ASSUME ChainInv, UNCHANGED recipes, calls' = <<>> \/ (calls # <<>> /\ calls' = Front(calls)),
         installed' \in [Packages -> [version : 0..2, explicit : BOOLEAN]],
         outcome' \in {"running", "installed", "refused"},
         Current \subseteq Current'
  PROVE  ChainInv'
<1>1. calls \in Seq(CallsOfChain) /\ Len(calls) <= MaxAurDepth + 1
  BY DEF ChainInv, ChainType, CallsOfChain
<1>2. /\ calls' \in Seq(CallsOfChain) /\ Len(calls') <= Len(calls)
      /\ \A i \in 1..Len(calls') : calls'[i] = calls[i]
  <2>1. CASE calls' = <<>>
    BY <1>1, <2>1
  <2>2. CASE calls # <<>> /\ calls' = Front(calls)
    BY <1>1, <2>2 DEF Front
  <2> QED BY <2>1, <2>2
<1>3. ChainType'
  BY <1>1, <1>2, ChainAssumption DEF ChainInv, ChainType, CallsOfChain
<1>4. ASSUME NEW c, Noted(c) PROVE Noted(c)'
  BY <1>4 DEF Noted, Needs, Outputs
<1>5. \A i \in 1..Len(calls') : Noted(calls'[i])
  BY <1>1, <1>2 DEF ChainInv
<1> QED BY <1>3, <1>4, <1>5 DEF ChainInv

\* Files that are installed stay so.
LEMMA InstallKeeps ==
  ASSUME ChainInv, calls # <<>>, NEW files, NEW asked, InstallSelected(files, asked)
  PROVE  ChainInv'
<1>1. installed \in [Packages -> [version : 0..2, explicit : BOOLEAN]]
  BY DEF ChainInv, ChainType
<1>2. ASSUME NEW some, NEW explicit
      PROVE  With(some, explicit) \in [Packages -> [version : 0..2, explicit : BOOLEAN]]
  BY <1>1 DEF With
<1>3. ASSUME NEW some, NEW explicit, installed' = With(some, explicit)
      PROVE  Current \subseteq Current'
  BY <1>1, <1>3 DEF With, Current
<1>4. outcome \in {"running", "installed", "refused"}
  BY DEF ChainInv, ChainType
<1>5. CASE Refuse
  BY <1>1, <1>5, CallsLeave DEF Refuse, Current
<1>6. CASE \E some, explicit : /\ installed' = With(some, explicit) /\ UNCHANGED recipes
                              /\ outcome' = "refused" /\ calls' = <<>>
  BY <1>2, <1>3, <1>6, CallsLeave
<1>7. CASE \E some, explicit : installed' = With(some, explicit) /\ Return /\ UNCHANGED recipes
  <2>1. calls' = Front(calls) /\ outcome' \in {"running", "installed", "refused"}
    BY <1>4, <1>7 DEF Return
  <2> QED BY <2>1, <1>2, <1>3, <1>7, CallsLeave
<1> QED BY <1>5, <1>6, <1>7 DEF InstallSelected

\* Every step of the chain keeps that.
LEMMA ChainStep == ChainInv /\ [ChainNext]_chainVars => ChainInv'
<1> SUFFICES ASSUME ChainInv, [ChainNext]_chainVars PROVE ChainInv'
  OBVIOUS
<1>a. calls \in Seq(CallsOfChain) /\ Len(calls) <= MaxAurDepth + 1 /\ Len(calls) \in Nat
  BY DEF ChainInv, ChainType, CallsOfChain
<1>b. ChainType
  BY DEF ChainInv
<1>c. ASSUME calls # <<>> PROVE Innermost = calls[Len(calls)] /\ Innermost \in CallsOfChain
                               /\ Len(calls) \in 1..Len(calls)
  BY <1>a, <1>c DEF Innermost, Last
<1>1. CASE BeginChain
  <2> DEFINE c == [pkgname |-> Requested, early |-> FALSE, want |-> Requested,
                   missing |-> MissingDeps(Requested)]
  <2>1. c \in CallsOfChain /\ Noted(c)
    BY <1>b, MissingIsNoted, ChainAssumption DEF Noted, CallsOfChain
  <2>2. Len(calls) <= MaxAurDepth
    BY <1>1, ChainAssumption DEF BeginChain
  <2> QED BY <1>1, <2>1, <2>2, CallJoins DEF BeginChain, Call
<1>2. CASE Fails
  BY <1>2, <1>b, CallsLeave DEF Fails, Refuse, ChainType, Current
<1>3. CASE Build
  BY <1>3, InstallKeeps DEF Build
<1>4. CASE BuildEarly
  BY <1>4, InstallKeeps DEF BuildEarly
<1>5. ASSUME NEW dep \in Packages, Drop(dep) PROVE ChainInv'
  <2>1. calls # <<>> /\ dep \in Innermost.missing /\ dep \in Current
    BY <1>5 DEF Drop, Descending
  <2> DEFINE c == [calls[Len(calls)] EXCEPT !.missing = @ \ {dep}]
  <2>2. calls' = [calls EXCEPT ![Len(calls)] = c]
    BY <1>5 DEF Drop
  <2>3. c \in CallsOfChain
    BY <1>c, <2>1 DEF CallsOfChain
  <2>4. Noted(c)
    <3>1. Noted(calls[Len(calls)])
      BY <1>c, <2>1 DEF ChainInv
    <3>2. /\ c.pkgname = calls[Len(calls)].pkgname /\ c.early = calls[Len(calls)].early
          /\ c.missing = calls[Len(calls)].missing \ {dep}
      BY <1>c, <2>1 DEF CallsOfChain
    <3> QED BY <2>1, <3>1, <3>2 DEF Noted
  <2>5. /\ calls' \in Seq(CallsOfChain) /\ Len(calls') = Len(calls)
        /\ \A i \in 1..Len(calls) : calls'[i] = IF i = Len(calls) THEN c ELSE calls[i]
    BY <1>a, <1>c, <2>1, <2>2, <2>3
  <2>6. UNCHANGED <<recipes, installed, outcome>>
    BY <1>5 DEF Drop
  <2>7. ChainType'
    BY <1>b, <2>5, <2>6 DEF ChainType, CallsOfChain
  <2>8. \A k : Noted(k)' <=> Noted(k)
    BY <2>6 DEF Noted, Needs, Outputs, Current
  <2>9. \A i \in 1..Len(calls') : Noted(calls'[i])
    BY <2>4, <2>5 DEF ChainInv
  <2> QED BY <2>7, <2>8, <2>9 DEF ChainInv
<1>6. ASSUME NEW dep \in Packages, Cycle(dep) PROVE ChainInv'
  BY <1>6, <1>b, CallsLeave DEF Cycle, Refuse, ChainType, Current
<1>7. ASSUME NEW dep \in Packages, Bootstrap(dep) PROVE ChainInv'
  <2>1. PICK i \in 1..Len(calls) : i = FirstAncestor(dep)
    <3>1. Ancestors(dep) # {} /\ Ancestors(dep) \subseteq 1..Len(calls)
      BY <1>7 DEF Bootstrap, Ancestors
    <3>2. \E k \in Ancestors(dep) : \A j \in Ancestors(dep) : k <= j
      BY <3>1, <1>a, SomeIsLeast
    <3> QED BY <3>1, <3>2 DEF FirstAncestor
  <2> DEFINE n == calls[FirstAncestor(dep)].pkgname
             c == [pkgname |-> n, early |-> TRUE, want |-> dep,
                   missing |-> MissingDeps(n) \ Descendants(FirstAncestor(dep))]
  <2>2. n \in Packages
    <3>1. calls[i] \in CallsOfChain
      BY <1>a
    <3> QED BY <2>1, <3>1 DEF CallsOfChain
  <2>3. c \in CallsOfChain /\ Noted(c)
    BY <2>2, <1>b, MissingIsNoted DEF Noted, CallsOfChain
  <2> HIDE DEF n
  <2> QED BY <1>7, <2>3, CallJoins DEF Bootstrap, Call, Unmet, Descending, n
<1>8. ASSUME NEW dep \in Packages, BuildDependency(dep) PROVE ChainInv'
  <2> DEFINE c == [pkgname |-> dep, early |-> FALSE, want |-> dep, missing |-> MissingDeps(dep)]
  <2>1. c \in CallsOfChain /\ Noted(c)
    BY <1>b, MissingIsNoted DEF Noted, CallsOfChain
  <2> QED BY <1>8, <2>1, CallJoins DEF BuildDependency, Call, Unmet, Descending
<1>9. CASE UNCHANGED chainVars
  BY <1>9 DEF chainVars, ChainInv, ChainType, Noted, Needs, Outputs, Current
<1> QED BY <1>1, <1>2, <1>3, <1>4, <1>5, <1>6, <1>7, <1>8, <1>9 DEF ChainNext

\* What is selected holds what its members depend on of the recipe's outputs.
LEMMA SelectionIsClosed == \A n : HoldsSiblings(SelectedOutputs(n), n)
BY DEF HoldsSiblings, SelectedOutputs

\* A call with nothing missing has it all.
LEMMA NotedIsComplete ==
  ASSUME ChainInv PROVE BuildsAreComplete
<1> SUFFICES ASSUME calls # <<>>, Innermost.missing = {}, ~Innermost.early
             PROVE  LET n == Innermost.pkgname
                    IN  /\ Needs(n) \ Outputs(n) \subseteq Current
                        /\ Installable(SelectedOutputs(n), Current)
  BY DEF BuildsAreComplete
<1> DEFINE n == Innermost.pkgname
<1>1. Needs(n) \ Outputs(n) \subseteq Current
  <2>1. calls \in Seq(CallsOfChain)
    BY DEF ChainInv, ChainType, CallsOfChain
  <2>2. Noted(Innermost)
    BY <2>1 DEF ChainInv, Innermost, Last
  <2> QED BY <2>2 DEF Noted
<1>2. ASSUME NEW f \in SelectedOutputs(n)
      PROVE  recipes.depends[f] \subseteq Current \cup SelectedOutputs(n)
  <2>1. Outputs(n) \cap recipes.depends[f] \subseteq SelectedOutputs(n)
    BY SelectionIsClosed DEF HoldsSiblings
  <2>2. f \in Outputs(n)
    BY DEF SelectedOutputs
  <2>3. recipes.depends[f] \ Outputs(n) \subseteq Needs(n) \ Outputs(n)
    BY <2>2 DEF Needs
  <2> QED BY <1>1, <2>1, <2>3
<1> QED BY <1>1, <1>2 DEF Installable

\* The chain begins with no call.
LEMMA ChainBegins == ASSUME ChainInit PROVE ChainInv
<1>1. recipes \in [outputs : Splits, depends : [Packages -> SUBSET Packages],
                   makedepends : [Packages -> SUBSET Packages]]
  <2>1. PICK needs : recipes \in RecipesOf(needs)
    BY DEF ChainInit
  <2> DEFINE D == [n \in Packages |-> {m \in Packages : <<n, m, TRUE>> \in needs}]
             M == [n \in Packages |-> {m \in Packages : <<n, m, FALSE>> \in needs}]
  <2>2. D \in [Packages -> SUBSET Packages] /\ M \in [Packages -> SUBSET Packages]
    OBVIOUS
  <2>3. recipes \in [outputs : Splits, depends : {D}, makedepends : {M}]
    BY <2>1 DEF RecipesOf
  <2> QED BY <2>2, <2>3
<1>2. PICK there \in UpTo(1, Packages) :
        \E was \in [version : 1..2, explicit : BOOLEAN] :
           installed = [k \in Packages |-> IF k \in there THEN was ELSE Absent]
  BY DEF ChainInit
<1>3. installed \in [Packages -> [version : 0..2, explicit : BOOLEAN]]
  BY <1>2 DEF Absent
<1>4. calls = <<>> /\ outcome = "running"
  BY DEF ChainInit
<1> QED BY <1>1, <1>3, <1>4, ChainAssumption DEF ChainInv, ChainType

\* BuildsAreComplete (aur_cmd.rs build_aur_chain, install_built): a recipe is
\* built when all it needs is there, and what is installed of its outputs has
\* its dependencies, for every graph of needs, every way to split it into
\* recipes, and every depth of the chain.
THEOREM BuildsHaveAll == ChainSpec => []BuildsAreComplete
BY ChainBegins, ChainStep, NotedIsComplete, PTL DEF ChainSpec

-----------------------------------------------------------------------------
(* Versions.                                                               *)

\* A part is a sequence of at most MaxSegments segments.
LEMMA PartsAre ==
  ASSUME NEW p \in Parts
  PROVE  p \in Seq(Segment) /\ Len(p) \in 0..MaxSegments
<1>1. PICK n \in 0..MaxSegments : p \in [1..n -> Segment]
  BY DEF Parts, BoundedSeq, SeqOf
<1> QED BY <1>1, VersionAssumption

\* What a segment holds are numbers.
LEMMA SegmentsAre ==
  ASSUME NEW x \in Segment
  PROVE  x.sep \in Nat /\ x.numeric \in BOOLEAN /\ x.value \in Nat /\ x.value >= 1
BY VersionAssumption DEF Segment

\* The loop ends at one segment, before which the parts agree.
LEMMA LoopEnds ==
  ASSUME NEW p \in Parts, NEW q \in Parts
  PROVE  /\ Settled(p, q) \in 1..MaxSegments + 1
         /\ SettledAt(p, q, Settled(p, q))
         /\ \A j \in 1..Settled(p, q) - 1 : ~SettledAt(p, q, j)
<1> DEFINE S == {i \in 1..MaxSegments + 1 : SettledAt(p, q, i)}
<1>1. MaxSegments + 1 \in S
  BY PartsAre, VersionAssumption DEF SettledAt
<1>2. PICK i \in S : \A j \in S : i <= j
  <2>1. S \in SUBSET Nat /\ S # {}
    BY <1>1, VersionAssumption
  <2> HIDE DEF S
  <2> QED BY <2>1, SomeIsLeast
<1>3. i \in 1..MaxSegments + 1 /\ SettledAt(p, q, i)
  BY <1>2
<1>4. \A j \in 1..i - 1 : ~SettledAt(p, q, j)
  BY <1>2, <1>3, VersionAssumption
<1> QED BY <1>3, <1>4 DEF Settled

\* Whichever side is looked at first, the loop ends there.
LEMMA SettledTogether ==
  ASSUME NEW p \in Parts, NEW q \in Parts
  PROVE  Settled(p, q) = Settled(q, p)
<1>1. \A i \in 1..MaxSegments + 1 : SettledAt(p, q, i) <=> SettledAt(q, p, i)
  <2> SUFFICES ASSUME NEW i \in 1..MaxSegments + 1, i <= Len(p), i <= Len(q)
               PROVE  CompareSegments(p[i], q[i]) # 0 <=> CompareSegments(q[i], p[i]) # 0
    BY PartsAre, VersionAssumption DEF SettledAt
  <2>1. p[i] \in Segment /\ q[i] \in Segment
    BY PartsAre, VersionAssumption
  <2> QED BY <2>1, SegmentsAre DEF CompareSegments, Cmp
<1> DEFINE i == Settled(p, q)  j == Settled(q, p)
<1>2. i \in 1..MaxSegments + 1 /\ SettledAt(p, q, i) /\ \A k \in 1..i - 1 : ~SettledAt(p, q, k)
  BY LoopEnds
<1>3. j \in 1..MaxSegments + 1 /\ SettledAt(q, p, j) /\ \A k \in 1..j - 1 : ~SettledAt(q, p, k)
  BY LoopEnds
<1> HIDE DEF i, j
<1>4. ~(i < j) /\ ~(j < i)
  BY <1>1, <1>2, <1>3, VersionAssumption
<1> QED BY <1>2, <1>3, <1>4, VersionAssumption DEF i, j

\* Parts compare the other way round from the other side.
LEMMA PartsTurn ==
  ASSUME NEW p \in Parts, NEW q \in Parts
  PROVE  /\ Rpmvercmp(p, q) = -Rpmvercmp(q, p)
         /\ Rpmvercmp(p, q) \in {-1, 0, 1} /\ Rpmvercmp(q, p) \in {-1, 0, 1}
<1> DEFINE d == Settled(p, q)
<1>1. d \in Nat /\ Settled(q, p) = d
  BY LoopEnds, SettledTogether, VersionAssumption
<1>2. Len(p) \in Nat /\ Len(q) \in Nat /\ p \in Seq(Segment) /\ q \in Seq(Segment) /\ d >= 1
  BY PartsAre, LoopEnds, VersionAssumption
<1> HIDE DEF d
<1>3. /\ Rpmvercmp(p, q) = IF d > Len(p) \/ d > Len(q) THEN Showdown(p, q, d)
                           ELSE CompareSegments(p[d], q[d])
      /\ Rpmvercmp(q, p) = IF d > Len(q) \/ d > Len(p) THEN Showdown(q, p, d)
                           ELSE CompareSegments(q[d], p[d])
  BY <1>1 DEF Rpmvercmp, d
<1>4. CASE d > Len(p) \/ d > Len(q)
  BY <1>1, <1>2, <1>3, <1>4 DEF Showdown, Letters
<1>5. CASE d <= Len(p) /\ d <= Len(q)
  <2>1. p[d] \in Segment /\ q[d] \in Segment
    BY <1>1, <1>2, <1>5
  <2> QED BY <1>1, <1>2, <1>3, <1>5, <2>1, SegmentsAre DEF CompareSegments, Cmp
<1> QED BY <1>1, <1>2, <1>4, <1>5

\* The order of tokens.
Precedes(a, b) == \E k \in 1..3 : a[k] < b[k] /\ \A l \in 1..(k - 1) : a[l] = b[l]

\* It looks at the separators, then at the kind, then at the value.
LEMMA PrecedesIs ==
  ASSUME NEW a, NEW b
  PROVE  Precedes(a, b) <=> \/ a[1] < b[1]
                            \/ a[1] = b[1] /\ a[2] < b[2]
                            \/ a[1] = b[1] /\ a[2] = b[2] /\ a[3] < b[3]
<1>1. 1..3 = {1, 2, 3} /\ 1..(1 - 1) = {} /\ 1..(2 - 1) = {1} /\ 1..(3 - 1) = {1, 2}
  OBVIOUS
<1> QED BY <1>1 DEF Precedes

\* Words that agree before a token are ordered as that token is.
LEMMA TokenDecides ==
  ASSUME NEW v, NEW w, NEW d \in Nat \ {0}, d <= Len(v), d <= Len(w), Len(v) \in Nat, Len(w) \in Nat,
         \A j \in 1..(d - 1) : v[j] = w[j],
         \A i \in 1..Len(v), k \in 1..3 : v[i][k] \in Nat,
         \A i \in 1..Len(w), k \in 1..3 : w[i][k] \in Nat,
         Precedes(v[d], w[d])
  PROVE  Before(v, w) /\ ~Before(w, v)
<1>0. d \in 1..Len(v) /\ d \in 1..Len(w)
  OBVIOUS
<1>1. Before(v, w)
  BY <1>0 DEF Before, Precedes
<1>2. ~Precedes(w[d], v[d]) /\ v[d] # w[d]
  <2> DEFINE a == v[d]  b == w[d]
  <2>1. a[1] \in Nat /\ a[2] \in Nat /\ a[3] \in Nat /\ b[1] \in Nat /\ b[2] \in Nat /\ b[3] \in Nat
    BY <1>0
  <2>2. Precedes(a, b)
    OBVIOUS
  <2> HIDE DEF a, b
  <2>3. \/ a[1] < b[1]
        \/ a[1] = b[1] /\ a[2] < b[2]
        \/ a[1] = b[1] /\ a[2] = b[2] /\ a[3] < b[3]
    BY <2>2, PrecedesIs
  <2>4. ~Precedes(b, a)
    <3>1. ~(\/ b[1] < a[1]
            \/ b[1] = a[1] /\ b[2] < a[2]
            \/ b[1] = a[1] /\ b[2] = a[2] /\ b[3] < a[3])
      BY <2>1, <2>3, SMTT(30)
    <3> QED BY <3>1, PrecedesIs
  <2>5. a # b
    BY <2>2, <2>4
  <2> QED BY <2>4, <2>5 DEF a, b
<1>3. ASSUME Before(w, v) PROVE FALSE
  <2>1. PICK i \in 1..Len(w) : /\ i <= Len(v) /\ \A j \in 1..(i - 1) : w[j] = v[j]
                              /\ Precedes(w[i], v[i])
    BY <1>3 DEF Before, Precedes
  <2>2. i # d
    BY <2>1, <1>2
  <2>3. ~(d < i)
    BY <2>1, <1>2
  <2>4. i \in 1..(d - 1)
    BY <2>2, <2>3
  <2>5. v[i] = w[i] /\ w[i][1] \in Nat /\ w[i][2] \in Nat /\ w[i][3] \in Nat
    BY <2>1, <2>4
  <2> QED BY <2>1, <2>5, PrecedesIs, SMTT(30)
<1> QED BY <1>1, <1>3

\* Equal words are not before each other.
LEMMA EqualWords ==
  ASSUME NEW v, NEW w, Len(v) = Len(w), \A j \in 1..Len(v) : v[j] = w[j],
         \A j \in 1..Len(v) : \A k \in 1..3 : v[j][k] \in Nat
  PROVE  ~Before(v, w) /\ ~Before(w, v)
BY DEF Before

\* A part's word: a token for each segment, and one for its end.
LEMMA WordIs ==
  ASSUME NEW p \in Parts
  PROVE  /\ Len(Word(p)) = Len(p) + 1
         /\ \A i \in 1..Len(p) : Word(p)[i] = Token(p[i])
         /\ Word(p)[Len(p) + 1] = WordEnd
         /\ \A i \in 1..Len(p) + 1 : \A k \in 1..3 : Word(p)[i][k] \in Nat
<1> DEFINE s == [i \in 1..Len(p) |-> Token(p[i])]
<1>1. p \in Seq(Segment) /\ Len(p) \in Nat
  BY PartsAre
<1>2. \A x \in Segment : /\ Token(x)[1] \in Nat /\ Token(x)[2] \in Nat /\ Token(x)[3] \in Nat
                        /\ Token(x) \in Nat \X Nat \X Nat
  <2> SUFFICES ASSUME NEW x \in Segment
               PROVE  /\ Token(x)[1] \in Nat /\ Token(x)[2] \in Nat /\ Token(x)[3] \in Nat
                      /\ Token(x) \in Nat \X Nat \X Nat
    OBVIOUS
  <2>1. x.sep \in Nat /\ x.value \in Nat
    BY SegmentsAre
  <2> DEFINE kind == IF x.sep = 0 /\ ~x.numeric THEN 0 ELSE IF x.numeric THEN 3 ELSE 2
  <2>2. kind \in Nat
    OBVIOUS
  <2>3. Token(x) = <<x.sep, kind, x.value>>
    BY DEF Token
  <2>4. ASSUME NEW y, y = <<x.sep, kind, x.value>>
        PROVE  y[1] \in Nat /\ y[2] \in Nat /\ y[3] \in Nat /\ y \in Nat \X Nat \X Nat
    BY <2>1, <2>2, <2>4
  <2> HIDE DEF kind
  <2> QED BY <2>1, <2>2, <2>3, <2>4, Zenon
<1>3. s \in Seq(Nat \X Nat \X Nat) /\ Len(s) = Len(p) /\ \A i \in 1..Len(p) : s[i] = Token(p[i])
  <2> DEFINE T == Nat \X Nat \X Nat
  <2>1. \A i \in 1..Len(p) : Token(p[i]) \in T
    BY <1>1, <1>2
  <2> HIDE DEF T
  <2>2. s \in [1..Len(p) -> T]
    BY <2>1
  <2>3. s \in Seq(T) /\ Len(s) = Len(p)
    <3>1. \A r \in [1..Len(p) -> T] : r \in Seq(T) /\ Len(r) = Len(p)
      BY <1>1
    <3> HIDE DEF s
    <3> QED BY <2>2, <3>1
  <2> QED BY <2>3 DEF T
<1>4. WordEnd \in Nat \X Nat \X Nat /\ WordEnd[1] = 0 /\ WordEnd[2] = 1 /\ WordEnd[3] = 0
  BY DEF WordEnd
<1> HIDE DEF s
<1>5. Word(p) = Append(s, WordEnd)
  BY DEF Word, s
<1>6. /\ Len(Word(p)) = Len(p) + 1
      /\ \A i \in 1..Len(p) : Word(p)[i] = s[i]
      /\ Word(p)[Len(p) + 1] = WordEnd
  BY <1>1, <1>3, <1>4, <1>5
<1>7. ASSUME NEW i \in 1..Len(p) + 1, NEW k \in 1..3 PROVE Word(p)[i][k] \in Nat
  <2>1. CASE i = Len(p) + 1
    BY <1>4, <1>6, <2>1
  <2>2. CASE i \in 1..Len(p)
    <3>1. Word(p)[i] = Token(p[i]) /\ p[i] \in Segment
      BY <1>1, <1>3, <1>6, <2>2
    <3> QED BY <3>1, <1>2
  <2> QED BY <1>1, <2>1, <2>2
<1> QED BY <1>3, <1>6, <1>7

\* The comparison of two parts is the order of their words.
LEMMA PartsAreWords ==
  ASSUME NEW p \in Parts, NEW q \in Parts
  PROVE  Rpmvercmp(p, q) = IF Before(Word(p), Word(q)) THEN -1
                           ELSE IF Before(Word(q), Word(p)) THEN 1 ELSE 0
<1> DEFINE d == Settled(p, q)  v == Word(p)  w == Word(q)
<1>1. d \in Nat \ {0} /\ SettledAt(p, q, d) /\ \A j \in 1..d - 1 : ~SettledAt(p, q, j)
  BY LoopEnds, VersionAssumption
<1>2. Len(p) \in Nat /\ Len(q) \in Nat /\ p \in Seq(Segment) /\ q \in Seq(Segment)
  BY PartsAre
<1>3. /\ Len(v) = Len(p) + 1 /\ Len(w) = Len(q) + 1
      /\ \A i \in 1..Len(p) : v[i] = Token(p[i])
      /\ \A i \in 1..Len(q) : w[i] = Token(q[i])
      /\ v[Len(p) + 1] = WordEnd /\ w[Len(q) + 1] = WordEnd
      /\ \A i \in 1..Len(v), k \in 1..3 : v[i][k] \in Nat
      /\ \A i \in 1..Len(w), k \in 1..3 : w[i][k] \in Nat
  BY WordIs
<1>4. Rpmvercmp(p, q) = IF d > Len(p) \/ d > Len(q) THEN Showdown(p, q, d)
                        ELSE CompareSegments(p[d], q[d])
  BY DEF Rpmvercmp
<1> HIDE DEF d, v, w
<1>5. \A j \in 1..d - 1 : j <= Len(p) /\ j <= Len(q)
  BY <1>1, <1>2 DEF SettledAt
<1>6. ASSUME NEW j \in 1..d - 1 PROVE v[j] = w[j]
  <2>1. j \in 1..Len(p) /\ j \in 1..Len(q)
    BY <1>1, <1>2, <1>5
  <2>2. CompareSegments(p[j], q[j]) = 0
    BY <1>1, <2>1, <1>2 DEF SettledAt
  <2>3. p[j] \in Segment /\ q[j] \in Segment
    BY <1>2, <2>1
  <2>4. p[j].sep = q[j].sep /\ p[j].numeric = q[j].numeric /\ p[j].value = q[j].value
    BY <2>2, <2>3, SegmentsAre DEF CompareSegments, Cmp
  <2> QED BY <1>3, <2>1, <2>4 DEF Token
<1>7. d <= Len(p) + 1 /\ d <= Len(q) + 1
  <2>1. CASE d = 1
    BY <2>1, <1>2
  <2>2. CASE d # 1
    <3>1. d - 1 \in 1..d - 1
      BY <1>1, <2>2
    <3> QED BY <1>1, <1>2, <1>5, <3>1
  <2> QED BY <2>1, <2>2
<1>8. /\ \A k \in 1..3 : v[d][k] \in Nat /\ w[d][k] \in Nat
      /\ d <= Len(v) /\ d <= Len(w) /\ Len(v) \in Nat /\ Len(w) \in Nat
  BY <1>1, <1>2, <1>3, <1>7
<1>9. /\ Precedes(v[d], w[d]) => Before(v, w) /\ ~Before(w, v)
      /\ Precedes(w[d], v[d]) => Before(w, v) /\ ~Before(v, w)
  <2>1. Precedes(v[d], w[d]) => Before(v, w) /\ ~Before(w, v)
    BY <1>1, <1>3, <1>6, <1>8, TokenDecides
  <2>2. Precedes(w[d], v[d]) => Before(w, v) /\ ~Before(v, w)
    BY <1>1, <1>3, <1>6, <1>8, TokenDecides
  <2> QED BY <2>1, <2>2
<1>10. WordEnd[1] = 0 /\ WordEnd[2] = 1 /\ WordEnd[3] = 0
  BY DEF WordEnd
<1>11. \A x \in Segment : /\ Token(x)[1] = x.sep /\ Token(x)[3] = x.value
                          /\ Token(x)[2] = IF x.sep = 0 /\ ~x.numeric THEN 0
                                           ELSE IF x.numeric THEN 3 ELSE 2
  BY DEF Token
<1>12. CASE d > Len(p) /\ d > Len(q)
  <2>1. d = Len(p) + 1 /\ d = Len(q) + 1
    BY <1>1, <1>2, <1>7, <1>12
  <2>2. \A j \in 1..Len(v) : v[j] = w[j]
    BY <1>2, <1>3, <1>6, <2>1
  <2>3. ~Before(v, w) /\ ~Before(w, v)
    BY <1>3, <2>1, <2>2, EqualWords
  <2>4. Showdown(p, q, d) = 0
    BY <1>12, <1>1, <1>2 DEF Showdown
  <2> QED BY <1>4, <1>12, <2>3, <2>4 DEF v, w
<1>13. CASE d > Len(p) /\ d <= Len(q)
  <2>1. v[d] = WordEnd /\ d \in 1..Len(q) /\ w[d] = Token(q[d]) /\ q[d] \in Segment
    BY <1>1, <1>2, <1>3, <1>7, <1>13
  <2>2. Showdown(p, q, d) = IF Letters(q, d) THEN 1 ELSE -1
    BY <1>13, <1>1, <1>2 DEF Showdown, Letters
  <2>3. CASE Letters(q, d)
    <3>1. Precedes(w[d], v[d])
      BY <2>1, <2>3, <1>10, <1>11, PrecedesIs DEF Letters
    <3> QED BY <3>1, <1>4, <1>9, <1>13, <2>2, <2>3 DEF v, w
  <2>4. CASE ~Letters(q, d)
    <3>1. Precedes(v[d], w[d])
      BY <2>1, <2>4, <1>13, <1>10, <1>11, PrecedesIs, SegmentsAre DEF Letters
    <3> QED BY <3>1, <1>4, <1>9, <1>13, <2>2, <2>4 DEF v, w
  <2> QED BY <2>3, <2>4
<1>14. CASE d <= Len(p) /\ d > Len(q)
  <2>1. w[d] = WordEnd /\ d \in 1..Len(p) /\ v[d] = Token(p[d]) /\ p[d] \in Segment
    BY <1>1, <1>2, <1>3, <1>7, <1>14
  <2>2. Showdown(p, q, d) = IF Letters(p, d) THEN -1 ELSE 1
    BY <1>14, <1>1, <1>2 DEF Showdown, Letters
  <2>3. CASE Letters(p, d)
    <3>1. Precedes(v[d], w[d])
      BY <2>1, <2>3, <1>10, <1>11, PrecedesIs DEF Letters
    <3> QED BY <3>1, <1>4, <1>9, <1>14, <2>2, <2>3 DEF v, w
  <2>4. CASE ~Letters(p, d)
    <3>1. Precedes(w[d], v[d])
      BY <2>1, <2>4, <1>14, <1>10, <1>11, PrecedesIs, SegmentsAre DEF Letters
    <3> QED BY <3>1, <1>4, <1>9, <1>14, <2>2, <2>4 DEF v, w
  <2> QED BY <2>3, <2>4
<1>15. CASE d <= Len(p) /\ d <= Len(q)
  <2>1. /\ d \in 1..Len(p) /\ d \in 1..Len(q) /\ v[d] = Token(p[d]) /\ w[d] = Token(q[d])
        /\ p[d] \in Segment /\ q[d] \in Segment
    BY <1>1, <1>2, <1>3, <1>15
  <2> DEFINE c == CompareSegments(p[d], q[d])
  <2>2. Rpmvercmp(p, q) = c /\ c # 0
    BY <1>1, <1>2, <1>4, <1>15 DEF SettledAt
  <2>3. c \in {-1, 0, 1}
    BY <2>1, SegmentsAre DEF CompareSegments, Cmp
  <2>4. c = -1 => Precedes(v[d], w[d])
    BY <2>1, <1>11, PrecedesIs, SegmentsAre DEF CompareSegments, Cmp
  <2>5. c = 1 => Precedes(w[d], v[d])
    BY <2>1, <1>11, PrecedesIs, SegmentsAre DEF CompareSegments, Cmp
  <2> HIDE DEF c
  <2> QED BY <2>2, <2>3, <2>4, <2>5, <1>9 DEF v, w
<1> QED BY <1>1, <1>2, <1>12, <1>13, <1>14, <1>15

\* Versions of any number of segments compare like words; swapping them turns
\* the answer round.
LEMMA VersionsCompare == ASSUME VersionType PROVE VersionsAreOrdered
<1> DEFINE a == compared[1]  b == compared[2]
<1>1. a \in Evr /\ b \in Evr
  BY DEF VersionType
<1> HIDE DEF a, b
<1>2. /\ a.version \in Parts /\ b.version \in Parts /\ a.epoch \in Nat /\ b.epoch \in Nat
      /\ a.release \in Nat /\ b.release \in Nat
  BY <1>1 DEF Evr, NoRelease
<1>3. Rpmvercmp(a.version, b.version) =
        IF Before(Word(a.version), Word(b.version)) THEN -1
        ELSE IF Before(Word(b.version), Word(a.version)) THEN 1 ELSE 0
  BY <1>2, PartsAreWords
<1>4. Rpmvercmp(a.version, b.version) = -Rpmvercmp(b.version, a.version)
      /\ Rpmvercmp(a.version, b.version) \in {-1, 0, 1}
      /\ Rpmvercmp(b.version, a.version) \in {-1, 0, 1}
  BY <1>2, PartsTurn
<1>5. Vercmp(a, b) = -Vercmp(b, a) /\ Vercmp(a, b) \in {-1, 0, 1} /\ Vercmp(b, a) \in {-1, 0, 1}
  BY <1>2, <1>4 DEF Vercmp, Cmp, NoRelease
<1>6. Holds("<", a, b) = ~Holds("<=", b, a)
  BY <1>5 DEF Holds
<1>7. Holds(">=", a, b) = (Holds("=", a, b) \/ Holds(">", a, b))
  BY <1>5 DEF Holds
<1> QED BY <1>3, <1>5, <1>6, <1>7 DEF VersionsAreOrdered, a, b

\* VersionsAreOrdered (alpm-db vercmp.rs, dep.rs): for versions of any number of
\* segments, the loop of rpmvercmp is the order of words that end with a token
\* of their own, and what a dependency makes of it is one total order.
THEOREM VersionsOrdered ==
  VersionInit /\ [][UNCHANGED compared]_compared => []VersionsAreOrdered
<1>1. VersionInit => VersionType
  BY DEF VersionInit, VersionType
<1>2. VersionType /\ [UNCHANGED compared]_compared => VersionType'
  BY DEF VersionType
<1> QED BY <1>1, <1>2, VersionsCompare, PTL

-----------------------------------------------------------------------------
(* Clients.                                                                *)

\* Each behaviour of Clients is one of each of its parts: what is proved of a
\* part holds of the whole.
THEOREM PartsAreKept == Spec => UpdateSpec /\ ManifestSpec /\ SettingsSpec /\ ConfSpec
<1>1. Init => UpdateInit /\ ManifestInit /\ SettingsInit /\ ConfInit
  BY DEF Init
<1>2. [Next]_vars => /\ [UpdateNext]_updateVars /\ [ManifestNext]_manifestVars
                     /\ [SettingsNext]_settingsVars /\ [ConfNext]_confVars
  BY DEF Next, vars, Updates, Chain, Edits, ReadsSettings, ReadsConf
<1> QED BY <1>1, <1>2, PTL DEF Spec, UpdateSpec, ManifestSpec, SettingsSpec, ConfSpec

\* So do the builds of a behaviour, which follows the chain or never begins one.
LEMMA ChainIsKept == Spec => []BuildsAreComplete
<1>1. ASSUME Init PROVE ChainInv
  <2>1. CASE service = "chain"
    BY <1>1, <2>1, ChainBegins DEF Init
  <2>2. CASE service # "chain"
    <3>1. /\ recipes = [outputs |-> {Packages}, depends |-> [n \in Packages |-> {}],
                        makedepends |-> [n \in Packages |-> {}]]
          /\ installed = [n \in Packages |-> Absent] /\ calls = <<>> /\ outcome = "running"
      BY <1>1, <2>2 DEF Init
    <3>2. {Packages} \in Splits
      <4> DEFINE base == [n \in Packages |-> Requested]
      <4>1. base \in [Packages -> Packages]
        BY ChainAssumption
      <4>2. \A n \in Packages : {m \in Packages : base[m] = base[n]} = Packages
        OBVIOUS
      <4>3. {{m \in Packages : base[m] = base[n]} : n \in Packages} = {Packages}
        BY <4>2, ChainAssumption
      <4> QED BY <4>1, <4>3 DEF Splits
    <3> QED BY <3>1, <3>2, ChainAssumption DEF ChainInv, ChainType, Absent
  <2> QED BY <2>1, <2>2
<1>2. [Next]_vars => [ChainNext]_chainVars
  BY DEF Next, vars, Updates, Chain, Edits, ReadsSettings, ReadsConf
<1> QED BY <1>1, <1>2, ChainStep, NotedIsComplete, PTL DEF Spec

\* Two versions stay what somebody compares, whatever else a behaviour does.
LEMMA VersionsAreKept == Spec => []VersionsAreOrdered
<1>1. ASSUME Init PROVE VersionType
  <2>1. CASE service = "versions"
    BY <1>1, <2>1 DEF Init, VersionInit, VersionType
  <2>2. CASE service # "versions"
    <3>1. compared = [i \in 1..2 |-> [epoch |-> 0, version |-> <<>>, release |-> NoRelease]]
      BY <1>1, <2>2 DEF Init
    <3>2. <<>> \in Parts
      <4>1. <<>> \in BoundedSeq(Segment, MaxSegments)
        <5>1. <<>> = [i \in 1..0 |-> i] /\ 1..0 = {}
          OBVIOUS
        <5>2. <<>> \in SeqOf(Segment, MaxSegments)
          BY VersionAssumption DEF SeqOf
        <5> QED BY <5>2 DEF BoundedSeq
      <4> QED BY <4>1 DEF Parts
    <3> QED BY <3>1, <3>2 DEF VersionType, Evr
  <2> QED BY <2>1, <2>2
<1>2. VersionType /\ [Next]_vars => VersionType'
  BY DEF VersionType, Next, vars, Updates, Chain, Edits, ReadsSettings, ReadsConf
<1> QED BY <1>1, <1>2, VersionsCompare, PTL DEF Spec

\* On a host that does any of these things, the safety properties hold.
THEOREM ClientsAreSafe ==
  Spec => [](/\ UpdatesExclude /\ PostHooksRun /\ LedgerAgrees /\ BuildsAreComplete
             /\ FloorHolds /\ LevelsAreLastWords /\ StagingChecksTheSame
             /\ VersionsAreOrdered)
BY PartsAreKept, ChainIsKept, VersionsAreKept, StagedAsOnTheHost, UpdatesAreExclusive,
   HooksAreClosed, LedgerIsRight, FloorIsHeld, LastWordsCount, PTL
=============================================================================
