---------------------------- MODULE MirrorProofs ----------------------------
(***************************************************************************)
(* Theorems about MirrorPin: its types, that the user's own mirrorlist is  *)
(* never lost while commands do not overlap, and that a rollback is all or *)
(* nothing; and about Host, which follows a mirrorlist or a ledger.        *)
(***************************************************************************)
EXTENDS Host, JournalProofs

\* What Serial promises: no two commands at a time, and no edit beside a backup
\* that a killed command left.
Serial ==
  /\ \A p, q \in Pinners : p = q
  /\ ~EditsOverBackup

-----------------------------------------------------------------------------
(* Types.                                                                  *)

\* A refresh leaves databases of some snapshot.
LEMMA RefreshedIsMix ==
  ASSUME PinType, NEW s \in Numbers, NEW force \in BOOLEAN
  PROVE  Refreshed(s, force) \in Mixes
<1>1. databases \in Mixes
  BY DEF PinType
<1>2. \A d \in databases : (IF d > s THEN d ELSE s) \in Numbers
  BY <1>1 DEF Mixes
<1>3. PICK d \in databases : TRUE
  BY <1>1 DEF Mixes
<1>4. CASE force
  BY <1>4 DEF Refreshed, Mixes
<1>5. CASE ~force
  <2>1. Refreshed(s, force) \subseteq Numbers
    BY <1>2, <1>5 DEF Refreshed
  <2>2. (IF d > s THEN d ELSE s) \in Refreshed(s, force)
    BY <1>3, <1>5 DEF Refreshed
  <2> QED BY <2>1, <2>2 DEF Mixes
<1> QED BY <1>4, <1>5

\* An upgrade makes a mix of the host.
LEMMA TargetIsMix ==
  ASSUME NEW p, NEW t \in Target(p)
  PROVE  t \in Mixes
BY DEF Target, Targets

\* What p holds stays well-formed however it goes on.
LEMMA RunsOn ==
  ASSUME PinType, NEW p \in Pinners
  PROVE  /\ \A step \in Steps : Goto(p, step) => pinning' \in [Pinners -> Run]
         /\ EndCommand(p) => pinning' \in [Pinners -> Run]
         /\ \A b \in BOOLEAN : UndoRollback(p, b) => pinning' \in [Pinners -> Run]
         /\ Fail(p) => pinning' \in [Pinners -> Run]
         /\ Restored(p) => pinning' \in [Pinners -> Run]
<1>1. pinning \in [Pinners -> Run]
  BY DEF PinType
<1>2. \A step \in Steps : Goto(p, step) => pinning' \in [Pinners -> Run]
  BY <1>1 DEF Goto, Run
<1>3. EndCommand(p) => pinning' \in [Pinners -> Run]
  BY <1>1 DEF EndCommand, NoCommand, Run, Commands, Steps
<1>4. \A b \in BOOLEAN : UndoRollback(p, b) => pinning' \in [Pinners -> Run]
  <2> SUFFICES ASSUME NEW b \in BOOLEAN, UndoRollback(p, b)
               PROVE  pinning' \in [Pinners -> Run]
    OBVIOUS
  <2> DEFINE restoring == [pinning EXCEPT ![p].step = "restore"]
  <2>1. restoring \in [Pinners -> Run]
    BY <1>1 DEF Run, Steps
  <2>2. pinning' = [restoring EXCEPT ![p].refreshes = b]
    BY <1>1 DEF UndoRollback
  <2> QED BY <2>1, <2>2 DEF Run
<1>5. "again" \in Steps
  BY DEF Steps
<1> QED BY <1>2, <1>3, <1>4, <1>5 DEF Fail, Restored

\* What a step of p needs to know of its command: the snapshot it pins, the
\* list it puts back.
Aimed(p) ==
  /\ pinning[p].step \in {"backup", "list"} =>
       pinning[p].cmd \in {"pin", "rollback"} /\ pinning[p].snap \in Numbers
  /\ pinning[p].step = "engine" => pinning[p].cmd = "rollback"
  /\ pinning[p].step = "restore" => pinning[p].cmd \in {"rollback", "unpin"}
  /\ pinning[p].cmd \in {"rollback", "unpin"} => pinning[p].original \in Lists

\* Starting a command keeps the types.
LEMMA StartType ==
  ASSUME PinType, NEW p \in Pinners, NEW name \in Commands,
         NEW s \in Numbers \cup {None}, NEW l \in Lists \cup {None},
         NEW step \in Steps, StartCommand(p, name, s, l, step)
  PROVE  PinType'
<1>1. [cmd |-> name, step |-> step, snap |-> s, original |-> l,
       before |-> databases, refreshes |-> step = "refresh"] \in Run
  BY DEF PinType, Run, Mixes
<1>2. pinning' \in [Pinners -> Run]
  BY <1>1 DEF PinType, StartCommand
<1> QED BY <1>2 DEF StartCommand, PinType, files, state

\* Every step keeps the types.
LEMMA PinTypeStep ==
  PinType /\ (\A p \in Pinners : Aimed(p)) /\ [PinNext]_pinVars => PinType'
<1> SUFFICES ASSUME PinType, \A p \in Pinners : Aimed(p), [PinNext]_pinVars
             PROVE  PinType'
  OBVIOUS
<1>0. /\ pinning \in [Pinners -> Run]
      /\ \A p \in Pinners : pinning[p] \in Run /\ Aimed(p)
  BY DEF PinType
<1>1. CASE UNCHANGED pinVars
  BY <1>1 DEF pinVars, files, state, PinType
<1>2. CASE MoveChannel
  BY <1>2 DEF MoveChannel, files, PinType
<1>3. CASE EditList
  BY <1>3 DEF EditList, state, PinType, Lists
<1>4. ASSUME NEW p \in Pinners, Pin(p) \/ Unpin(p) \/ Rollback(p) \/ Update(p)
      PROVE  PinType'
  <2>1. CASE Pin(p)
    BY <2>1, StartType DEF Pin, Commands, Steps
  <2>2. CASE Unpin(p)
    BY <2>2, StartType DEF Unpin, Commands, Steps, PinType
  <2>3. CASE Rollback(p)
    BY <2>3, StartType DEF Rollback, Commands, Steps, PinType
  <2>4. CASE Update(p)
    BY <2>4, StartType DEF Update, Commands, Steps
  <2> QED BY <1>4, <2>1, <2>2, <2>3, <2>4
<1>5. ASSUME NEW p \in Pinners, PinStep(p) PROVE PinType'
  <2>r. Refreshed(Serves(list), Forced(p)) \in Mixes
    <3>1. Serves(list) \in Numbers
      BY DEF Serves, Pinned, PinType
    <3> QED BY <3>1, RefreshedIsMix DEF Forced
  <2>1. CASE Pin(p) \/ Unpin(p) \/ Rollback(p) \/ Update(p)
    BY <1>4, <2>1
  <2>2. CASE WriteBackup(p)
    <3>1. pinning' \in [Pinners -> Run]
      BY <2>2, RunsOn DEF WriteBackup, Steps
    <3> QED BY <2>2, <3>1 DEF WriteBackup, state, PinType
  <2>3. CASE WriteList(p)
    <3>1. pinning' \in [Pinners -> Run]
      BY <2>3, RunsOn DEF WriteList, Steps
    <3>2. list' \in Lists
      BY <2>3, <1>0 DEF WriteList, Aimed, Lists
    <3> QED BY <2>3, <3>1, <3>2 DEF WriteList, state, PinType
  <2>4. CASE RestoreList(p)
    <3>1. pinning' \in [Pinners -> Run]
      BY <2>4, RunsOn DEF RestoreList, Steps
    <3>2. list' \in Lists
      BY <2>4, <1>0 DEF RestoreList, Aimed
    <3> QED BY <2>4, <3>1, <3>2 DEF RestoreList, state, PinType
  <2>5. CASE RemoveBackup(p)
    <3>1. pinning' \in [Pinners -> Run]
      BY <2>5, RunsOn DEF RemoveBackup
    <3> QED BY <2>5, <3>1 DEF RemoveBackup, state, PinType
  <2>6. CASE EngineReady(p) \/ EngineFails(p) \/ PlanIsMade(p) \/ PlanIsEmpty(p)
               \/ PlanFails(p) \/ RecordFails(p)
    <3>1. pinning' \in [Pinners -> Run]
      BY <2>6, RunsOn DEF EngineReady, EngineFails, PlanIsMade, PlanIsEmpty,
         PlanFails, RecordFails, Steps
    <3>2. UNCHANGED <<files, state, mishaps, mine>>
      BY <2>6 DEF EngineReady, EngineFails, PlanIsMade, PlanIsEmpty, PlanFails,
         RecordFails
    <3> QED BY <3>1, <3>2 DEF files, state, PinType
  <2>7. CASE RefreshDatabases(p)
    <3>1. pinning' \in [Pinners -> Run]
      BY <2>7, RunsOn DEF RefreshDatabases, Steps
    <3>2. databases' \in Mixes
      BY <2>7, <2>r DEF RefreshDatabases
    <3> QED BY <2>7, <3>1, <3>2 DEF RefreshDatabases, files, PinType
  <2>8. CASE RefreshFails(p)
    <3>1. pinning' \in [Pinners -> Run]
      BY <2>8, RunsOn DEF RefreshFails
    <3>2. databases' \in Mixes
      BY <2>8, <2>r DEF RefreshFails, PinType, Mixes
    <3>3. mishaps' \in 0 .. MaxMishaps
      BY <2>8, MirrorBounds DEF RefreshFails, PinType
    <3> QED BY <2>8, <3>1, <3>2, <3>3 DEF RefreshFails, files, PinType
  <2>9. CASE ReadRelease(p)
    <3>1. PICK s \in Numbers \cup {None} :
             /\ pinning' = [pinning EXCEPT ![p].step = "plan",
                          ![p].snap = IF pinning[p].refreshes THEN s ELSE None]
             /\ cached' = IF ~Pinned(list) /\ s = channel THEN s ELSE cached
      BY <2>9 DEF ReadRelease, PinType, Lists, Pinned
    <3> DEFINE planning == [pinning EXCEPT ![p].step = "plan"]
               known == IF pinning[p].refreshes THEN s ELSE None
    <3>2. planning \in [Pinners -> Run]
      BY <1>0 DEF Run, Steps
    <3>3. pinning' = [planning EXCEPT ![p].snap = known]
      BY <1>0, <3>1
    <3>4. pinning' \in [Pinners -> Run]
      <4> HIDE DEF planning
      <4> QED BY <3>2, <3>3 DEF Run
    <3>5. cached' \in Numbers \cup {None}
      BY <3>1 DEF PinType
    <3> QED BY <2>9, <3>4, <3>5 DEF ReadRelease, files, PinType
  <2>10. CASE ApplyPlan(p)
    <3>1. pinning' \in [Pinners -> Run]
      BY <2>10, RunsOn DEF ApplyPlan, Steps
    <3>2. packages' \in Mixes
      BY <2>10, TargetIsMix DEF ApplyPlan
    <3> QED BY <2>10, <3>1, <3>2 DEF ApplyPlan, files, PinType
  <2>11. CASE ApplyFails(p)
    <3>1. pinning' \in [Pinners -> Run]
      BY <2>11, RunsOn DEF ApplyFails
    <3> QED BY <2>11, <3>1 DEF ApplyFails, files, PinType
  <2>12. CASE RecordSnapshot(p)
    <3>1. pinning' \in [Pinners -> Run]
      BY <2>12, RunsOn DEF RecordSnapshot
    <3>2. converged' \in Numbers \cup {None}
      BY <2>12, <1>0 DEF RecordSnapshot, Run, PinType
    <3> QED BY <2>12, <3>1, <3>2 DEF RecordSnapshot, files, PinType
  <2>13. CASE KillCommand(p)
    <3>1. pinning' \in [Pinners -> Run]
      BY <2>13, RunsOn DEF KillCommand
    <3>2. mishaps' \in 0 .. MaxMishaps
      BY <2>13, MirrorBounds DEF KillCommand, PinType
    <3> QED BY <2>13, <3>1, <3>2 DEF KillCommand, files, state, PinType
  <2> QED
    BY <1>5, <2>1, <2>2, <2>3, <2>4, <2>5, <2>6, <2>7, <2>8, <2>9, <2>10,
       <2>11, <2>12, <2>13 DEF PinStep
<1> QED BY <1>1, <1>2, <1>3, <1>5 DEF PinNext

\* Every step keeps to its command's aim.
LEMMA AimStep ==
  PinType /\ (\A p \in Pinners : Aimed(p)) /\ [PinNext]_pinVars
  => \A p \in Pinners : Aimed(p)'
<1> SUFFICES ASSUME PinType, \A p \in Pinners : Aimed(p), [PinNext]_pinVars
             PROVE  \A p \in Pinners : Aimed(p)'
  OBVIOUS
<1>0. pinning \in [Pinners -> Run]
  BY DEF PinType
<1>1. CASE UNCHANGED pinning
  BY <1>1 DEF Aimed
<1>2. ASSUME NEW p \in Pinners, PinStep(p), NEW q \in Pinners PROVE Aimed(q)'
  <2>0. pinning[p] \in Run /\ Aimed(p) /\ Aimed(q)
    BY <1>0
  <2>1. ASSUME NEW step \in {"unbackup", "refresh", "release", "plan", "apply",
                             "record", "again"},
               Goto(p, step)
        PROVE  Aimed(q)'
    BY <2>0, <2>1, <1>0 DEF Goto, Aimed, Run
  <2>2. ASSUME EndCommand(p) PROVE Aimed(q)'
    BY <2>0, <2>2, <1>0 DEF EndCommand, NoCommand, Aimed
  <2>3. ASSUME NEW b \in BOOLEAN, pinning[p].cmd = "rollback", UndoRollback(p, b)
        PROVE  Aimed(q)'
    <3>1. /\ pinning'[p].step = "restore" /\ pinning'[p].cmd = "rollback"
          /\ pinning'[p].original = pinning[p].original
          /\ q # p => pinning'[q] = pinning[q]
      BY <2>0, <2>3, <1>0 DEF UndoRollback, Run
    <3> QED BY <3>1, <2>0, <2>3 DEF Aimed
  <2>4. ASSUME Fail(p) PROVE Aimed(q)'
    BY <2>4, <2>3, <2>2 DEF Fail
  <2>5. ASSUME Restored(p) PROVE Aimed(q)'
    BY <2>5, <2>1, <2>2 DEF Restored
  <2>6. CASE Pin(p) \/ Unpin(p) \/ Rollback(p) \/ Update(p)
    <3>1. CASE Pin(p)
      BY <3>1, <2>0, <1>0 DEF Pin, StartCommand, Aimed
    <3>2. CASE Unpin(p)
      BY <3>2, <2>0, <1>0 DEF Unpin, StartCommand, Aimed, PinType
    <3>3. CASE Rollback(p)
      BY <3>3, <2>0, <1>0 DEF Rollback, StartCommand, Aimed, PinType
    <3>4. CASE Update(p)
      BY <3>4, <2>0, <1>0 DEF Update, StartCommand, Aimed
    <3> QED BY <2>6, <3>1, <3>2, <3>3, <3>4
  <2>7. CASE WriteBackup(p)
    BY <2>7, <2>0, <1>0 DEF WriteBackup, Goto, Aimed, Run
  <2>8. CASE WriteList(p)
    BY <2>8, <2>2, <2>0, <1>0 DEF WriteList, Goto, Aimed, Run
  <2>9. CASE RestoreList(p) \/ RemoveBackup(p)
    BY <2>9, <2>1, <2>5 DEF RestoreList, RemoveBackup
  <2>10. CASE EngineReady(p) \/ RefreshDatabases(p) \/ PlanIsMade(p) \/ PlanIsEmpty(p) \/ ApplyPlan(p)
    BY <2>10, <2>1, <2>2 DEF EngineReady, RefreshDatabases, PlanIsMade, PlanIsEmpty, ApplyPlan
  <2>11. CASE EngineFails(p)
    BY <2>11, <2>3, <2>0 DEF EngineFails, Aimed
  <2>12. CASE RefreshFails(p) \/ PlanFails(p) \/ ApplyFails(p)
    BY <2>12, <2>2, <2>4 DEF RefreshFails, PlanFails, ApplyFails
  <2>13. CASE ReadRelease(p)
    <3>1. /\ pinning'[p].step = "plan" /\ pinning'[p].cmd = pinning[p].cmd
          /\ pinning'[p].original = pinning[p].original
          /\ q # p => pinning'[q] = pinning[q]
      BY <2>13, <1>0, <2>0 DEF ReadRelease, Run
    <3> QED BY <3>1, <2>0 DEF Aimed
  <2>14. CASE RecordSnapshot(p) \/ RecordFails(p) \/ KillCommand(p)
    BY <2>14, <2>2 DEF RecordSnapshot, RecordFails, KillCommand
  <2> QED
    BY <1>2, <2>6, <2>7, <2>8, <2>9, <2>10, <2>11, <2>12, <2>13, <2>14 DEF PinStep
<1>3. CASE MoveChannel \/ EditList
  BY <1>1, <1>3 DEF MoveChannel, EditList
<1> QED BY <1>1, <1>2, <1>3 DEF PinNext, pinVars

\* The initial states have their types, and no command runs.
LEMMA InitType == PinInit => PinType /\ \A p \in Pinners : Aimed(p)
<1> SUFFICES ASSUME PinInit PROVE PinType /\ \A p \in Pinners : Aimed(p)
  OBVIOUS
<1>1. pinning \in [Pinners -> Run]
  BY DEF PinInit, NoCommand, Run, Commands, Steps
<1>2. databases \in Mixes /\ packages \in Mixes
  BY DEF PinInit, Mixes
<1>3. \A p \in Pinners : Aimed(p)
  BY DEF PinInit, NoCommand, Aimed
<1> QED BY <1>1, <1>2, <1>3, MirrorBounds DEF PinInit, PinType, Lists

\* The types of all variables are kept, for any processes, lists and bounds.
THEOREM PinTypes == PinSpec => []PinType
<1> DEFINE inv == PinType /\ \A p \in Pinners : Aimed(p)
<1>1. PinInit => inv
  BY InitType
<1>2. inv /\ [PinNext]_pinVars => inv'
  BY PinTypeStep, AimStep
<1>3. inv => PinType
  OBVIOUS
<1> QED BY <1>1, <1>2, <1>3, PTL DEF PinSpec

-----------------------------------------------------------------------------
(* The user's list.                                                        *)

\* What process p goes by: the backup it wrote, the list it will restore.
Remembers(p) ==
  /\ pinning[p].step = "list" => backup = mine
  /\ pinning[p].step = "unbackup" => list = mine /\ ~Pinned(pinning[p].original)
  /\ pinning[p].cmd = "rollback" =>
       IF Pinned(pinning[p].original) THEN backup = mine
       ELSE pinning[p].original = mine
  /\ pinning[p].cmd = "unpin" => pinning[p].original = mine

\* UserListIsKept is inductive only with what a command remembers, and with a
\* backup, where there is one, being the user's list even if no pin is in force.
ListInvariant ==
  /\ UserListIsKept
  /\ backup \in {None, mine}
  /\ \A p \in Pinners : Remembers(p)

\* A step of the only process keeps the user's list.
LEMMA ListStep ==
  Serial /\ PinType /\ (\A p \in Pinners : Aimed(p)) /\ ListInvariant /\ [PinNext]_pinVars
  => ListInvariant'
<1> SUFFICES ASSUME Serial, PinType, \A p \in Pinners : Aimed(p), ListInvariant,
                    [PinNext]_pinVars
             PROVE  ListInvariant'
  OBVIOUS
<1>0. /\ pinning \in [Pinners -> Run]
      /\ mine \in UserLists /\ ~Pinned(mine) /\ mine # None
  BY ListsAreTold DEF PinType, Pinned, Lists
<1>1. CASE UNCHANGED pinVars
  BY <1>1 DEF pinVars, files, state, ListInvariant, UserListIsKept, Remembers,
     Pinned
<1>2. CASE MoveChannel
  BY <1>2 DEF MoveChannel, files, ListInvariant, UserListIsKept, Remembers,
     Pinned
<1>3. CASE EditList
  <2>1. backup = None /\ backup' = None
    BY <1>3 DEF EditList, Serial
  <2>2. list' = mine' /\ ~Pinned(list')
    BY <1>3, ListsAreTold DEF EditList, Pinned
  <2>3. \A p \in Pinners : pinning'[p] = NoCommand
    BY <1>3 DEF EditList
  <2>4. \A p \in Pinners : Remembers(p)'
    BY <2>3 DEF Remembers, NoCommand
  <2> QED BY <2>1, <2>2, <2>4 DEF ListInvariant, UserListIsKept, Pinned
<1>4. ASSUME NEW p \in Pinners, PinStep(p) PROVE ListInvariant'
  <2>0. /\ Pinners = {p}
        /\ pinning[p] \in Run
        /\ Aimed(p)
        /\ Remembers(p)
    BY <1>0 DEF Serial, ListInvariant
  <2>f. EndCommand(p) => Remembers(p)'
    BY <1>0 DEF EndCommand, Remembers, NoCommand
  \* A step that leaves files and history alone keeps the rest.
  <2>u. ASSUME UNCHANGED <<list, backup, mine>>, Remembers(p)'
        PROVE  ListInvariant'
    BY <2>u, <2>0 DEF ListInvariant, UserListIsKept, Pinned
  <2>1. CASE Pin(p)
    BY <2>1, <2>0, <2>u, <1>0 DEF Pin, StartCommand, files, Remembers, Run
  <2>2. CASE Unpin(p)
    BY <2>2, <2>0, <2>u, <1>0 DEF Unpin, StartCommand, files, Remembers, Run,
       ListInvariant, UserListIsKept
  <2>3. CASE Rollback(p)
    BY <2>3, <2>0, <2>u, <1>0 DEF Rollback, StartCommand, files, Remembers, Run,
       ListInvariant, UserListIsKept
  <2>4. CASE Update(p)
    BY <2>4, <2>0, <2>u, <1>0 DEF Update, StartCommand, files, Remembers, Run
  <2>5. CASE WriteBackup(p)
    <3>1. backup' = mine /\ list' = list /\ mine' = mine
      BY <2>5, <1>0 DEF WriteBackup, ListInvariant, UserListIsKept
    <3>2. pinning'[p] = [pinning[p] EXCEPT !.step = "list"]
      BY <2>5, <1>0 DEF WriteBackup, Goto
    <3>3. Remembers(p)'
      BY <2>5, <3>1, <3>2, <2>0 DEF WriteBackup, Remembers, Pinned, Run
    <3> QED BY <3>1, <3>3, <2>0 DEF ListInvariant, UserListIsKept
  <2>6. CASE WriteList(p)
    <3>1. backup' = backup /\ backup = mine /\ mine' = mine /\ Pinned(list')
      BY <2>6, <2>0 DEF WriteList, Aimed, Remembers, Pinned
    <3>2. pinning'[p] = [pinning[p] EXCEPT !.step = "engine"] \/ EndCommand(p)
      BY <2>6, <1>0 DEF WriteList, Goto
    <3>3. Remembers(p)'
      BY <2>6, <3>1, <3>2, <2>f, <2>0 DEF WriteList, Remembers, Pinned, Run
    <3> QED BY <3>1, <3>3, <2>0 DEF ListInvariant, UserListIsKept, Pinned
  <2>7. CASE RestoreList(p)
    <3>1. /\ list' = pinning[p].original /\ backup' = backup /\ mine' = mine
          /\ IF Pinned(pinning[p].original)
             THEN pinning[p].cmd = "rollback" /\ backup = mine
             ELSE pinning[p].original = mine
      BY <2>7, <2>0, <1>0 DEF RestoreList, Aimed, Remembers, Pinned
    <3>2. UserListIsKept'
      BY <3>1 DEF UserListIsKept, Pinned
    <3>3. \/ /\ pinning'[p] = [pinning[p] EXCEPT !.step = "unbackup"]
             /\ ~Pinned(pinning[p].original)
          \/ pinning'[p] = [pinning[p] EXCEPT !.step = "again"]
          \/ EndCommand(p)
      BY <2>7, <1>0 DEF RestoreList, Restored, Goto
    <3>4. Remembers(p)'
      BY <2>7, <3>1, <3>3, <2>f, <2>0 DEF RestoreList, Remembers, Pinned, Run
    <3> QED BY <3>1, <3>2, <3>4, <2>0 DEF ListInvariant
  <2>8. CASE RemoveBackup(p)
    <3>1. /\ list' = mine /\ backup' = None /\ mine' = mine
          /\ ~Pinned(pinning[p].original)
      BY <2>8, <2>0 DEF RemoveBackup, Remembers
    <3>2. UserListIsKept'
      BY <3>1, <1>0 DEF UserListIsKept, Pinned
    <3>3. pinning'[p] = [pinning[p] EXCEPT !.step = "again"] \/ EndCommand(p)
      BY <2>8, <1>0 DEF RemoveBackup, Restored, Goto
    <3>4. Remembers(p)'
      BY <2>8, <3>1, <3>3, <2>f, <2>0 DEF RemoveBackup, Remembers, Pinned, Run
    <3> QED BY <3>1, <3>2, <3>4, <2>0 DEF ListInvariant
  <2>9. CASE EngineReady(p)
    BY <2>9, <2>0, <2>u, <1>0 DEF EngineReady, Goto, files, Remembers, Run,
       Pinned
  <2>10. CASE EngineFails(p)
    <3>1. /\ pinning'[p].step = "restore" /\ pinning'[p].cmd = pinning[p].cmd
          /\ pinning'[p].snap = pinning[p].snap /\ pinning'[p].original = pinning[p].original
      BY <2>10, <1>0, <2>0 DEF EngineFails, UndoRollback, Run
    <3>2. Remembers(p)'
      BY <2>10, <3>1, <2>0 DEF EngineFails, files, Aimed, Remembers, Pinned
    <3> QED BY <2>10, <3>2, <2>u DEF EngineFails, files
  <2>11. ASSUME Fail(p), UNCHANGED <<list, backup, mine>> PROVE ListInvariant'
    <3>1. CASE pinning[p].cmd = "rollback"
      <4>1. /\ pinning'[p].step = "restore" /\ pinning'[p].cmd = pinning[p].cmd
            /\ pinning'[p].snap = pinning[p].snap /\ pinning'[p].original = pinning[p].original
        BY <2>11, <3>1, <1>0, <2>0 DEF Fail, UndoRollback, Run
      <4>2. Remembers(p)'
        BY <2>11, <3>1, <4>1, <2>0 DEF Remembers, Pinned
      <4> QED BY <2>11, <4>2, <2>u
    <3>2. CASE pinning[p].cmd # "rollback"
      BY <2>11, <3>2, <2>f, <2>u DEF Fail
    <3> QED BY <3>1, <3>2
  <2>12. CASE RefreshDatabases(p)
    <3>1. \/ EndCommand(p)
          \/ pinning'[p] = [pinning[p] EXCEPT !.step = "release"]
          \/ pinning'[p] = [pinning[p] EXCEPT !.step = "plan"]
      BY <2>12, <1>0 DEF RefreshDatabases, Goto
    <3>2. UNCHANGED <<list, backup, mine>>
      BY <2>12 DEF RefreshDatabases, files
    <3>3. Remembers(p)'
      BY <3>1, <3>2, <2>f, <2>0 DEF Remembers, Pinned, Run
    <3> QED BY <3>2, <3>3, <2>u
  <2>13. CASE RefreshFails(p)
    BY <2>13, <2>11, <2>f, <2>u DEF RefreshFails, files
  <2>14. CASE ReadRelease(p)
    <3>1. /\ pinning'[p].step = "plan" /\ pinning'[p].cmd = pinning[p].cmd
          /\ pinning'[p].original = pinning[p].original
      BY <2>14, <1>0, <2>0 DEF ReadRelease, Run
    <3>2. Remembers(p)'
      BY <2>14, <3>1, <2>0 DEF ReadRelease, files, Remembers, Pinned
    <3> QED BY <2>14, <3>2, <2>u DEF ReadRelease, files
  <2>15. CASE PlanIsMade(p) \/ PlanIsEmpty(p) \/ ApplyPlan(p)
    <3>1. \/ pinning'[p] = [pinning[p] EXCEPT !.step = "apply"]
          \/ pinning'[p] = [pinning[p] EXCEPT !.step = "record"]
      BY <2>15, <1>0 DEF PlanIsMade, PlanIsEmpty, ApplyPlan, Goto
    <3>2. UNCHANGED <<list, backup, mine>>
      BY <2>15 DEF PlanIsMade, PlanIsEmpty, ApplyPlan, files
    <3>3. Remembers(p)'
      BY <3>1, <3>2, <2>0 DEF Remembers, Pinned, Run
    <3> QED BY <3>2, <3>3, <2>u
  <2>16. CASE PlanFails(p) \/ ApplyFails(p)
    BY <2>16, <2>11 DEF PlanFails, ApplyFails, files
  <2>17. CASE RecordSnapshot(p) \/ RecordFails(p) \/ KillCommand(p)
    BY <2>17, <2>f, <2>u DEF RecordSnapshot, RecordFails, KillCommand, files
  <2> QED
    BY <1>4, <2>1, <2>2, <2>3, <2>4, <2>5, <2>6, <2>7, <2>8, <2>9, <2>10,
       <2>12, <2>13, <2>14, <2>15, <2>16, <2>17 DEF PinStep
<1> QED BY <1>1, <1>2, <1>3, <1>4 DEF PinNext

\* The user's own mirrorlist is never lost, for any snapshots, lists and number
\* of kills: it is in force or it is what unpin restores, as long as commands do
\* not overlap and nobody edits the list beside a backup.
THEOREM UserListKept ==
  ASSUME Serial PROVE PinSpec => []UserListIsKept
<1> DEFINE inv == PinType /\ (\A p \in Pinners : Aimed(p)) /\ ListInvariant
<1>1. PinInit => inv
  <2>1. PinInit => ListInvariant
    BY ListsAreTold DEF PinInit, NoCommand, ListInvariant, UserListIsKept, Remembers,
       Pinned, Lists
  <2> QED BY <2>1, InitType
<1>2. inv /\ [PinNext]_pinVars => inv'
  BY PinTypeStep, AimStep, ListStep
<1>3. inv => UserListIsKept
  BY DEF ListInvariant
<1> QED BY <1>1, <1>2, <1>3, PTL DEF PinSpec

-----------------------------------------------------------------------------
(* Rollbacks.                                                              *)

\* No two commands at a time.
OnePinner == \A p, q \in Pinners : p = q

RollbackSteps == Steps \ {"none", "release"}

\* Where a rollback r is: what list and databases are before it refreshes, once
\* it has, and while it takes the list back.
OnItsWay(r, l, dbs, pks) ==
  /\ r.snap \in Numbers /\ r.step \in RollbackSteps
  /\ r.step \in {"backup", "list", "engine", "refresh"} => dbs = r.before
  /\ r.step \in {"engine", "refresh", "plan", "apply", "record"} => l = r.snap
  /\ r.step \in {"plan", "apply", "record"} => dbs = {r.snap}
  /\ r.step = "record" => pks = {r.snap}
  /\ r.step \in {"unbackup", "again"} => l = r.original
  /\ r.step \in {"restore", "unbackup"} /\ ~r.refreshes => dbs = r.before

\* What the only rollback under way has done so far.
RollbackInvariant ==
  \A p \in Pinners :
    pinning[p].cmd = "rollback" => OnItsWay(pinning[p], list, databases, packages)

\* A rollback that ends is done, or was taken back.
EndsWell(p) ==
  ( pinning[p].cmd = "rollback" /\ pinning'[p] = NoCommand /\ mishaps' = mishaps )
  => \/ /\ list' = pinning[p].snap
        /\ databases' = {pinning[p].snap} /\ packages' = {pinning[p].snap}
     \/ /\ list' = pinning[p].original
        /\ databases' \in {{Serves(list')}, pinning[p].before}

\* With downgrades, packages become those of the one snapshot there is.
LEMMA DowngradesToSnapshot ==
  ASSUME NEW p, pinning[p].cmd = "rollback", NEW s, databases = {s}, NEW t \in Target(p)
  PROVE  t = {s}
BY DEF Target, Targets, Mixes

\* What a command that fails, ends or goes on leaves of itself.
LEMMA NextOf ==
  ASSUME PinType, NEW p \in Pinners, pinning[p].cmd = "rollback"
  PROVE  /\ \A step : Goto(p, step) => pinning'[p] = [pinning[p] EXCEPT !.step = step]
         /\ EndCommand(p) => pinning'[p] = NoCommand
         /\ \A b : UndoRollback(p, b) =>
              pinning'[p] = [pinning[p] EXCEPT !.step = "restore", !.refreshes = b]
         /\ Fail(p) =>
              pinning'[p] = [pinning[p] EXCEPT !.step = "restore", !.refreshes = TRUE]
         /\ Restored(p) =>
              \/ /\ pinning[p].refreshes
                 /\ pinning'[p] = [pinning[p] EXCEPT !.step = "again"]
              \/ ~pinning[p].refreshes /\ pinning'[p] = NoCommand
<1>1. pinning \in [Pinners -> Run] /\ pinning[p] \in Run
  BY DEF PinType
<1>2. \A b : UndoRollback(p, b) =>
        pinning'[p] = [pinning[p] EXCEPT !.step = "restore", !.refreshes = b]
  BY <1>1 DEF UndoRollback, Run
<1> QED BY <1>1, <1>2 DEF Goto, EndCommand, Fail, Restored

\* A step of the only process keeps to the rollback's way, or ends it well.
LEMMA RollbackStep ==
  ASSUME OnePinner, PinType, \A p \in Pinners : Aimed(p), RollbackInvariant, [PinNext]_pinVars
  PROVE  /\ RollbackInvariant'
         /\ [\A p \in Pinners : EndsWell(p)]_pinVars
<1>0. /\ pinning \in [Pinners -> Run]
      /\ \A p \in Pinners : pinning[p] \in Run
  BY DEF PinType
<1>n. NoCommand.cmd = "none"
  BY DEF NoCommand
<1>1. CASE UNCHANGED pinVars
  BY <1>1 DEF pinVars, files, state, RollbackInvariant
<1>2. CASE MoveChannel \/ EditList
  <2>1. UNCHANGED <<pinning, databases, packages>>
    BY <1>2 DEF MoveChannel, EditList, state
  <2>2. \A p \in Pinners : pinning[p].cmd = "rollback" => list' = list
    BY <1>2, <1>n DEF MoveChannel, EditList, files
  <2>3. RollbackInvariant'
    BY <2>1, <2>2 DEF RollbackInvariant
  <2>4. \A p \in Pinners : EndsWell(p)
    BY <2>1, <1>n DEF EndsWell
  <2> QED BY <2>3, <2>4
<1>3. ASSUME NEW p \in Pinners, PinStep(p) PROVE RollbackInvariant' /\ EndsWell(p)
  <2> PICK r \in Run : r = pinning[p]
    BY <1>0
  <2> PICK n : n = pinning'[p]
    OBVIOUS
  <2>a. /\ Aimed(p)
        /\ r.cmd = "rollback" => OnItsWay(r, list, databases, packages)
    BY DEF RollbackInvariant
  <2>b. ASSUME n.cmd = "rollback" => OnItsWay(n, list', databases', packages')
        PROVE  RollbackInvariant'
    BY <2>b DEF OnePinner, RollbackInvariant
  <2>e. ASSUME n = NoCommand PROVE RollbackInvariant'
    BY <2>e, <2>b, <1>n
  \* Going on.
  <2>g. ASSUME r.cmd = "rollback", n \in Run, n.cmd = "rollback",
               OnItsWay(n, list', databases', packages')
        PROVE  RollbackInvariant' /\ EndsWell(p)
    BY <2>g, <2>b, <1>n DEF EndsWell
  <2>1. CASE Rollback(p)
    <3>1. PICK s \in Numbers : StartCommand(p, "rollback", s, list, "backup")
      BY <2>1 DEF Rollback
    <3>2. /\ n = [cmd |-> "rollback", step |-> "backup", snap |-> s, original |-> list,
                  before |-> databases, refreshes |-> FALSE]
          /\ r = NoCommand /\ UNCHANGED <<list, databases, packages>>
      BY <3>1, <1>0 DEF StartCommand, files, state
    <3>3. OnItsWay(n, list', databases', packages')
      BY <3>2 DEF OnItsWay, RollbackSteps, Steps
    <3> QED BY <3>2, <3>3, <2>b, <1>n DEF EndsWell
  <2>2. CASE Pin(p) \/ Unpin(p) \/ Update(p)
    <3>1. n.cmd \in {"pin", "unpin", "update"} /\ r = NoCommand
      BY <2>2, <1>0 DEF Pin, Unpin, Update, StartCommand
    <3> QED BY <3>1, <2>b, <1>n DEF EndsWell
  <2>3. CASE r.cmd # "rollback" /\ ~(Pin(p) \/ Unpin(p) \/ Update(p) \/ Rollback(p))
    <3>1. n.cmd \in {r.cmd, "none"}
      <4>1. \/ \E step : Goto(p, step)
            \/ EndCommand(p) \/ Fail(p) \/ Restored(p) \/ ReadRelease(p) \/ EngineFails(p)
        BY <1>3, <2>3 DEF PinStep, WriteBackup, WriteList, RestoreList, RemoveBackup,
           EngineReady, RefreshDatabases, RefreshFails, PlanIsMade, PlanIsEmpty, PlanFails,
           ApplyPlan, ApplyFails, RecordSnapshot, RecordFails, KillCommand
      <4>2. ~EngineFails(p)
        BY <2>3, <2>a DEF EngineFails, Aimed
      <4> QED BY <4>1, <4>2, <2>3, <1>0, <1>n
              DEF Goto, EndCommand, Fail, Restored, ReadRelease, Run
    <3> QED BY <3>1, <2>3, <2>b DEF EndsWell
  <2> SUFFICES ASSUME r.cmd = "rollback" PROVE RollbackInvariant' /\ EndsWell(p)
    BY <2>1, <2>2, <2>3
  <2> HIDE DEF OnItsWay
  <2>w. OnItsWay(r, list, databases, packages)
    BY <2>a
  \* What is left of r, with its step changed.
  <2>s. ASSUME NEW step \in RollbackSteps, Goto(p, step),
               OnItsWay([r EXCEPT !.step = step], list', databases', packages')
        PROVE  RollbackInvariant' /\ EndsWell(p)
    <3>1. n = [r EXCEPT !.step = step]
      BY <2>s, NextOf
    <3>2. n \in Run /\ n.cmd = "rollback"
      BY <3>1 DEF Run, RollbackSteps
    <3> QED BY <2>s, <3>1, <3>2, <2>g
  <2>k. RollbackSteps = {"backup", "list", "engine", "refresh", "plan", "apply", "record",
                         "restore", "unbackup", "again"}
    BY DEF RollbackSteps, Steps
  <2>4. CASE WriteBackup(p)
    <3>1. OnItsWay([r EXCEPT !.step = "list"], list', databases', packages')
      BY <2>4, <2>w, <2>k DEF WriteBackup, OnItsWay, state, Run
    <3> QED BY <3>1, <2>4, <2>s, <2>k DEF WriteBackup
  <2>5. CASE WriteList(p)
    <3>1. OnItsWay([r EXCEPT !.step = "engine"], list', databases', packages')
      BY <2>5, <2>w, <2>k DEF WriteList, OnItsWay, state, Run
    <3> QED BY <3>1, <2>5, <2>s, <2>k DEF WriteList
  \* The list is back.
  <2>r. ASSUME r.step \in {"restore", "unbackup"}, list' = r.original, databases' = databases,
               packages' = packages, Restored(p)
        PROVE  RollbackInvariant' /\ EndsWell(p)
    <3>1. CASE r.refreshes
      <4>1. OnItsWay([r EXCEPT !.step = "again"], list', databases', packages')
        BY <2>r, <3>1, <2>w, <2>k DEF OnItsWay, Run
      <4> QED BY <2>r, <3>1, <4>1, <2>s, <2>k DEF Restored
    <3>2. CASE ~r.refreshes
      <4>1. n = NoCommand
        BY <2>r, <3>2, NextOf
      <4>2. databases' = r.before
        BY <2>r, <3>2, <2>w DEF OnItsWay
      <4> QED BY <2>r, <4>1, <4>2, <2>e DEF EndsWell
    <3> QED BY <3>1, <3>2
  <2>6. CASE RestoreList(p)
    <3>1. r.step = "restore" /\ list' = r.original /\ UNCHANGED <<databases, packages>>
      BY <2>6 DEF RestoreList, state
    <3>2. CASE Pinned(r.original)
      BY <2>6, <3>1, <3>2, <2>r DEF RestoreList
    <3>3. CASE ~Pinned(r.original)
      <4>1. OnItsWay([r EXCEPT !.step = "unbackup"], list', databases', packages')
        BY <3>1, <2>w, <2>k DEF OnItsWay, Run
      <4> QED BY <2>6, <3>3, <4>1, <2>s, <2>k DEF RestoreList
    <3> QED BY <3>2, <3>3
  <2>7. CASE RemoveBackup(p)
    <3>1. /\ r.step = "unbackup" /\ list' = r.original /\ UNCHANGED <<databases, packages>>
          /\ Restored(p)
      BY <2>7, <2>w DEF RemoveBackup, OnItsWay, state
    <3> QED BY <3>1, <2>r
  <2>8. CASE EngineReady(p)
    <3>1. OnItsWay([r EXCEPT !.step = "refresh"], list', databases', packages')
      BY <2>8, <2>w, <2>k DEF EngineReady, OnItsWay, files, state, Run
    <3> QED BY <3>1, <2>8, <2>s, <2>k DEF EngineReady
  \* Taking the list back.
  <2>u. ASSUME NEW b \in BOOLEAN, n = [r EXCEPT !.step = "restore", !.refreshes = b],
               ~b => databases' = r.before
        PROVE  RollbackInvariant' /\ EndsWell(p)
    <3>1. n \in Run /\ n.cmd = "rollback" /\ n.snap = r.snap /\ n.step = "restore"
          /\ n.refreshes = b /\ n.before = r.before
      BY <2>u DEF Run, Steps
    <3>2. OnItsWay(n, list', databases', packages')
      BY <2>u, <3>1, <2>w, <2>k DEF OnItsWay
    <3> QED BY <3>1, <3>2, <2>g
  <2>9. CASE EngineFails(p)
    <3>1. n = [r EXCEPT !.step = "restore", !.refreshes = FALSE] /\ databases' = databases
      BY <2>9, NextOf DEF EngineFails, state
    <3>2. databases = r.before
      BY <2>9, <2>w DEF EngineFails, OnItsWay
    <3> QED BY <3>1, <3>2, <2>u
  <2>f. ASSUME Fail(p) PROVE RollbackInvariant' /\ EndsWell(p)
    <3>1. n = [r EXCEPT !.step = "restore", !.refreshes = TRUE]
      BY <2>f, NextOf
    <3> QED BY <3>1, <2>u
  <2>10. CASE RefreshDatabases(p)
    <3>1. databases' = {Serves(list)} /\ list' = list /\ packages' = packages
          /\ channel' = channel
      BY <2>10 DEF RefreshDatabases, Refreshed, Forced, files
    <3>2. CASE r.step = "again"
      <4>1. n = NoCommand
        BY <2>10, <3>2, NextOf DEF RefreshDatabases
      <4>2. list' = r.original /\ databases' = {Serves(list')}
        BY <3>1, <3>2, <2>w DEF OnItsWay, Serves
      <4> QED BY <4>1, <4>2, <2>e DEF EndsWell
    <3>3. CASE r.step = "refresh"
      <4>1. list = r.snap /\ Serves(list) = r.snap
        BY <3>3, <2>w DEF OnItsWay, Serves, Pinned
      <4>2. OnItsWay([r EXCEPT !.step = "plan"], list', databases', packages')
        BY <3>1, <4>1, <2>w, <2>k DEF OnItsWay, Run
      <4> QED BY <2>10, <3>3, <4>2, <2>s, <2>k DEF RefreshDatabases
    <3> QED BY <2>10, <3>2, <3>3 DEF RefreshDatabases
  <2>m. ASSUME mishaps' = mishaps + 1, EndCommand(p) PROVE RollbackInvariant' /\ EndsWell(p)
    <3>1. mishaps' # mishaps
      BY <2>m, MirrorBounds DEF PinType
    <3> QED BY <2>m, <3>1, <2>e, NextOf DEF EndsWell
  <2>11. CASE RefreshFails(p)
    BY <2>11, <2>f, <2>m DEF RefreshFails
  <2>12. CASE ReadRelease(p)
    BY <2>12, <2>w, <2>k DEF ReadRelease, OnItsWay
  <2>13. CASE PlanIsMade(p)
    <3>1. OnItsWay([r EXCEPT !.step = "apply"], list', databases', packages')
      BY <2>13, <2>w, <2>k DEF PlanIsMade, OnItsWay, files, state, Run
    <3> QED BY <3>1, <2>13, <2>s, <2>k DEF PlanIsMade
  <2>14. CASE PlanIsEmpty(p)
    <3>1. packages = {r.snap}
      BY <2>14, <2>w, DowngradesToSnapshot DEF PlanIsEmpty, OnItsWay
    <3>2. OnItsWay([r EXCEPT !.step = "record"], list', databases', packages')
      BY <2>14, <3>1, <2>w, <2>k DEF PlanIsEmpty, OnItsWay, files, state, Run
    <3> QED BY <3>2, <2>14, <2>s, <2>k DEF PlanIsEmpty
  <2>15. CASE PlanFails(p) \/ ApplyFails(p)
    BY <2>15, <2>f DEF PlanFails, ApplyFails
  <2>16. CASE ApplyPlan(p)
    <3>1. packages' = {r.snap}
      BY <2>16, <2>w, DowngradesToSnapshot DEF ApplyPlan, OnItsWay
    <3>2. OnItsWay([r EXCEPT !.step = "record"], list', databases', packages')
      BY <2>16, <3>1, <2>w, <2>k DEF ApplyPlan, OnItsWay, files, Run
    <3> QED BY <3>2, <2>16, <2>s, <2>k DEF ApplyPlan
  <2>17. CASE RecordSnapshot(p) \/ RecordFails(p)
    <3>1. r.step = "record" /\ UNCHANGED <<list, databases, packages>> /\ EndCommand(p)
      BY <2>17 DEF RecordSnapshot, RecordFails, files, state
    <3>2. list' = r.snap /\ databases' = {r.snap} /\ packages' = {r.snap}
      BY <3>1, <2>w DEF OnItsWay
    <3> QED BY <3>1, <3>2, <2>e, NextOf DEF EndsWell
  <2>18. CASE KillCommand(p)
    BY <2>18, <2>m DEF KillCommand
  <2> QED
    BY <1>3, <2>1, <2>2, <2>4, <2>5, <2>6, <2>7, <2>8, <2>9, <2>10, <2>11, <2>12, <2>13,
       <2>14, <2>15, <2>16, <2>17, <2>18 DEF PinStep
<1>4. ASSUME NEW p \in Pinners, PinStep(p)
      PROVE  RollbackInvariant' /\ \A q \in Pinners : EndsWell(q)
  BY <1>3, <1>4 DEF OnePinner
<1> QED BY <1>1, <1>2, <1>4 DEF PinNext

\* A rollback that ends by itself has done all of it or put everything back,
\* whatever step fails, for any snapshots and lists, as long as commands do not
\* overlap (cli/channel.rs).
THEOREM RollbacksAreWhole ==
  ASSUME OnePinner PROVE PinSpec => RollbackIsAllOrNothing
<1> DEFINE inv == PinType /\ (\A p \in Pinners : Aimed(p)) /\ RollbackInvariant
<1>1. PinInit => inv
  <2>1. PinInit => RollbackInvariant
    BY DEF PinInit, NoCommand, RollbackInvariant
  <2> QED BY <2>1, InitType
<1>2. inv /\ [PinNext]_pinVars => inv'
  BY PinTypeStep, AimStep, RollbackStep
<1>3. inv /\ [PinNext]_pinVars => [\A p \in Pinners : EndsWell(p)]_pinVars
  BY RollbackStep
<1>4. [\A p \in Pinners : EndsWell(p)]_pinVars =>
      [ \A p \in Pinners :
        ( pinning[p].cmd = "rollback" /\ pinning'[p] = NoCommand /\ mishaps' = mishaps )
        => \/ /\ list' = pinning[p].snap
              /\ databases' = {pinning[p].snap} /\ packages' = {pinning[p].snap}
           \/ /\ list' = pinning[p].original
              /\ databases' \in {{Serves(list')}, pinning[p].before} ]_pinVars
  BY DEF EndsWell
<1> QED BY <1>1, <1>2, <1>3, <1>4, PTL DEF PinSpec, RollbackIsAllOrNothing

-----------------------------------------------------------------------------
(* Host.                                                                   *)

\* A behaviour of a host is one of its ledger and one of its mirrorlist: what
\* is proved of either holds of the host.
THEOREM BothAreKept == HostSpec => Spec /\ PinSpec /\ StoreSpec
<1>1. HostInit => Init /\ PinInit /\ StoreInit
  BY DEF HostInit
<1>2. [HostNext]_hostVars => [Next]_vars /\ [PinNext]_pinVars /\ [StoreNext]_storeVars
  BY DEF HostNext, hostVars, KeepsLedger, KeepsMirrorlist, KeepsTrain
<1> QED BY <1>1, <1>2, PTL DEF HostSpec, Spec, PinSpec, StoreSpec

\* A host that runs one command at a time keeps account of its packages and
\* the user's mirrorlist.
THEOREM HostIsSafe ==
  ASSUME OneProcess, Serial
  PROVE  HostSpec => /\ [](TypeOK /\ DifferencesAreJournaled /\ UserListIsKept)
                     /\ SequencesNeverGoBack /\ ExplicitIsKept /\ RollbackIsAllOrNothing
<1>1. OnePinner
  BY DEF Serial, OnePinner
<1> QED BY <1>1, BothAreKept, TypeCorrect, NoChangeIsLost, SequencesKept, ExplicitKept,
           UserListKept, RollbacksAreWhole, PTL
=============================================================================
