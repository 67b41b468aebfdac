-------------------------------- MODULE Manifest --------------------------------
(***************************************************************************)
(* The declarations of the packages and the commands that edit them and    *)
(* make the machine match: add, drop and apply.  A layer's declarations    *)
(* are a function of the package; the user's come before the system's.     *)
(* add edits the user's file first and puts the whole file back when it    *)
(* fails before anything was done; drop edits it for good.                 *)
(***************************************************************************)
EXTENDS FiniteSets

CONSTANTS
    Declarable,   \* packages
    Editors       \* processes that run the commands

VARIABLES
    declared,     \* the declarations of the two layers
    machine,      \* what is installed, and the ledger's entries
    command,      \* the command of each process
    owed          \* history: what adds have achieved

manifestVars == <<declared, machine, command, owed>>

State == {"none", "present", "absent"}
Layer == [Declarable -> State]
Nothing == [n \in Declarable |-> "none"]
NoCommand == [phase |-> "idle", kind |-> "none", names |-> {}, todo |-> {}, state |-> "none",
              previous |-> Nothing, installs |-> {}, removes |-> {}, committed |-> FALSE]

ManifestType ==
    /\ declared \in [system : Layer, user : Layer]
    /\ machine \in [installed : SUBSET Declarable, entries : SUBSET Declarable]
    /\ command \in [Editors -> [phase : {"idle", "edit", "transact", "repair", "restore"},
           kind : {"none", "add", "drop", "apply"}, names : SUBSET Declarable,
           todo : SUBSET Declarable, state : State, previous : Layer,
           installs : SUBSET Declarable, removes : SUBSET Declarable, committed : BOOLEAN]]
    /\ owed \in Layer

ManifestInit ==
    /\ declared \in [system : Layer, user : {Nothing}]
    /\ machine \in {[installed |-> s, entries |-> s] : s \in SUBSET Declarable}
    /\ command = [e \in Editors |-> NoCommand]
    /\ owed = Nothing

-----------------------------------------------------------------------------

Continue(e, with) == command' = [command EXCEPT ![e] = with]
EndCommand(e) == Continue(e, NoCommand)

(* The last layer that declares a package says what it is to be.           *)
Effective(n) ==
    IF declared.user[n] # "none" THEN declared.user[n] ELSE declared.system[n]

(* add reads the file before it edits it.                                  *)
BeginCommand(e) ==
    /\ command[e] = NoCommand
    /\ \E kind \in {"add", "drop", "apply"}, names \in SUBSET Declarable \ {{}},
          state \in {"present", "absent"} :
          Continue(e, [NoCommand EXCEPT
              !.phase = "edit", !.kind = kind, !.previous = declared.user,
              !.names = IF kind = "apply" THEN Declarable ELSE names,
              !.todo = IF kind = "apply" THEN {} ELSE names,
              !.state = IF kind = "add" THEN state ELSE "none"])
    /\ UNCHANGED <<declared, machine, owed>>

(* edit::set_package and edit::remove_package, name after name.  What was  *)
(* owed for the name is replaced by what is wanted now.                    *)
Edit(e) ==
    /\ command[e].phase = "edit"
    /\ \E n \in command[e].todo :
          /\ declared' = [declared EXCEPT !.user[n] = command[e].state]
          /\ owed' = [owed EXCEPT ![n] = "none"]
          /\ Continue(e, [command[e] EXCEPT !.todo = @ \ {n}])
    /\ UNCHANGED machine

(* An error: add restores the file, unless it has done something.          *)
Undo(e) == IF command[e].kind = "add" /\ ~command[e].committed
           THEN Continue(e, [command[e] EXCEPT !.phase = "restore"])
           ELSE EndCommand(e)

EditFails(e) ==
    /\ command[e].phase = "edit"
    /\ Undo(e)
    /\ UNCHANGED <<declared, machine, owed>>

(* Diff::compute on the names of the command.  drop only removes, what no  *)
(* other layer declares present.  A package from the AUR is skipped, one   *)
(* that no repository has is an error.                                     *)
Missing(e) == {n \in command[e].names : Effective(n) = "present" /\ n \notin machine.installed}
Surplus(e) == {n \in command[e].names \cap machine.installed :
                  IF command[e].kind = "drop" THEN Effective(n) # "present"
                  ELSE Effective(n) = "absent"}

Compute(e) ==
    /\ command[e].phase = "edit" /\ command[e].todo = {}
    /\ \E aur \in SUBSET Missing(e) :
          Continue(e, [command[e] EXCEPT
              !.phase = "transact", !.removes = Surplus(e),
              !.installs = IF command[e].kind = "drop" THEN {} ELSE Missing(e) \ aur])
    /\ UNCHANGED <<declared, machine, owed>>

(* Installations come first, in a transaction of their own.                *)
Batch(e) == IF command[e].installs # {} THEN command[e].installs ELSE command[e].removes

Rest(e) == IF command[e].installs # {} THEN [command[e] EXCEPT !.installs = {}]
           ELSE [command[e] EXCEPT !.removes = {}, !.phase = "repair"]

Achieved(e) == [machine EXCEPT
    !.installed = IF command[e].installs # {} THEN @ \cup Batch(e) ELSE @ \ Batch(e)]

Owed(e) == IF command[e].kind = "add"
           THEN [n \in Declarable |-> IF n \in Batch(e) THEN command[e].state ELSE owed[n]]
           ELSE owed

(* Declined, refused or failed: pacman may have done part of it.           *)
TransactionFails(e) ==
    /\ command[e].phase = "transact" /\ Batch(e) # {}
    /\ machine' \in {machine, Achieved(e)}
    /\ Undo(e)
    /\ UNCHANGED <<declared, owed>>

(* A dry run goes on without it.                                           *)
DryRun(e) ==
    /\ command[e].phase = "transact" /\ Batch(e) # {}
    /\ Continue(e, Rest(e))
    /\ UNCHANGED <<declared, machine, owed>>

UndoAfterError(e) == Undo(e)

(* An error after pacman was done, MutationCompleted or a ledger that      *)
(* cannot be written, keeps the file.                                      *)
KeepIfCommitted(e) == EndCommand(e)

Transact(e) ==
    /\ command[e].phase = "transact" /\ Batch(e) # {}
    /\ owed' = Owed(e)
    /\ \/ machine' = [Achieved(e) EXCEPT !.entries =
              IF command[e].installs # {} THEN @ \cup Batch(e) ELSE @ \ Batch(e)]
          /\ Continue(e, [Rest(e) EXCEPT !.committed = TRUE])
       \/ machine' = Achieved(e) /\ KeepIfCommitted(e)
    /\ UNCHANGED declared

NothingToDo(e) ==
    /\ command[e].phase = "transact" /\ Batch(e) = {}
    /\ Continue(e, [command[e] EXCEPT !.phase = "repair"])
    /\ UNCHANGED <<declared, machine, owed>>

(* record_noops: entries for what the host that was looked at had, none    *)
(* for what it had not.                                                    *)
Repair(e) ==
    /\ command[e].phase = "repair"
    /\ \/ machine' = [machine EXCEPT !.entries =
              {n \in @ : ~(n \in command[e].names /\ Effective(n) # "present"
                           /\ n \notin machine.installed)}
              \cup {n \in command[e].names \cap machine.installed : Effective(n) = "present"}]
          /\ EndCommand(e)
       \/ machine' = machine /\ EndCommand(e)     \* a dry run
       \/ machine' = machine /\ Undo(e)    \* the ledger cannot be written
    /\ UNCHANGED <<declared, owed>>

Restore(e) ==
    /\ command[e].phase = "restore"
    /\ \/ declared' = [declared EXCEPT !.user = command[e].previous]
       \/ declared' = declared
    /\ EndCommand(e)
    /\ UNCHANGED <<machine, owed>>

Dies(e) ==
    /\ command[e] # NoCommand
    /\ EndCommand(e)
    /\ UNCHANGED <<declared, machine, owed>>

ManifestNext == \E e \in Editors :
    \/ BeginCommand(e) \/ Edit(e) \/ EditFails(e) \/ Compute(e) \/ TransactionFails(e) \/ DryRun(e)
    \/ Transact(e) \/ NothingToDo(e) \/ Repair(e) \/ Restore(e) \/ Dies(e)

-----------------------------------------------------------------------------
(* What an add has done to the machine stays declared until the user       *)
(* declares something else, whatever fails after it or in a later command; *)
(* an add that fails before takes back its own declarations alone          *)
(* (cli/declare.rs Add).                                                   *)
OwedIsDeclared ==
    \A n \in Declarable : owed[n] # "none" => declared.user[n] = owed[n]
=============================================================================
