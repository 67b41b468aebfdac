--------------------------------- MODULE Host ----------------------------------
(***************************************************************************)
(* What survives kills and failures: on a host the ledger with its journal, *)
(* and the mirrorlist with its backup; in a repository the store of the    *)
(* release train, which hosts follow.  They share no file, and no command   *)
(* changes two of them at once: one behaviour follows one of them, and the  *)
(* others stay in an initial state.                                        *)
(***************************************************************************)
EXTENDS Journal, MirrorPin, SnapshotStore

VARIABLE kept

hostVars == <<kept, vars, pinVars, storeVars>>

HostInit ==
    /\ kept \in {"ledger", "mirrorlist", "train"}
    /\ Init
    /\ PinInit
    /\ StoreInit
    /\ kept = "ledger" \/ host = [x \in Pkgs |-> Absent]
    /\ kept = "mirrorlist"
       \/ (mine = (CHOOSE l \in UserLists : TRUE) /\ channel = 1 /\ databases = {1})

KeepsLedger == kept = "ledger" /\ Next /\ UNCHANGED <<kept, pinVars, storeVars>>
KeepsMirrorlist == kept = "mirrorlist" /\ PinNext /\ UNCHANGED <<kept, vars, storeVars>>
KeepsTrain == kept = "train" /\ StoreNext /\ UNCHANGED <<kept, vars, pinVars>>

HostNext == KeepsLedger \/ KeepsMirrorlist \/ KeepsTrain

HostSpec == HostInit /\ [][HostNext]_hostVars
=============================================================================
