-------------------------------- MODULE Clients --------------------------------
(***************************************************************************)
(* What pacvamp decides and does on a host, apart from the ledger, the     *)
(* mirror pin and the builds: it updates, builds what a recipe needs,      *)
(* edits the manifest, reads its settings and pacman.conf, and compares    *)
(* versions.  One behaviour follows one of them, and the others stay in    *)
(* one of their initial states.                                            *)
(***************************************************************************)
EXTENDS Update, AurChain, Manifest, Settings, PacmanConf, Version

VARIABLE service

vars == <<service, updateVars, chainVars, manifestVars, settingsVars, compared,
          confVars>>

Init ==
    /\ service \in {"update", "chain", "manifest", "settings", "conf", "versions"}
    /\ UpdateInit
    /\ service = "update"
       \/ (repo.evidence[1] = 0 /\ ledger.level = 0 /\ ~host.systemLock
           /\ host.held = (CHOOSE h \in HoldChoices : TRUE)
           /\ host.trust = (CHOOSE t \in TrustChoices : TRUE))
    /\ ConfInit
    /\ ManifestInit
    /\ (service = "manifest" \/ <<declared.system, machine.installed>> = <<Nothing, {}>>)
    /\ SettingsInit /\ (service = "settings" \/ settings.limit + settings.weight = 0)
    /\ IF service = "chain" THEN ChainInit
       ELSE /\ recipes = [outputs |-> {Packages}, depends |-> [n \in Packages |-> {}],
                          makedepends |-> [n \in Packages |-> {}]]
            /\ installed = [n \in Packages |-> Absent]
            /\ calls = <<>> /\ outcome = "running"
    /\ IF service = "versions" THEN VersionInit
       ELSE compared = [i \in 1..2 |-> [epoch |-> 0, version |-> <<>>, release |-> NoRelease]]

TypeOK ==
    /\ service = "update" => UpdateType
    /\ service = "chain" => ChainType
    /\ service = "manifest" => ManifestType
    /\ service = "settings" => SettingsType
    /\ service = "conf" => ConfType
    /\ service = "versions" => VersionType

Updates ==
    /\ service = "update" /\ UpdateNext
    /\ UNCHANGED <<service, chainVars, manifestVars, settingsVars, confVars, compared>>

Chain ==
    /\ service = "chain" /\ ChainNext
    /\ UNCHANGED <<service, updateVars, manifestVars, settingsVars, confVars, compared>>

Edits ==
    /\ service = "manifest" /\ ManifestNext
    /\ UNCHANGED <<service, updateVars, chainVars, settingsVars, confVars, compared>>

ReadsSettings ==
    /\ service = "settings" /\ SettingsNext
    /\ UNCHANGED <<service, updateVars, chainVars, manifestVars, confVars, compared>>

ReadsConf ==
    /\ service = "conf" /\ ConfNext
    /\ UNCHANGED <<service, updateVars, chainVars, manifestVars, settingsVars, compared>>

Next == Updates \/ Chain \/ Edits \/ ReadsSettings \/ ReadsConf

Spec == Init /\ [][Next]_vars
=============================================================================
