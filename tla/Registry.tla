------------------------------- MODULE Registry -------------------------------
(***************************************************************************)
(* The services of a repository that decide what gets into it, each with   *)
(* its own files and none knowing of the others: packages made from a      *)
(* vendor's releases, the tool channel, the gate of the AUR mirror, and the *)
(* evidence behind a package's signature.  One behaviour follows one of    *)
(* them.                                                                   *)
(***************************************************************************)
EXTENDS VendorPackage, ToolChannel, SyncGate, Signing

VARIABLE service

vars == <<service, upstream, package, channel, gate, signVars>>

Init ==
    /\ service \in {"vendor", "tools", "gate", "signing"}
    /\ UpstreamInit /\ PackageInit /\ ChannelInit /\ GateInit /\ SigningInit
    /\ service \in {"gate", "signing"} => signed
    /\ service # "signing" => log = <<>>

TypeOK == UpstreamType /\ PackageType /\ ChannelType /\ GateType

Next ==
    \/ /\ service = "vendor" /\ UNCHANGED <<service, channel, gate, signVars>>
       /\ PackageNext \/ (VendorActs /\ UNCHANGED package)
    \/ /\ service = "tools" /\ UNCHANGED <<service, package, gate, signVars>>
       /\ ChannelNext \/ (VendorActs /\ UNCHANGED channel)
    \/ /\ service = "gate" /\ UNCHANGED <<service, upstream, package, channel, signVars>>
       /\ GateNext
    \/ /\ service = "signing" /\ UNCHANGED <<service, upstream, package, channel, gate>>
       /\ SigningNext

Spec == Init /\ [][Next]_vars
=============================================================================
