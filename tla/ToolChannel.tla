----------------------------- MODULE ToolChannel -----------------------------
(***************************************************************************)
(* The tool channel of a repository: releases of a vendor that the         *)
(* operator vetted, mirrored with their evidence, and offered to mise by a *)
(* signed index.  Every change holds one lock from the load of the index   *)
(* to its signed write, which renames the index and then its signature.  A  *)
(* publication may die with its files mirrored and the index unwritten, a  *)
(* change with the index of its time and the signature of the one before.  *)
(*                                                                         *)
(* Code: crates/pacvamp-repo/src/tool_channel.rs, feed.rs,                 *)
(* crates/pacvamp/src/trust/tools.rs                                       *)
(***************************************************************************)
EXTENDS Upstream

CONSTANTS
    Channels,       \* where a version can be promoted to
    MaxIndex,       \* bound: changes of the index
    MaxBlocks       \* bound: block verdicts

VARIABLES
    tools,      \* the index: what is published of each version
    sequence,   \* its sequence
    mirror,     \* the mirrored artifact of each version: which upload it is
    blocked,    \* the uploads with a block verdict
    publishing, \* the publication under way
    torn        \* while the signature is of the index before: that index

channel == <<tools, sequence, mirror, blocked, publishing, torn>>

Offers == [level: 0 .. 3, signer: Signers, at: 0 .. MaxTime, vetted: 0 .. MaxTime, upload: 1 .. 2,
           seq: 0 .. MaxLists, channels: SUBSET (Channels \cup {"edge"}), held: BOOLEAN]
Unpublished == [upload |-> 0]

ChannelInit ==
    /\ tools = [v \in Versions |-> Unpublished] /\ sequence = 0
    /\ mirror = [v \in Versions |-> 0] /\ blocked = {}
    /\ publishing = None /\ torn = None

ChannelType ==
    /\ tools \in [Versions -> Offers \cup {Unpublished}] /\ sequence \in 0 .. MaxIndex
    /\ mirror \in [Versions -> 0 .. 2] /\ blocked \subseteq Versions \X (1 .. 2)
    /\ publishing = None \/ publishing.version \in Versions
    /\ torn # None => torn.tools \in [Versions -> Offers \cup {Unpublished}] /\ torn.alive \in BOOLEAN

Published == {v \in Versions: tools[v] # Unpublished}

(* What the signature is of; the index is what is signed unless a command    *)
(* is between its renames or died there, and then nobody accepts the index.  *)
SignedTools == IF torn = None THEN tools ELSE torn.tools
Loads == publishing = None /\ torn = None

(* The order of the index is that of publication, never of the versions. *)
IsLatest(v) ==
    \A w \in Published:
        \/ tools[w].at < tools[v].at
        \/ tools[w].at = tools[v].at /\ tools[w].vetted <= tools[v].vetted

(* What stands in for vendor.lock; the sequence is the highest of any       *)
(* version, since an older release may be published later.                  *)
Previous ==
    IF Published = {} THEN {None}
    ELSE {[version |-> v, level |-> tools[v].level, signer |-> tools[v].signer,
           attestor |-> "vendor", seq |-> Max({tools[w].seq: w \in Published})]:
          v \in {w \in Published: IsLatest(w)}}

Publish(listing, requested, allow) ==
    /\ Loads /\ sequence < MaxIndex
    /\ \E previous \in Previous: \E slip \in Resolved(previous, listing, requested, allow):
          /\ slip.version \notin Published
          /\ <<slip.version, slip.upload>> \notin blocked
          /\ publishing' = [slip |-> slip, version |-> slip.version, upload |-> slip.upload,
                            seq |-> Accepted(slip, previous, listing).seq, mirrored |-> FALSE]
    /\ UNCHANGED <<upstream, tools, sequence, mirror, blocked, torn>>

(* An artifact that is there from an earlier attempt is kept if it is the   *)
(* one the packslip names; what is downloaded has to be.                    *)
MirrorIfAbsent ==
    /\ publishing # None
    /\ publishing' = [publishing EXCEPT !.mirrored = TRUE]
    /\ \/ mirror[publishing.version] # 0 /\ UNCHANGED mirror
       \/ /\ mirror[publishing.version] = 0
          /\ publishing.upload = release[publishing.version].upload
          /\ mirror' = [mirror EXCEPT ![publishing.version] = publishing.upload]
    /\ UNCHANGED <<upstream, tools, sequence, blocked, torn>>

Mirror ==
    /\ publishing # None
    /\ publishing' = [publishing EXCEPT !.mirrored = TRUE]
    /\ publishing.upload \in {mirror[publishing.version], release[publishing.version].upload}
    /\ mirror' = [mirror EXCEPT ![publishing.version] = publishing.upload]
    /\ UNCHANGED <<upstream, tools, sequence, blocked, torn>>

Entry(new) ==
    [level |-> new.slip.level, signer |-> new.slip.signer, at |-> new.slip.at, vetted |-> now,
     upload |-> new.upload, seq |-> new.seq, channels |-> {"edge"}, held |-> FALSE]

RenameIndex(new) ==
    /\ tools' = new /\ sequence' = sequence + 1
    /\ torn' = [tools |-> tools, alive |-> TRUE]

WriteIndex ==
    /\ publishing # None /\ publishing.mirrored
    /\ RenameIndex([tools EXCEPT ![publishing.version] = Entry(publishing)])
    /\ publishing' = None
    /\ UNCHANGED <<upstream, mirror, blocked>>

Change(v, new) ==
    /\ Loads /\ sequence < MaxIndex
    /\ RenameIndex([tools EXCEPT ![v] = new])
    /\ UNCHANGED <<upstream, mirror, blocked, publishing>>

WriteSignature ==
    /\ torn # None /\ torn.alive /\ torn' = None
    /\ UNCHANGED <<upstream, tools, sequence, mirror, blocked, publishing>>

(* The index before is put back when the signature cannot be renamed. *)
SignatureFails ==
    /\ torn # None /\ torn.alive /\ torn' = None
    /\ tools' = torn.tools /\ sequence' = sequence - 1
    /\ UNCHANGED <<upstream, mirror, blocked, publishing>>

PublisherDies ==
    /\ \/ publishing # None /\ publishing' = None /\ UNCHANGED torn
       \/ torn # None /\ torn.alive /\ torn' = [torn EXCEPT !.alive = FALSE]
          /\ UNCHANGED publishing
    /\ UNCHANGED <<upstream, tools, sequence, mirror, blocked>>

PromoteTool(v, to) ==
    /\ v \in Published /\ ~tools[v].held
    /\ Change(v, [tools[v] EXCEPT !.channels = @ \cup {to}])

HoldTool(v) == v \in Published /\ Change(v, [tools[v] EXCEPT !.held = TRUE])

UnholdTool(v) == v \in Published /\ Change(v, [tools[v] EXCEPT !.held = FALSE])

(* The verdicts have no lock: one may come in the middle of a publication. *)
Block(v, upload) ==
    /\ Cardinality(blocked) < MaxBlocks
    /\ blocked' = blocked \cup {<<v, upload>>}
    /\ UNCHANGED <<upstream, tools, sequence, mirror, publishing, torn>>

ChannelNext ==
    \/ \E listing \in Listings, requested \in Versions \cup {0}, allow \in BOOLEAN:
          Publish(listing, requested, allow)
    \/ Mirror \/ WriteIndex \/ WriteSignature \/ SignatureFails \/ PublisherDies
    \/ \E v \in Versions, to \in Channels: PromoteTool(v, to)
    \/ \E v \in Versions: HoldTool(v) \/ UnholdTool(v)
    \/ \E v \in Versions, upload \in 1 .. 2: Block(v, upload)
-----------------------------------------------------------------------------
(* What is published stays: whatever the vendor uploads again or yanks,     *)
(* whatever attempt died before, and whichever of its renames a change does  *)
(* not come to, the mirror has the artifact the signed index names, and the *)
(* name never changes.                                                      *)
PublishedIsImmutable ==
    [][\A v \in Versions:
          SignedTools[v] # Unpublished =>
             /\ SignedTools'[v].upload = SignedTools[v].upload
             /\ mirror'[v] = SignedTools[v].upload]_channel
=============================================================================
