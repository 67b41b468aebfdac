------------------------------ MODULE PacmanConf ------------------------------
(***************************************************************************)
(* How pacman.conf is read, and how rollback writes one of its own         *)
(* (crates/alpm-db/src/conf.rs, staged_pacman_config of cli/channel.rs).   *)
(*                                                                         *)
(* A level says of packages and of databases whether signatures are        *)
(* checked, whether they may be missing, and whether any key is trusted    *)
(* (the two bits MARGINAL_OK and UNKNOWN_OK, which no token separates).    *)
(* Every level carries the mask of the bits its tokens touched.  A line    *)
(* with several tokens stands for as many lines; directives without a      *)
(* bearing on levels, usage or $arch are left out.                         *)
(***************************************************************************)
EXTENDS Naturals, Sequences, SequencesExt

CONSTANTS
    Repositories,     \* names of repositories
    FileLevels,       \* LocalFileSigLevel and RemoteFileSigLevel
    LevelTokens,      \* the tokens used, out of AllTokens
    MaxLines,         \* bound: lines of all files together
    MaxIncludeDepth   \* how deep files include each other

Subjects == {"package", "database"}
Aspects == {"check", "optional", "trust"}
Bits == Subjects \X Aspects
Values == {"Never", "Optional", "Required", "TrustedOnly", "TrustAll"}
AllTokens == [of : (SUBSET Subjects) \ {{}}, value : Values]
Uses == {"Sync", "Search", "Install", "Upgrade"}
Owners == {"options"} \cup FileLevels \cup Repositories

ASSUME ConfAssumption ==
    /\ LevelTokens \subseteq AllTokens
    /\ FileLevels \subseteq {"LocalFileSigLevel", "RemoteFileSigLevel"}
    /\ Repositories \cap ({"none", "options"} \cup FileLevels) = {}
    /\ MaxLines \in Nat /\ MaxIncludeDepth \in Nat

VARIABLES
    conf,      \* the parser: files being read, and what it has read of them
    spoken     \* history: the last header of each open file, and the last words on each level

confVars == <<conf, spoken>>

DefaultLevel == Subjects \X {"check"}
Unspoken == [o \in Owners |-> [s \in Subjects |-> [check |-> "unsaid", trust |-> "unsaid"]]]

ConfType ==
    /\ conf \in [outcome : {"reading", "failed", "read"}, lines : 0..MaxLines,
                 section : {"none", "options"} \cup Repositories,
                 parents : Seq({"none", "options"} \cup Repositories),
                 declared : SUBSET Repositories, arch : BOOLEAN,
                 needsArch : SUBSET Repositories, usage : [Repositories -> SUBSET Uses],
                 level : [Owners -> SUBSET Bits], mask : [Owners -> SUBSET Bits]]
    /\ Len(spoken.headers) = Len(conf.parents) + 1

ConfInit ==
    /\ conf = [outcome |-> "reading", lines |-> 0, section |-> "none", parents |-> <<>>,
               declared |-> {}, arch |-> FALSE, needsArch |-> {},
               usage |-> [r \in Repositories |-> {}],
               level |-> [o \in Owners |-> DefaultLevel], mask |-> [o \in Owners |-> {}]]
    /\ spoken = [headers |-> <<"none">>, last |-> Unspoken]

-----------------------------------------------------------------------------
(* Levels.                                                                 *)

Sets(v) == CASE v = "Optional" -> {"check", "optional"}
             [] v = "Required" -> {"check"}
             [] v = "TrustAll" -> {"trust"}
             [] OTHER -> {}
Unsets(v) == CASE v = "Never" -> {"check"}
               [] v = "Required" -> {"optional"}
               [] v = "TrustedOnly" -> {"trust"}
               [] OTHER -> {}

(* SigLevel::apply: the tokens left to right.                              *)
WithToken(level, t) == (level \cup (t.of \X Sets(t.value))) \ (t.of \X Unsets(t.value))
Touched(t) == t.of \X (Sets(t.value) \cup Unsets(t.value))

(* SigLevel::merge.                                                        *)
Merged(base, over, mask) == (over \cap mask) \cup (base \ mask)

Check(level, s) == IF <<s, "check">> \notin level THEN "Never"
                   ELSE IF <<s, "optional">> \in level THEN "Optional" ELSE "Required"
Trust(level, s) == IF <<s, "trust">> \in level THEN "TrustAll" ELSE "TrustedOnly"

-----------------------------------------------------------------------------
(* Reading.  `section` is what the parser takes a line to belong to.       *)

Reading == conf.outcome = "reading" /\ conf.lines < MaxLines

(* What a line belongs to as files are written: the last header of its     *)
(* file or, before the first, what the line that includes the file does.   *)
Lexical ==
    LET opened == {i \in DOMAIN spoken.headers : spoken.headers[i] # "none"}
    IN  IF opened = {} THEN "none" ELSE spoken.headers[Max(opened)]

(* Parser::open_section: a repository has one section.                     *)
Header ==
    /\ Reading
    /\ \E s \in {"options"} \cup (Repositories \ conf.declared) :
        /\ conf' = [conf EXCEPT !.lines = @ + 1, !.section = s,
                                !.declared = @ \cup ({s} \ {"options"})]
        /\ spoken' = [spoken EXCEPT !.headers[Len(spoken.headers)] = s]

(* Parser::include: the file is read inside the current section.  A        *)
(* pattern that matches several files stands for as many lines.            *)
Include ==
    /\ Reading /\ Len(conf.parents) < MaxIncludeDepth
    /\ conf' = [conf EXCEPT !.lines = @ + 1, !.parents = Append(@, conf.section)]
    /\ spoken' = [spoken EXCEPT !.headers = Append(@, "none")]

(* The included file's last section stays open.                            *)
SectionLeaks == conf.section

(* What an included file opened is closed with it.                         *)
SectionAfter == Last(conf.parents)

IncludeEnds ==
    /\ conf.outcome = "reading" /\ conf.parents # <<>>
    /\ conf' = [conf EXCEPT !.section = SectionAfter, !.parents = Front(@)]
    /\ spoken' = [spoken EXCEPT !.headers = Front(@)]

(* The level a key sets.                                                   *)
LevelOf(key, section) == IF key = "SigLevel" THEN section ELSE key

(* What a value says about the checks and about the keys trusted.          *)
Spoken(said, v) ==
    IF v \in {"TrustedOnly", "TrustAll"} THEN [said EXCEPT !.trust = v] ELSE [said EXCEPT !.check = v]

LevelLine ==
    /\ Reading /\ conf.section # "none"
    /\ \E t \in LevelTokens,
          key \in {"SigLevel"} \cup (IF conf.section = "options" THEN FileLevels ELSE {}) :
        LET o == LevelOf(key, conf.section)
            said == LevelOf(key, Lexical)
        IN  /\ conf' = [conf EXCEPT !.lines = @ + 1, !.level[o] = WithToken(@, t),
                                    !.mask[o] = @ \cup Touched(t)]
            /\ spoken' = [spoken EXCEPT !.last[said] =
                              [s \in Subjects |-> IF s \in t.of THEN Spoken(@[s], t.value) ELSE @[s]]]

UsageLine ==
    /\ Reading /\ conf.section \in Repositories
    /\ \E u \in {{w} : w \in Uses} \cup {Uses} :
        conf' = [conf EXCEPT !.lines = @ + 1, !.usage[conf.section] = @ \cup u]
    /\ UNCHANGED spoken

(* A Server with $arch, and the Architecture it needs.                     *)
ServerLine ==
    /\ Reading /\ conf.section \in Repositories
    /\ conf' = [conf EXCEPT !.lines = @ + 1, !.needsArch = @ \cup {conf.section}]
    /\ UNCHANGED spoken

ArchitectureLine ==
    /\ Reading /\ conf.section = "options"
    /\ conf' = [conf EXCEPT !.lines = @ + 1, !.arch = TRUE]
    /\ UNCHANGED spoken

(* A file that cannot be read, a section opened twice, a directive outside *)
(* of sections, a value nobody knows, or includes that are too deep.       *)
RejectFile ==
    /\ Reading
    /\ conf' = [conf EXCEPT !.outcome = "failed"]
    /\ UNCHANGED spoken

(* Parser::finish.                                                         *)
Finish ==
    /\ conf.outcome = "reading" /\ conf.parents = <<>>
    /\ conf' = [conf EXCEPT !.outcome = IF conf.needsArch # {} /\ ~conf.arch THEN "failed" ELSE "read"]
    /\ UNCHANGED spoken

ConfNext ==
    \/ Header \/ Include \/ IncludeEnds \/ LevelLine \/ UsageLine \/ ServerLine
    \/ ArchitectureLine \/ RejectFile \/ Finish

EffectiveLevel(o) ==
    IF o = "options" THEN conf.level[o]
    ELSE Merged(conf.level["options"], conf.level[o], conf.mask[o])

Used(uses) == IF uses = {} THEN Uses ELSE uses
-----------------------------------------------------------------------------
(* The configuration rollback plans with: the global level and the         *)
(* effective level of every repository, printed and read again.            *)

(* SigLevel::tokens without the databases' own check.                      *)
PackageTokens(level) == <<[of |-> Subjects, value |-> Check(level, "package")]>>

(* SigLevel::tokens.                                                       *)
Tokens(level) ==
    LET checks == [s \in Subjects |-> Check(level, s)]
        trusts == [s \in Subjects |-> Trust(level, s)]
        Database(v) == <<[of |-> {"database"}, value |-> v]>>
        Both(v) == <<[of |-> Subjects, value |-> v]>>
        Unless(same, tokens) == IF same THEN <<>> ELSE tokens
    IN  Both(checks["package"])
        \o Unless(checks["database"] = checks["package"], Database(checks["database"]))
        \o Unless(trusts["package"] = "TrustedOnly", Both("TrustAll"))
        \o Unless(trusts["database"] = trusts["package"], Database(trusts["database"]))

Reread(tokens) == FoldLeft(WithToken, DefaultLevel, tokens)
RereadMask(tokens) == UNION {Touched(tokens[i]) : i \in 1..Len(tokens)}

StagedOptions == Reread(Tokens(EffectiveLevel("options")))

Staged(o) ==
    IF o = "options" THEN StagedOptions
    ELSE LET tokens == Tokens(EffectiveLevel(o))
         IN  Merged(StagedOptions, Reread(tokens), RereadMask(tokens))

(* All four uses are not printed.                                          *)
StagedUse(r) == Used(IF Used(conf.usage[r]) = Uses THEN {} ELSE Used(conf.usage[r]))

-----------------------------------------------------------------------------
(* Properties.                                                             *)

Configured == {"options"} \cup conf.declared

(* The last word on a subject: of the level's own lines or, when they do   *)
(* not mention it, of the global ones, or the default.                     *)
LastWord(o, s, aspect, default) ==
    LET own == spoken.last[o][s][aspect]
        global == spoken.last["options"][s][aspect]
    IN  IF own # "unsaid" THEN own ELSE IF global # "unsaid" THEN global ELSE default

\* Whatever order sections and lines come in, and whichever files include
\* which, each level is what the last line about it says, per subject and
\* aspect: what a repository leaves out is the global level's, also when that
\* is set later, and a line belongs to the section it is written in.
LevelsAreLastWords ==
    conf.outcome = "read" =>
        \A o \in Configured \cup FileLevels, s \in Subjects :
            /\ Check(EffectiveLevel(o), s) = LastWord(o, s, "check", "Required")
            /\ Trust(EffectiveLevel(o), s) = LastWord(o, s, "trust", "TrustedOnly")

\* The configuration rollback stages checks signatures of the same things as
\* the host's: printing a level and reading it again, merged over the global
\* one, leaves what is checked as it was, for every repository.
StagingChecksTheSame ==
    conf.outcome = "read" =>
        /\ \A o \in Configured, s \in Subjects : Check(Staged(o), s) = Check(EffectiveLevel(o), s)
        /\ \A r \in conf.declared : StagedUse(r) = Used(conf.usage[r])

=============================================================================
