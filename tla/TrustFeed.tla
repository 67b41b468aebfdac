------------------------------ MODULE TrustFeed ------------------------------
(***************************************************************************)
(* One signed document of a repository and the clients that read it: the   *)
(* package index, the index of the tool channel, or an advisory feed.  The *)
(* publisher renames document and signature one after the other; a mirror  *)
(* serves them one after the other, as old as it likes and each from       *)
(* another moment; a client keeps what it verified in a cache that it      *)
(* reads before the network answers and writes afterwards, without a lock. *)
(* What stops a rollback is the marker: the ledger's index sequence, or    *)
(* the tool channel's index.sequence file.                                 *)
(***************************************************************************)
EXTENDS Naturals, Sequences, SequencesExt

CONSTANTS
    Clients,    \* processes that read the document
    MaxDocs,    \* how many documents the publisher signs
    Other       \* what a mirror of another repository serves

VARIABLES
    origin,     \* the publisher's directory
    cache,      \* the cached pair, a document number
    marker,     \* the highest sequence recorded
    client      \* the requests under way

feedVars == <<origin, cache, marker, client>>

Kinds == {"index", "tools", "advisories"}
Docs == 0..MaxDocs     \* 0 stands for no document

(* Documents are numbered as they are signed; an attempt that failed has   *)
(* the sequence of the one that follows it.                                *)
Sequence(d) == IF d = 0 THEN 0 ELSE origin.made[d]
Whole == origin.doc = origin.sig /\ origin.doc # 0

FeedType ==
    /\ origin \in [kind : Kinds, made : BoundedSeq(1..MaxDocs, MaxDocs), doc : Docs,
                   sig : Docs, before : Docs, writing : BOOLEAN, steady : BOOLEAN]
    /\ cache \in Docs
    /\ marker \in 0..MaxDocs
    /\ client.reader \in [Clients ->
           [phase : {"idle", "document", "signature", "keep", "record", "advance", "use"},
            seen : 0..MaxDocs, cached : Docs, doc : Docs \cup {Other},
            floor : 0..MaxDocs]]
    /\ client.settled \in 0..MaxDocs
    /\ client.overlapped \in BOOLEAN

FeedInit ==
    /\ origin \in {[kind |-> k, made |-> <<>>, doc |-> 0, sig |-> 0, before |-> 0,
                    writing |-> FALSE, steady |-> FALSE] : k \in Kinds}
    /\ cache = 0
    /\ marker = 0
    /\ client = [reader |-> [c \in Clients |-> [phase |-> "idle", seen |-> 0, cached |-> 0,
                                                doc |-> 0, floor |-> 0]],
                 settled |-> 0, overlapped |-> FALSE]

-----------------------------------------------------------------------------
(* The publisher.  The index publishes its signature first, a feed its     *)
(* document; the second rename may fail, and the first is put back.        *)

FirstRenamed == IF origin.kind = "index" THEN "sig" ELSE "doc"
SecondRenamed == IF origin.kind = "index" THEN "doc" ELSE "sig"

(* What is there must verify before it is extended and signed again.       *)
Extendable == origin.doc = origin.sig \/ (origin.kind = "index" /\ origin.doc = 0)

Publish ==
    /\ ~origin.writing /\ ~origin.steady /\ Len(origin.made) < MaxDocs
    /\ Extendable
    /\ LET made == Append(origin.made, Sequence(origin.doc) + 1)
       IN  origin' = [origin EXCEPT !.made = made, ![FirstRenamed] = Len(made),
                                    !.before = origin[FirstRenamed], !.writing = TRUE]
    /\ UNCHANGED <<cache, marker, client>>

PublishSecond ==
    /\ origin.writing
    /\ origin' = [origin EXCEPT ![SecondRenamed] = Len(origin.made), !.before = 0, !.writing = FALSE]
    /\ UNCHANGED <<cache, marker, client>>

PublishFails ==
    /\ origin.writing
    /\ \E restored \in {origin.before, origin[FirstRenamed]} :   \* putting it back may fail, too
          origin' = [origin EXCEPT ![FirstRenamed] = restored, !.before = 0, !.writing = FALSE]
    /\ UNCHANGED <<cache, marker, client>>

(* From some moment on nothing is published and the mirror is up to date.  *)
Settle ==
    /\ ~origin.steady /\ ~origin.writing /\ Whole
    /\ origin' = [origin EXCEPT !.steady = TRUE]
    /\ UNCHANGED <<cache, marker, client>>

-----------------------------------------------------------------------------
(* The clients.                                                            *)

reader(c) == client.reader[c]
At(c, phase) == reader(c).phase = phase
Move(c, with) == client' = [client EXCEPT !.reader[c] = with]
Proceed(c, phase) == Move(c, [reader(c) EXCEPT !.phase = phase])
(* What a request remembers ends with it.                                  *)
Ended(r) == [r EXCEPT !.phase = "idle", !.seen = 0, !.cached = 0, !.doc = 0, !.floor = 0]
Abandon(c) == Move(c, Ended(reader(c)))

Served(member) ==
    IF origin.steady THEN {origin[member]}
    ELSE 1..origin[member] \cup (IF origin.kind = "index" THEN {Other} ELSE {})

(* The ledger and the cache are read before anything is asked for.         *)
BeginRequest(c) ==
    /\ At(c, "idle")
    /\ LET others == \E other \in Clients \ {c} : ~At(other, "idle")
       IN  client' = [client EXCEPT
               !.reader[c] = [phase |-> "document", cached |-> cache, doc |-> 0,
                              seen |-> IF origin.kind = "index" THEN marker ELSE 0,
                              floor |-> client.settled],
               !.overlapped = @ \/ (origin.kind = "advisories" /\ others)]
    /\ UNCHANGED <<origin, cache, marker>>

FetchDocument(c) ==
    /\ At(c, "document")
    /\ \E d \in Served("doc") : Move(c, [reader(c) EXCEPT !.phase = "signature", !.doc = d])
    /\ UNCHANGED <<origin, cache, marker>>

(* index_with_recording's check against the ledger it read.                *)
Accept(c, d) == Sequence(d) >= reader(c).seen

Verified(c, s) == reader(c).doc = s /\ s # Other
Newer(c, s) == Sequence(s) >= Sequence(reader(c).cached)

FallbackUnchecked(c) ==
    LET r == reader(c)
    IN  IF r.cached # 0 THEN Move(c, [r EXCEPT !.phase = "record", !.doc = r.cached])
        ELSE Abandon(c)

(* The cached copy must be acceptable, too.                                *)
Fallback(c) ==
    LET r == reader(c)
    IN  IF r.cached # 0 /\ Accept(c, r.cached)
        THEN Move(c, [r EXCEPT !.phase = "record", !.doc = r.cached])
        ELSE Abandon(c)

FetchSignature(c) ==
    /\ At(c, "signature")
    /\ \E s \in Served("sig") :
          IF Verified(c, s) /\ Accept(c, s) /\ Newer(c, s) THEN Proceed(c, "keep")
          ELSE IF s = Other /\ reader(c).doc = Other THEN Abandon(c)
          ELSE Fallback(c)
    /\ UNCHANGED <<origin, cache, marker>>

(* Offline, or either request fails.                                       *)
NoNetwork(c) ==
    /\ At(c, "document") \/ At(c, "signature")
    /\ ~origin.steady
    /\ Fallback(c)
    /\ UNCHANGED <<origin, cache, marker>>

(* A pair that cannot be cached is used all the same.                      *)
Keep(c) ==
    /\ At(c, "keep")
    /\ cache' \in {reader(c).doc, cache}
    /\ Proceed(c, "record")
    /\ UNCHANGED <<origin, marker>>

(* The index: recorded unless the command is read-only, and an error only  *)
(* warns.  Ledger.merge keeps the larger sequence.                         *)
RecordIndex(c) ==
    /\ At(c, "record") /\ origin.kind = "index"
    /\ marker' \in {marker} \cup {n \in {Sequence(reader(c).doc)} : n > marker}
    /\ Proceed(c, "use")
    /\ UNCHANGED <<origin, cache>>

RecordNewSequence(c) ==
    /\ At(c, "record") /\ origin.kind = "tools"
    /\ \A other \in Clients : ~At(other, "advance")
    /\ IF Sequence(reader(c).doc) <= marker THEN Abandon(c) ELSE Proceed(c, "advance")
    /\ UNCHANGED <<origin, cache, marker>>

(* The tool channel: the marker is compared and replaced under a lock.     *)
RecordSequence(c) ==
    /\ At(c, "record") /\ origin.kind = "tools"
    /\ \A other \in Clients : ~At(other, "advance")
    /\ IF Sequence(reader(c).doc) < marker THEN Abandon(c) ELSE Proceed(c, "advance")
    /\ UNCHANGED <<origin, cache, marker>>

Advance(c) ==
    /\ At(c, "advance")
    /\ \/ marker' = Sequence(reader(c).doc) /\ Proceed(c, "use")
       \/ ~origin.steady /\ marker' = marker /\ Abandon(c)     \* the marker cannot be written
    /\ UNCHANGED <<origin, cache>>

NoRecord(c) ==
    /\ At(c, "record") /\ origin.kind = "advisories"
    /\ Proceed(c, "use")
    /\ UNCHANGED <<origin, cache, marker>>

(* What is known to this machine from now on.                              *)
Known == IF origin.kind = "advisories" THEN Sequence(cache) ELSE marker

Use(c) ==
    /\ At(c, "use")
    /\ LET n == Sequence(reader(c).doc)
       IN  client' = [client EXCEPT
               !.reader[c] = Ended(@),
               !.settled = IF n \in @..Known THEN n ELSE @]
    /\ UNCHANGED <<origin, cache, marker>>

(* An artifact is fetched by the index in hand: the version is vetted, and *)
(* not held unless the user insists; the bytes are the ones it records;    *)
(* the vendor's packslip and the mirror's provenance are of these bytes.   *)
Vets == [vetted : BOOLEAN, held : BOOLEAN, forced : BOOLEAN]
Evidences == [bytes : BOOLEAN, packslip : BOOLEAN, provenance : BOOLEAN]

FetchArtifact(c) ==
    /\ origin.kind = "tools"
    /\ \E v \in Vets, e \in Evidences :
          IF origin.steady
             \/ (v.vetted /\ (v.held => v.forced) /\ e.bytes /\ e.packslip /\ e.provenance)
          THEN Use(c)
          ELSE At(c, "use") /\ Abandon(c) /\ UNCHANGED <<origin, cache, marker>>

PublisherNext == Publish \/ PublishSecond \/ PublishFails \/ Settle

ClientNext(c) ==
    \/ BeginRequest(c) \/ FetchDocument(c) \/ FetchSignature(c) \/ NoNetwork(c) \/ Keep(c)
    \/ RecordIndex(c) \/ RecordSequence(c) \/ Advance(c) \/ NoRecord(c)
    \/ (origin.kind # "tools" /\ Use(c)) \/ FetchArtifact(c)

FeedNext == PublisherNext \/ \E c \in Clients : ClientNext(c)

-----------------------------------------------------------------------------
(* Whatever a mirror serves and however requests interleave, a request     *)
(* never uses a document older than one this machine knew of when it       *)
(* began (trust/mod.rs fetch_checked with verify.rs's accept, tools.rs     *)
(* record_sequence).  The advisory feeds have only the cache, so for them  *)
(* it is promised until requests overlap.                                  *)
RollbackIsRefused ==
    \A c \in Clients : LET r == reader(c) IN
        ~client.overlapped /\ At(c, "use") => Sequence(r.doc) >= r.floor

(* Once the mirror serves the newest pair for good, every client gets to   *)
(* it, whatever is in the cache and the marker by then.                    *)
NewestIsUsed == \A c \in Clients :
    origin.steady ~> At(c, "use") /\ reader(c).doc = origin.doc
=============================================================================
