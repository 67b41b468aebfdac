-------------------------------- MODULE Version --------------------------------
(***************************************************************************)
(* pacman's version comparison as pacvamp ports it, and what a dependency  *)
(* makes of it.  A version part is a sequence of segments, each a run of   *)
(* separators and then one of digits or of letters; letters that sort      *)
(* alike are one value, and digits are the number they write.              *)
(***************************************************************************)
EXTENDS Integers, Sequences, SequencesExt

CONSTANTS
    MaxSegments,   \* segments of a version part
    MaxSeparator,  \* separators before a segment
    MaxValue       \* values of a segment

ASSUME VersionAssumption == MaxSegments \in Nat /\ MaxSeparator \in Nat /\ MaxValue \in Nat

VARIABLE compared     \* two versions somebody compares

Segment == [sep : 0..MaxSeparator, numeric : BOOLEAN, value : 1..MaxValue]

(* Between digits and digits, or letters and letters, is a separator.      *)
Parts == {p \in BoundedSeq(Segment, MaxSegments) : \A i \in 2..Len(p) :
              p[i].sep = 0 => p[i].numeric # p[i - 1].numeric}

NoRelease == 0   \* no release: pkgver alone

(* Epoch and release are versions like the part between, of one number.    *)
Evr == [epoch : 0..1, version : Parts, release : {NoRelease, 1, 2}]

VersionType == compared \in [1..2 -> Evr]

(* Epochs and releases differ where the part between is short.             *)
Plain(a) == a.epoch = 0 /\ a.release = 1
Short(a) == Len(a.version) <= 1

VersionInit == compared \in [1..2 -> {a \in Evr : Plain(a)}] \cup [1..2 -> {a \in Evr : Short(a)}]

-----------------------------------------------------------------------------
(* -1, 0 and 1 are Ordering's Less, Equal and Greater.                     *)

Cmp(m, n) == IF m < n THEN -1 ELSE IF m > n THEN 1 ELSE 0

CompareSegmentsAlone(s, t) ==
    IF s.numeric # t.numeric THEN IF s.numeric THEN 1 ELSE -1
    ELSE Cmp(s.value, t.value)

(* Separator runs of different lengths decide, then the kind of segment.   *)
CompareSegments(s, t) ==
    IF s.sep # t.sep THEN Cmp(s.sep, t.sep)
    ELSE IF s.numeric # t.numeric THEN IF s.numeric THEN 1 ELSE -1
    ELSE Cmp(s.value, t.value)

Letters(p, i) == i <= Len(p) /\ p[i].sep = 0 /\ ~p[i].numeric

(* A remaining run of letters never beats an empty rest.                   *)
Showdown(p, q, i) ==
    IF Len(p) < i /\ Len(q) < i THEN 0
    ELSE IF (Len(p) < i /\ ~Letters(q, i)) \/ Letters(p, i) THEN -1 ELSE 1

(* The loop over the segments ends where they differ, or one side has none. *)
SettledAt(p, q, i) == i > Len(p) \/ i > Len(q) \/ CompareSegments(p[i], q[i]) # 0
Settled(p, q) == CHOOSE i \in 1..MaxSegments + 1 :
                     SettledAt(p, q, i) /\ \A j \in 1..i - 1 : ~SettledAt(p, q, j)

Rpmvercmp(p, q) ==
    LET i == Settled(p, q)
    IN  IF i > Len(p) \/ i > Len(q) THEN Showdown(p, q, i)
        ELSE CompareSegments(p[i], q[i])

Vercmp(a, b) ==
    IF a.epoch # b.epoch THEN Cmp(a.epoch, b.epoch)
    ELSE IF Rpmvercmp(a.version, b.version) # 0 THEN Rpmvercmp(a.version, b.version)
    ELSE IF a.release # NoRelease /\ b.release # NoRelease THEN Cmp(a.release, b.release)
    ELSE 0

(* What a dependency on a version asks of the one there is.                *)
Holds(op, have, wanted) ==
    LET ordering == Vercmp(have, wanted)
    IN  CASE op = "=" -> ordering = 0
          [] op = ">=" -> ordering # -1
          [] op = "<=" -> ordering # 1
          [] op = ">" -> ordering = 1
          [] op = "<" -> ordering = -1

-----------------------------------------------------------------------------
(* The reference: versions are words that end with a token of its own, and *)
(* compare like words.  The end comes after letters that follow at once,   *)
(* and before everything else.                                             *)

WordEnd == <<0, 1, 0>>
Token(s) == <<s.sep, IF s.sep = 0 /\ ~s.numeric THEN 0 ELSE IF s.numeric THEN 3 ELSE 2, s.value>>
Word(p) == Append([i \in 1..Len(p) |-> Token(p[i])], WordEnd)

Before(v, w) == \E i \in 1..Len(v) :
    /\ i <= Len(w)
    /\ \A j \in 1..(i - 1) : v[j] = w[j]
    /\ \E k \in 1..3 : v[i][k] < w[i][k] /\ \A l \in 1..(k - 1) : v[i][l] = w[i][l]

(* Version parts are ordered like words, so the comparison is one total    *)
(* order whichever side a version is on; of two versions a dependency that *)
(* excludes one admits the other (alpm-db vercmp.rs, dep.rs).              *)
VersionsAreOrdered ==
    LET a == compared[1]  b == compared[2]
        v == Word(a.version)  w == Word(b.version)
    IN  /\ Rpmvercmp(a.version, b.version) =
               IF Before(v, w) THEN -1 ELSE IF Before(w, v) THEN 1 ELSE 0
        /\ Vercmp(a, b) = -Vercmp(b, a)
        /\ Holds("<", a, b) = ~Holds("<=", b, a)
        /\ Holds(">=", a, b) = (Holds("=", a, b) \/ Holds(">", a, b))
=============================================================================
