------------------------------- MODULE Progress -------------------------------
(***************************************************************************)
(* What pacvamp promises to bring to an end, and under which fairness: a   *)
(* phase of a build under its supervisor, and a request for a signed       *)
(* document.  A behaviour follows one of the two; they share nothing.      *)
(***************************************************************************)
EXTENDS BuildProcess, TrustFeed

VARIABLE awaited

progressVars == <<awaited, vars, feedVars>>

ProgressInit ==
    /\ awaited \in {"phase", "document"}
    /\ Init /\ (awaited = "phase" \/ ~cgroup)
    /\ FeedInit /\ (awaited = "document" \/ origin.kind = "index")

BuildStep == awaited = "phase" /\ Next /\ UNCHANGED <<awaited, feedVars>>

RequestStep == awaited = "document" /\ FeedNext /\ UNCHANGED <<awaited, vars>>

ProgressNext == BuildStep \/ RequestStep

(* The supervisor, the helper and the watcher are programs of pacvamp that  *)
(* run when they can, and time passes; nothing obliges a recipe to exit, or *)
(* anybody to interrupt.  A client that asked for a document goes on, and   *)
(* gets the marker's lock again and again if it waits long enough; nothing  *)
(* obliges the publisher.                                                   *)
ProgressFairness ==
    /\ WF_vars(awaited = "phase" /\ Supervise)
    /\ WF_vars(awaited = "phase" /\ Tick)
    /\ WF_vars(awaited = "phase" /\ (HelperEnds \/ Exec))
    /\ WF_vars(awaited = "phase" /\ WatcherKills)
    /\ WF_vars(awaited = "phase" /\ WatcherRemoves)
    /\ \A c \in Clients :
          /\ WF_feedVars(awaited = "document" /\ ClientNext(c))
          /\ SF_feedVars(awaited = "document" /\ RecordSequence(c))

ProgressSpec == ProgressInit /\ [][ProgressNext]_progressVars /\ ProgressFairness
=============================================================================
