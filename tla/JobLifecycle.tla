---------------------------- MODULE JobLifecycle ----------------------------
(***************************************************************************)
(* What a client of VidForge may rely on about a job, whatever the         *)
(* interleaving of API calls, worker runs, retries and crashes: the states *)
(* a job moves through, and when its completion is announced.  It is the   *)
(* abstract specification that TranscodePipeline implements.               *)
(*                                                                         *)
(* The graph is the one the code keeps, not the one its comments describe: *)
(* CANCELLED and FAILED are written unconditionally, so each may replace   *)
(* any other state, but nothing ever leads back to QUEUED or PROCESSING.   *)
(***************************************************************************)
CONSTANT Jobs

VARIABLES
    state,     \* state of each job; "none" before it exists
    announced  \* jobs whose completion has been published

lifeVars == <<state, announced>>

InProgress == {"QUEUED", "PROCESSING"}
Ended      == {"COMPLETED", "FAILED", "CANCELLED"}

LifeInit ==
    /\ state = [j \in Jobs |-> "none"]
    /\ announced = {}

Move(j, from, to) ==
    /\ state[j] \in from
    /\ state' = [state EXCEPT ![j] = to]
    /\ UNCHANGED announced

Submitted(j)  == Move(j, {"none"}, "QUEUED")
Started(j)    == Move(j, {"QUEUED"}, "PROCESSING")
Completed(j)  == Move(j, {"PROCESSING"}, "COMPLETED")
Failed(j)     == Move(j, InProgress \cup Ended, "FAILED")
Cancelled(j)  == Move(j, InProgress \cup Ended, "CANCELLED")
Deleted(j)    == Move(j, Ended, "deleted")

\* A completion is announced once, and only for a job that got that far.
Announced(j) ==
    /\ j \notin announced
    /\ state[j] \in Ended \cup {"deleted"}
    /\ announced' = announced \cup {j}
    /\ UNCHANGED state

LifeNext == \E j \in Jobs : \/ Submitted(j) \/ Started(j) \/ Completed(j)
                            \/ Failed(j) \/ Cancelled(j) \/ Deleted(j)
                            \/ Announced(j)

LifeSpec == LifeInit /\ [][LifeNext]_lifeVars

=============================================================================
