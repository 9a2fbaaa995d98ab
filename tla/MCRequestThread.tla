--------------------------- MODULE MCRequestThread --------------------------
(***************************************************************************)
(* Instances of RequestThread for TLC, the fairness the scheduling of the   *)
(* threads and the hardware justifies, and what the documentation states.   *)
(***************************************************************************)
EXTENDS RequestRefinement

CONSTANTS s1

OneStream == {s1}

Video     == [hasVideoBuffer |-> TRUE, sequence |-> -1]
Still     == [hasVideoBuffer |-> FALSE, sequence |-> -1]
Reprocess == [hasVideoBuffer |-> FALSE, sequence |-> 0]
VideoOnly == {Video}
NoStill   == {Video, Reprocess}
AllKinds  == {Video, Still, Reprocess}

IsysThread == IsysFrameEvent \/ HandleFrame("isys")
PsysThread == \/ PsysStats \/ PsysFrame \/ PsysDone \/ HandleFrame("psys") \/ HandleStats
              \/ HandleFrameAvailable \/ HandleInsertFake
AppInCall  == \/ Wait1stReturns \/ (\E s \in Streams : ClearFrames(s))
              \/ ClearQueue \/ StopUnits \/ RequestExit

\* Every thread of the HAL goes on, the sensor and the processors go on while
\* the device streams, and a call the application made goes on.  Nothing says
\* that the application ever makes another call.
Fairness ==
    /\ WF_vars(RequestThreadStep) /\ WF_vars(IsysThread)
    /\ WF_vars(PsysThread) /\ WF_vars(AppInCall)

FairSpec == Spec /\ Fairness

-----------------------------------------------------------------------------
(* What the documentation says, refuted by the code.                       *)

\* RequestThread.h on wait1stRequestDone(): "Block the caller until the first
\* request is processed."  When it returned with OK, the first request of this
\* session has been processed.
Wait1stRequestDoneDoc == app.startOk

=============================================================================
