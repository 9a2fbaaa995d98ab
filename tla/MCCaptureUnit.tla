---------------------------- MODULE MCCaptureUnit ----------------------------
(***************************************************************************)
(* Instances of CaptureUnit for TLC, the fairness of its threads and of the *)
(* sensor, and what the documentation states.                               *)
(***************************************************************************)
EXTENDS CaptureUnit

OneConsumer == {"psys"}

\* One device and more buffers than it may hold; one device, two sessions and a start
\* that may fail; frames with errors; the two devices of a DOL sensor, where the
\* second may fail to start.
Single  == [devices |-> 1, buffers |-> 4, errors |-> FALSE, startMayFail |-> FALSE,
            sessions |-> 1]
Restart == [devices |-> 1, buffers |-> 2, errors |-> FALSE, startMayFail |-> TRUE,
            sessions |-> 2]
Errors  == [devices |-> 1, buffers |-> 3, errors |-> TRUE, startMayFail |-> FALSE,
            sessions |-> 1]
Dol     == [devices |-> 2, buffers |-> 2, errors |-> FALSE, startMayFail |-> TRUE,
            sessions |-> 1]

OneCapture     == {Single}
ErrorsAndDol   == {Restart, Errors, Dol}
PlainRestart   == {[Restart EXCEPT !.startMayFail = FALSE]}

AppInCall ==
    \/ AllocBuffer \/ StreamOn \/ RunPollThread \/ SetStart \/ RequestExit
    \/ StreamOff \/ ExitAndWait \/ ResetBuffers \/ ClearStop \/ StopProcessors

\* Every thread goes on, a processor returns the buffers it holds, and a call the
\* application made goes on.  While a node streams and holds a buffer the sensor
\* fills it, so poll() does not time out for ever.
Fairness ==
    /\ \A t \in Threads : WF_vars(ProcessPending(t))
    /\ \A c \in Consumers : WF_vars(ReturnBuffer(c))
    /\ WF_vars(PollStep) /\ SF_vars(PollReports) /\ WF_vars(AppInCall)

FairSpec == Spec /\ Fairness

-----------------------------------------------------------------------------
(* What the documentation says, refuted by the code.                       *)

\* CaptureUnit.h on start(): "1. Stream on 2. Running the pool Thread".  When
\* start() has returned, and until stop(), the poll thread runs.
StartDoc ==
    AppAt("idle") /\ mState = "CAPTURE_START" => mPollThread # "EXITED"

\* DeviceBase.h: "Buffer to be dequeued from driver comes from mBuffersInDevice."
\* The index the driver returns is the one of the buffer taken from the list.
DequeueDoc == PollAt("pop") => poll.buffer.index = poll.buffer.memory

=============================================================================
