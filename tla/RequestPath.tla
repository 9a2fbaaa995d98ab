---------------------------- MODULE RequestPath ----------------------------
(***************************************************************************)
(* What a camera promises the application about its requests, with no word  *)
(* of threads, locks, triggers or sequences: a request is its number in the *)
(* order of qbuf and passes through three places,                           *)
(*                                                                         *)
(*      waiting  -->  processing  -->  frames of every stream               *)
(*                                                                         *)
(* always the oldest one first, each at most once.  A request that waits,   *)
(* and a frame that nobody took, are dropped only after a stop; a request   *)
(* that was handed over, only by stopping the processors or by a start that *)
(* fails, of a camera that did not run yet.                                 *)
(***************************************************************************)
EXTENDS Naturals

CONSTANT Streams

VARIABLES
    active,       \* a qbuf came since the last stop
    running,      \* the processors are started
    failed,       \* the last start failed
    queued,       \* number of requests queued so far
    waiting,      \* requests not yet handed to the processors
    processing,   \* requests the processors hold
    due,          \* streams that wait for the frame of the oldest of these
    frames        \* stream -> requests whose frame the application may take

pathVars == <<active, running, failed, queued, waiting, processing, due, frames>>

Oldest(set) == {id \in set : \A other \in set : id <= other}

Init ==
    /\ active = FALSE /\ running = FALSE /\ failed = FALSE
    /\ queued = 0
    /\ waiting = {} /\ processing = {}
    /\ due = Streams
    /\ frames = [s \in Streams |-> {}]

\* camera_stream_qbuf
Submit ==
    /\ active' = TRUE
    /\ queued' = queued + 1
    /\ waiting' = waiting \cup {queued + 1}
    /\ UNCHANGED <<running, failed, processing, due, frames>>

\* the oldest request goes to the processors
HandOver ==
    /\ \E id \in Oldest(waiting) :
          /\ waiting' = waiting \ {id}
          /\ processing' = processing \cup {id}
    /\ UNCHANGED <<active, running, failed, queued, due, frames>>

\* the processors return a frame of the oldest request they hold, once for
\* every stream; it may be lost when the camera was stopped in the meantime
Return(s) ==
    /\ running /\ s \in due
    /\ \E id \in Oldest(processing) :
          \/ frames' = [frames EXCEPT ![s] = @ \cup {id}]
          \/ ~active /\ UNCHANGED frames
    /\ due' = due \ {s}
    /\ UNCHANGED <<active, running, failed, queued, waiting, processing>>

\* a request is finished when every stream got its frame
Finish ==
    /\ running /\ due = {}
    /\ \E id \in Oldest(processing) : processing' = processing \ {id}
    /\ due' = Streams
    /\ UNCHANGED <<active, running, failed, queued, waiting, frames>>

\* camera_stream_dqbuf: the oldest frame of the stream
Take(s) ==
    /\ \E id \in Oldest(frames[s]) :
          frames' = [frames EXCEPT ![s] = @ \ {id}]
    /\ UNCHANGED <<active, running, failed, queued, waiting, processing, due>>

\* camera_device_stop
Deactivate ==
    /\ active' = FALSE
    /\ UNCHANGED <<running, failed, queued, waiting, processing, due, frames>>

\* a stopped camera drops what it holds, place by place.  The request on its
\* way to the processors may survive the stop and go on after the next qbuf.
DropWaiting ==
    /\ ~active
    /\ waiting' \in SUBSET waiting
    /\ UNCHANGED <<active, running, failed, queued, processing, due, frames>>

DropFrames(s) ==
    /\ ~active
    /\ frames' = [frames EXCEPT ![s] = {}]
    /\ UNCHANGED <<active, running, failed, queued, waiting, processing, due>>

DropProcessing == processing' = {} /\ due' = Streams

\* the second half of camera_device_stop.  A camera that does not run keeps what was
\* handed over.
StopProcessing ==
    /\ ~active /\ running
    /\ running' = FALSE
    /\ DropProcessing
    /\ UNCHANGED <<active, failed, queued, waiting, frames>>

\* camera_device_start, ...
Start ==
    /\ active /\ ~running
    /\ running' = TRUE /\ failed' = FALSE
    /\ UNCHANGED <<active, queued, waiting, processing, due, frames>>

\* ... and one that returns an error: what was handed over before is lost
FailToStart ==
    /\ active /\ ~running
    /\ failed' = TRUE
    /\ DropProcessing
    /\ UNCHANGED <<active, running, queued, waiting, frames>>

Next ==
    \/ Submit \/ HandOver \/ Finish \/ Deactivate \/ DropWaiting
    \/ StopProcessing \/ Start \/ FailToStart
    \/ \E s \in Streams : Return(s) \/ Take(s) \/ DropFrames(s)

Spec == Init /\ [][Next]_pathVars

=============================================================================
