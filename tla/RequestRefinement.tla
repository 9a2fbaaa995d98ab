-------------------------- MODULE RequestRefinement --------------------------
(***************************************************************************)
(* The request thread, with CameraDevice and the processors around it,      *)
(* implements RequestPath.  A fake request has no counterpart there.        *)
(***************************************************************************)
EXTENDS RequestThread

IdsIn(requests) == {requests[n].id : n \in DOMAIN requests} \ {0}

\* the request the thread holds between fetchNextRequest() and the hand-over
Held ==
    IF rt.pc \in {"begin", "params", "save", "notify"} THEN {rt.request.id} \ {0} ELSE {}

\* streams whose frame of the first request in the processors is still to come,
\* the frame in the middle of its delivery included
StreamsDue ==
    IF pipe = <<>> \/ pipeStep.point = "stats" \/ Head(pipe).request.id = 0
    THEN Streams
    ELSE pipeStep.left \cup
         (IF inbox["psys"] = "EVENT_FRAME_AVAILABLE" THEN pipeStep.current ELSE {})

Path == INSTANCE RequestPath WITH
    active     <- mActive,
    running    <- mState = "DEVICE_START",
    failed     <- app.startFailed,
    queued     <- app.queued,
    waiting    <- IdsIn(mPendingRequests) \cup Held,
    processing <- {pipe[n].request.id : n \in DOMAIN pipe} \ {0},
    due        <- StreamsDue,
    frames     <- [s \in Streams |-> IdsIn(mFrameQueue[s])]

\* Whatever the interleaving of the application, the request thread and the
\* event handlers, also across stops, failed starts and restarts: requests are
\* handed over and their frames returned in the order of qbuf, each once per
\* stream.  A device in DEVICE_START loses none before it is stopped; what was
\* handed over before DEVICE_START is lost only by a start() that returns an error.
ImplementsPath == Path!Spec

=============================================================================
