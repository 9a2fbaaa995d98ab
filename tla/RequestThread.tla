--------------------------- MODULE RequestThread ---------------------------
(***************************************************************************)
(* The request thread of one camera: src/src/core/RequestThread.cpp, driven *)
(* by the application through CameraDevice (qbuf, dqbuf, start, stop,       *)
(* configure, deinit) and by the events of the SOF, ISYS and PSYS threads.  *)
(*                                                                         *)
(* One action is one critical section, or one access to the atomic mActive  *)
(* outside of any lock: everything between two of them can interleave with  *)
(* the other threads.  A condition variable is a control point: signal()    *)
(* moves a waiter from "wait" to "woken", and a timed wait may also expire. *)
(***************************************************************************)
EXTENDS Integers, Sequences, FiniteSets

CONSTANTS
    PerframeControl,      \* mPerframeControlSupport
    IsysEnabled,          \* PlatformData::isIsysEnabled, gives mSofEnabled
    FakeRequests,         \* mGet3AStatWithFakeRequest, as configure() left it
    WaitFirstStats,       \* PlatformData::isWaitFirstStats
    MaxRequestsInflight,  \* PlatformData::getMaxRequestsInflight
    InitialPendingFrame,  \* PlatformData::getInitialPendingFrame
    ExposureLag,          \* PlatformData::getExposureLag
    Streams,              \* the configured streams
    VideoConfigured,      \* a preview or video stream is configured, with AIQ
    RequestKinds,         \* what the application queues: a request with a video
                          \* buffer or not, for a raw frame to reprocess or for
                          \* a new one (sequence -1)
    StartMayFail,         \* a unit may fail to start, for example on STREAMON
    MaxRequests,          \* bound: requests the application queues
    MaxSof,               \* bound: SOF events of one session
    MaxRequestId,         \* bound: request ids of one session, fakes included
    MaxSessions           \* bound: sessions (first qbuf until stop)

ASSUME ConfigAssumption ==
    /\ PerframeControl \in BOOLEAN /\ IsysEnabled \in BOOLEAN
    /\ FakeRequests \in BOOLEAN /\ WaitFirstStats \in BOOLEAN
    /\ FakeRequests => PerframeControl
    /\ MaxRequestsInflight \in Nat \ {0}
    /\ InitialPendingFrame \in Nat
    /\ ExposureLag \in Nat
    /\ VideoConfigured \in BOOLEAN /\ StartMayFail \in BOOLEAN
    /\ RequestKinds \subseteq [hasVideoBuffer : BOOLEAN, sequence : Nat \cup {-1}]
    /\ MaxRequests \in Nat /\ MaxSof \in Nat /\ MaxSessions \in Nat
    /\ MaxRequestId \in Nat

VARIABLES
    mActive, mPendingRequests, mRequestsInProcessing, mRequestTriggerEvent,
    mLastRequestId, mLastEffectSeq, mLastAppliedSeq, mLastSofSeq,
    mBlockRequest, mFirstRequest,
    mFrameQueue,      \* mOutputFrames: stream -> queue of returned frames
    rt,               \* the request thread: control point and its locals
    app,              \* the application's control thread
    mState,           \* CameraDevice::mState
    dq,               \* stream -> control point of the thread in dqbuf
    inbox,            \* source -> the event it is in the middle of delivering
    sofCount,         \* SOF events the sensor produced in this stream-on
    pipe, pipeStep    \* requests handed to the processors, progress of the first

queueVars == <<mPendingRequests, mRequestsInProcessing>>
seqVars   == <<mLastRequestId, mLastEffectSeq, mLastAppliedSeq, mLastSofSeq>>
flagVars  == <<mActive, mBlockRequest, mFirstRequest>>
dqVars    == <<mFrameQueue, dq>>
pipeVars  == <<pipe, pipeStep, sofCount>>
reqVars   == <<queueVars, mRequestTriggerEvent, seqVars>>
ioVars    == <<mState, dqVars, inbox, pipeVars>>
vars == <<reqVars, flagVars, rt, app, ioVars>>

-----------------------------------------------------------------------------
(* Requests, events and control points.                                    *)

Triggers == {"NEW_REQUEST", "NEW_FRAME", "NEW_STATS", "NEW_SOF"}
Sources  == {"sof", "isys", "psys"}

\* A request: session and number of the qbuf that made it (number 0 is the
\* fake request), mIsFirstRequest, and its kind.
Requests == [id : Nat, session : Nat, mIsFirstRequest : BOOLEAN,
             hasVideoBuffer : BOOLEAN, sequence : Nat \cup {-1}]

FakeRequest(session) == [id |-> 0, session |-> session, mIsFirstRequest |-> FALSE,
                         hasVideoBuffer |-> TRUE, sequence |-> -1]

IsReprocess(request) == request.sequence >= 0

\* An event is its type.  The sequence of an SOF is the last one the sensor
\* produced, a frame is the one of the first request the processors hold.
EventTypes == {"NONE", "EVENT_ISYS_SOF", "EVENT_FRAME", "EVENT_PSYS_STATS_BUF_READY",
               "EVENT_FRAME_AVAILABLE", "INSERT_FAKE"}

RtPoints  == {"loop", "top", "wait", "woken", "check", "fetch", "begin",
              "params", "save", "notify", "first", "reset", "exited"}
AppPoints == {"idle", "wait1st", "woken1st", "clearFrames", "clearQueue",
              "stopUnits", "requestExit", "signalExit", "closed"}

\* the processors have not begun with their first request
NoFrameStep == [point |-> "stats", left |-> {}, current |-> {}]

-----------------------------------------------------------------------------
Init ==
    /\ mActive = FALSE
    /\ mPendingRequests = <<>> /\ mRequestsInProcessing = 0
    /\ mRequestTriggerEvent = {}
    /\ mLastRequestId = -1 /\ mLastEffectSeq = -1
    /\ mLastAppliedSeq = -1 /\ mLastSofSeq = -1
    /\ mBlockRequest = (WaitFirstStats /\ VideoConfigured)
    /\ mFirstRequest = TRUE
    /\ mFrameQueue = [s \in Streams |-> <<>>]
    /\ rt = [pc |-> "loop", exiting |-> FALSE, request |-> FakeRequest(0),
             effectSeq |-> 0, lastHanded |-> 0]
    /\ app = [pc |-> "idle", cleared |-> {}, deinit |-> FALSE, session |-> 0,
              queued |-> 0, firstDone |-> FALSE, startFailed |-> FALSE, startOk |-> TRUE]
    /\ mState = "DEVICE_CONFIGURE"
    /\ dq = [s \in Streams |-> "idle"]
    /\ inbox = [src \in Sources |-> "NONE"]
    /\ sofCount = 0
    /\ pipe = <<>>
    /\ pipeStep = NoFrameStep

-----------------------------------------------------------------------------
(* The request thread.                                                     *)

RtAt(point) == rt.pc = point
\* mRequestSignal.signal()
Signal(r) == IF r.pc = "wait" THEN [r EXCEPT !.pc = "woken"] ELSE r
RtGoto(point) == rt' = [rt EXCEPT !.pc = point]

\* Mutant: one request too many passes the check of the limit
blockRequestMutant ==
    \/ mPendingRequests = <<>>
    \/ mBlockRequest /\ mLastRequestId >= InitialPendingFrame
    \/ mRequestsInProcessing > MaxRequestsInflight
    \/ PerframeControl /\ mRequestTriggerEvent = {}

blockRequest ==
    \/ mPendingRequests = <<>>
    \/ mBlockRequest /\ mLastRequestId >= InitialPendingFrame
    \/ mRequestsInProcessing >= MaxRequestsInflight
    \/ PerframeControl /\ mRequestTriggerEvent = {}

\* Mutant: the exit is only checked while the device is active
ThreadLoopAgainMutant ==
    /\ RtAt("loop")
    /\ RtGoto(IF rt.exiting /\ mActive THEN "exited" ELSE "top")
    /\ UNCHANGED <<reqVars, flagVars, app, ioVars>>

\* Thread::_threadLoop, between two calls of threadLoop
ThreadLoopAgain ==
    /\ RtAt("loop")
    /\ RtGoto(IF rt.exiting THEN "exited" ELSE "top")
    /\ UNCHANGED <<reqVars, flagVars, app, ioVars>>

\* The sequence a request that may run now applies to, {} when it may not run
ApplyingSeqs ==
    IF "NEW_SOF" \in mRequestTriggerEvent /\ mLastSofSeq > mLastAppliedSeq
    THEN {mLastSofSeq}
    ELSE IF \/ "NEW_STATS" \in mRequestTriggerEvent /\ mLastSofSeq >= mLastAppliedSeq
            \/ /\ mRequestTriggerEvent \cap {"NEW_REQUEST", "NEW_FRAME"} # {}
               /\ mRequestsInProcessing = 0
         THEN {mLastSofSeq + 1}
         ELSE {}

\* threadLoop once it is not blocked: choose the sequence to apply to, then unlock
ChooseSequence ==
    IF ~PerframeControl \/ mRequestTriggerEvent = {}
    THEN /\ RtGoto("check")
         /\ UNCHANGED <<mRequestTriggerEvent, mLastAppliedSeq>>
    ELSE \/ /\ ApplyingSeqs = {}
            /\ mRequestTriggerEvent' = {}
            /\ RtGoto("loop")
            /\ UNCHANGED mLastAppliedSeq
         \/ \E seq \in ApplyingSeqs :
            /\ mLastAppliedSeq' = seq
            /\ IF seq + ExposureLag <= mLastEffectSeq
               THEN mRequestTriggerEvent' = {} /\ RtGoto("loop")
               ELSE RtGoto("check") /\ UNCHANGED mRequestTriggerEvent

\* threadLoop, first critical section up to the wait
LoopTop ==
    /\ RtAt("top")
    /\ IF blockRequest
       THEN RtGoto("wait") /\ UNCHANGED <<mRequestTriggerEvent, mLastAppliedSeq>>
       ELSE ChooseSequence
    /\ UNCHANGED <<queueVars, mLastRequestId, mLastEffectSeq, mLastSofSeq,
                   flagVars, app, ioVars>>

\* threadLoop, the wait for mRequestSignal timed out
LoopTimeout ==
    /\ RtAt("wait")
    /\ RtGoto("loop")
    /\ UNCHANGED <<reqVars, flagVars, app, ioVars>>

\* threadLoop, first critical section after the wait was signalled
LoopWoken ==
    /\ RtAt("woken")
    /\ IF blockRequest
       THEN mRequestTriggerEvent' = {} /\ RtGoto("loop") /\ UNCHANGED mLastAppliedSeq
       ELSE ChooseSequence
    /\ UNCHANGED <<queueVars, mLastRequestId, mLastEffectSeq, mLastSofSeq,
                   flagVars, app, ioVars>>

\* threadLoop: `if (!mActive) return true`, with no lock held
LoopCheckActive ==
    /\ RtAt("check")
    /\ RtGoto(IF mActive THEN "fetch" ELSE "loop")
    /\ UNCHANGED <<reqVars, flagVars, app, ioVars>>

\* Mutant: the newest request is taken first
NextPendingMutant == mPendingRequests[Len(mPendingRequests)]

\* The request fetchNextRequest takes
NextPending == Head(mPendingRequests)

fetchNextRequest ==
    /\ RtAt("fetch")
    /\ IF mPendingRequests = <<>>
       THEN RtGoto("loop") /\ UNCHANGED queueVars
       ELSE /\ rt' = [rt EXCEPT !.pc = "begin", !.request = NextPending]
            /\ mRequestsInProcessing' = mRequestsInProcessing + 1
            /\ mPendingRequests' = Tail(mPendingRequests)
    /\ UNCHANGED <<mRequestTriggerEvent, seqVars, flagVars, app, ioVars>>

\* handleRequest: the default effect sequence, and the reprocess short cut
HandleBegin ==
    /\ RtAt("begin")
    /\ rt' = IF IsReprocess(rt.request)
             THEN [rt EXCEPT !.pc = "notify", !.effectSeq = rt.request.sequence]
             ELSE [rt EXCEPT !.pc = "params", !.effectSeq = mLastEffectSeq + 1]
    /\ UNCHANGED <<reqVars, flagVars, app, ioVars>>

\* External: AiqUnitBase::run3A and the exposure prediction of SensorManager.
\* When 3A does not run, the default stays or the last result is returned again.
run3A(default) ==
    IF ~IsysEnabled THEN {default}
    ELSE {default} \cup ({mLastEffectSeq, mLastSofSeq + ExposureLag,
                          mLastSofSeq + ExposureLag + 1} \cap Nat)

\* handleRequest: take a request id and run 3A, unless a stop came in between
HandleParams ==
    /\ RtAt("params")
    /\ IF mActive
       THEN /\ mLastRequestId' = mLastRequestId + 1
            /\ \E seq \in run3A(rt.effectSeq) :
                  rt' = [rt EXCEPT !.pc = "save", !.effectSeq = seq]
       ELSE RtGoto("save") /\ UNCHANGED mLastRequestId
    /\ UNCHANGED <<queueVars, mRequestTriggerEvent, mLastEffectSeq,
                   mLastAppliedSeq, mLastSofSeq, flagVars, app, ioVars>>

\* handleRequest: record the effect sequence, or give the request up after a stop
HandleSave ==
    /\ RtAt("save")
    /\ IF mActive
       THEN mLastEffectSeq' = rt.effectSeq /\ RtGoto("notify")
       ELSE RtGoto("reset") /\ UNCHANGED mLastEffectSeq
    /\ UNCHANGED <<queueVars, mRequestTriggerEvent, mLastRequestId,
                   mLastAppliedSeq, mLastSofSeq, flagVars, app, ioVars>>

\* EVENT_PROCESS_REQUEST: CameraDevice::handleQueueBuffer gives every stream of
\* the processors a buffer of the request.  It does not hold mDeviceLock.
HandleNotify ==
    /\ RtAt("notify")
    /\ pipe' = Append(pipe, [request |-> rt.request, settingSeq |-> rt.effectSeq])
    /\ rt' = [rt EXCEPT !.pc = "first",
                        !.lastHanded = IF @ < rt.request.id THEN rt.request.id ELSE @]
    /\ UNCHANGED <<reqVars, flagVars, app, mState, dqVars, inbox, pipeStep,
                   sofCount>>

\* handleRequest: the first request is done, release wait1stRequestDone.
\* app.firstDone is history: the first request of the current session is done.
HandleFirst ==
    /\ RtAt("first")
    /\ IF rt.request.mIsFirstRequest
       THEN /\ mFirstRequest' = FALSE
            /\ app' = [app EXCEPT
                         !.pc = IF @ = "wait1st" THEN "woken1st" ELSE @,
                         !.firstDone = @ \/ rt.request.session = app.session]
       ELSE UNCHANGED <<mFirstRequest, app>>
    /\ RtGoto("reset")
    /\ UNCHANGED <<reqVars, mActive, mBlockRequest, ioVars>>

\* threadLoop, last critical section: every trigger that arrived since is dropped.
\* The request and its effect sequence go out of scope.
LoopReset ==
    /\ RtAt("reset")
    /\ mRequestTriggerEvent' = {}
    /\ rt' = [rt EXCEPT !.pc = "loop", !.request = FakeRequest(0), !.effectSeq = 0]
    /\ UNCHANGED <<queueVars, seqVars, flagVars, app, ioVars>>

RequestThreadStep ==
    \/ ThreadLoopAgain \/ LoopTop \/ LoopTimeout \/ LoopWoken \/ LoopCheckActive
    \/ fetchNextRequest \/ HandleBegin \/ HandleParams \/ HandleSave
    \/ HandleNotify \/ HandleFirst \/ LoopReset

-----------------------------------------------------------------------------
(* Events: handleEvent runs in the thread of the source.  Its first line    *)
(* reads mActive with no lock held, the rest takes mPendingReqLock later.   *)

\* EventSource::notifyListeners reaches handleEvent: `if (!mActive) return`
Deliver(src, event) ==
    inbox' = [inbox EXCEPT ![src] = IF mActive THEN event ELSE "NONE"]
Idle(src) == inbox[src] = "NONE"
Delivered(src) == inbox' = [inbox EXCEPT ![src] = "NONE"]

AddTrigger(trigger) ==
    /\ mRequestTriggerEvent' = mRequestTriggerEvent \cup {trigger}
    /\ rt' = Signal(rt)

\* External: the sensor's SOF interrupt, seen by SofSource::poll while streaming
SofEvent ==
    /\ mState = "DEVICE_START" /\ IsysEnabled
    /\ Idle("sof") /\ sofCount < MaxSof
    /\ Deliver("sof", "EVENT_ISYS_SOF")
    /\ sofCount' = sofCount + 1
    /\ UNCHANGED <<reqVars, flagVars, rt, app, mState, dqVars, pipe, pipeStep>>

\* handleEvent, case EVENT_ISYS_SOF
HandleSof ==
    /\ inbox["sof"] = "EVENT_ISYS_SOF"
    /\ mLastSofSeq' = sofCount - 1
    /\ IF mLastSofSeq' > mLastAppliedSeq
       THEN AddTrigger("NEW_SOF")
       ELSE UNCHANGED <<mRequestTriggerEvent, rt>>
    /\ Delivered("sof")
    /\ UNCHANGED <<queueVars, mLastRequestId, mLastEffectSeq, mLastAppliedSeq,
                   flagVars, app, mState, dqVars, pipeVars>>

\* CameraDevice::bindListeners: which frame event the request thread listens to
FrameEventFromPsys == PerframeControl \/ ~IsysEnabled

\* External: MainDevice::onDequeueBuffer returned a raw frame
IsysFrameEvent ==
    /\ mState = "DEVICE_START" /\ ~FrameEventFromPsys
    /\ Idle("isys")
    /\ Deliver("isys", "EVENT_FRAME")
    /\ UNCHANGED <<reqVars, flagVars, rt, app, mState, dqVars, pipeVars>>

\* External: the processors work on the first request they hold: statistics if
\* it has a video buffer, its output frame for every stream, then frame done.
PsysTurn == mState = "DEVICE_START" /\ pipe # <<>> /\ Idle("psys")

PsysStats ==
    /\ PsysTurn /\ pipeStep.point = "stats"
    /\ IF Head(pipe).request.hasVideoBuffer
       THEN Deliver("psys", "EVENT_PSYS_STATS_BUF_READY")
       ELSE UNCHANGED inbox
    /\ pipeStep' = [point |-> "frames", left |-> Streams, current |-> {}]
    /\ UNCHANGED <<reqVars, flagVars, rt, app, mState, dqVars, pipe, sofCount>>

PsysFrame ==
    /\ PsysTurn /\ pipeStep.point = "frames"
    /\ \E s \in pipeStep.left :
          pipeStep' = [pipeStep EXCEPT !.left = @ \ {s}, !.current = {s}]
    /\ Deliver("psys", "EVENT_FRAME_AVAILABLE")
    /\ UNCHANGED <<reqVars, flagVars, rt, app, mState, dqVars, pipe, sofCount>>

PsysDone ==
    /\ PsysTurn /\ pipeStep.point = "frames" /\ pipeStep.left = {}
    /\ IF FrameEventFromPsys
       THEN Deliver("psys", "EVENT_FRAME")
       ELSE UNCHANGED inbox
    /\ pipe' = Tail(pipe)
    /\ pipeStep' = NoFrameStep
    /\ UNCHANGED <<reqVars, flagVars, rt, app, mState, dqVars, sofCount>>

\* Mutants: no guard against zero; the frame does not end the request
FrameDoneCountNoGuard == mRequestsInProcessing - 1
FrameDoneCountLost == mRequestsInProcessing

\* One request less in processing
FrameDoneCount == IF mRequestsInProcessing > 0 THEN mRequestsInProcessing - 1 ELSE 0

\* handleEvent, cases EVENT_ISYS_FRAME and EVENT_PSYS_FRAME
HandleFrame(src) ==
    /\ inbox[src] = "EVENT_FRAME"
    /\ mRequestsInProcessing' = FrameDoneCount
    /\ IF mPendingRequests # <<>> /\ mRequestsInProcessing' = 0
       THEN AddTrigger("NEW_FRAME")
       ELSE UNCHANGED <<mRequestTriggerEvent, rt>>
    /\ Delivered(src)
    /\ UNCHANGED <<mPendingRequests, seqVars, flagVars, app, mState, dqVars,
                   pipeVars>>

\* handleEvent, case EVENT_PSYS_STATS_BUF_READY
HandleStats ==
    /\ inbox["psys"] = "EVENT_PSYS_STATS_BUF_READY"
    /\ mBlockRequest' = FALSE
    /\ AddTrigger("NEW_STATS")
    /\ Delivered("psys")
    /\ UNCHANGED <<queueVars, seqVars, mActive, mFirstRequest, app, mState,
                   dqVars, pipeVars>>

\* mFrameAvailableSignal.signal() and broadcast()
WakeDq(point) == IF point = "wait" THEN "woken" ELSE point
\* Mutant: a frame is signalled only when others are in the queue
NeedSignalMutant(s) == mFrameQueue[s] # <<>>
\* a frame is signalled only when it is the first one in the queue
NeedSignal(s) == mFrameQueue[s] = <<>>

\* Mutant: the frame is queued only when it is signalled
HandleFrameAvailableMutant ==
    /\ inbox["psys"] = "EVENT_FRAME_AVAILABLE"
    /\ \E s \in pipeStep.current :
         IF Head(pipe).request.id # 0 /\ NeedSignal(s)
         THEN /\ mFrameQueue' = [mFrameQueue EXCEPT ![s] = Append(@, Head(pipe).request)]
              /\ dq' = [dq EXCEPT ![s] = WakeDq(@)]
         ELSE UNCHANGED <<mFrameQueue, dq>>
    /\ inbox' = [inbox EXCEPT !["psys"] = "INSERT_FAKE"]
    /\ UNCHANGED <<reqVars, flagVars, rt, app, mState, pipeVars>>
\* handleEvent, case EVENT_FRAME_AVAILABLE, under mFrameMutex: return the frame,
\* unless it is the one of a fake request
HandleFrameAvailable ==
    /\ inbox["psys"] = "EVENT_FRAME_AVAILABLE"
    /\ IF Head(pipe).request.id # 0
       THEN \E s \in pipeStep.current :
            /\ mFrameQueue' = [mFrameQueue EXCEPT ![s] = Append(@, Head(pipe).request)]
            /\ dq' = [dq EXCEPT ![s] = IF NeedSignal(s) THEN WakeDq(@) ELSE @]
       ELSE UNCHANGED <<mFrameQueue, dq>>
    /\ inbox' = [inbox EXCEPT !["psys"] = "INSERT_FAKE"]
    /\ UNCHANGED <<reqVars, flagVars, rt, app, mState, pipeVars>>

\* the same case, under mPendingReqLock: keep 3A running with a fake request.
\* The frame is the one its settings were made for, or a newer one.
HandleInsertFake ==
    /\ inbox["psys"] = "INSERT_FAKE" /\ mLastRequestId < MaxRequestId
    /\ \E newer \in {0, 1} :
       IF /\ FakeRequests /\ Head(pipe).settingSeq + newer >= mLastEffectSeq
          /\ mPendingRequests = <<>> /\ mRequestsInProcessing = 0
       THEN /\ mPendingRequests' = <<FakeRequest(app.session)>>
            /\ AddTrigger("NEW_REQUEST")
       ELSE UNCHANGED <<mPendingRequests, mRequestTriggerEvent, rt>>
    /\ Delivered("psys")
    /\ UNCHANGED <<mRequestsInProcessing, seqVars, flagVars, app, mState, dqVars,
                   pipeVars>>

EventStep ==
    \/ SofEvent \/ HandleSof \/ IsysFrameEvent
    \/ PsysStats \/ PsysFrame \/ PsysDone
    \/ HandleFrame("isys") \/ HandleFrame("psys") \/ HandleStats
    \/ HandleFrameAvailable \/ HandleInsertFake

-----------------------------------------------------------------------------
(* The application: one control thread calling qbuf, start, stop, configure *)
(* and deinit, and one thread per stream calling dqbuf.                     *)

AppAt(point) == app.pc = point

\* CameraDevice::qbuf with RequestThread::processRequest
processRequest(kind) ==
    /\ AppAt("idle") /\ app.queued < MaxRequests
    /\ mActive \/ app.session < MaxSessions
    /\ LET session == IF mActive THEN app.session ELSE app.session + 1
           request == [id |-> app.queued + 1, session |-> session,
                       mIsFirstRequest |-> ~mActive,
                       hasVideoBuffer |-> kind.hasVideoBuffer,
                       sequence |-> kind.sequence]
       IN  /\ mPendingRequests' = Append(mPendingRequests, request)
           /\ mBlockRequest' = (mBlockRequest /\ (mActive \/ kind.hasVideoBuffer))
           /\ app' = [app EXCEPT !.queued = @ + 1, !.session = session,
                                 !.firstDone = @ /\ mActive]
    /\ mActive' = TRUE
    /\ IF mRequestsInProcessing = 0 \/ ~PerframeControl
       THEN AddTrigger("NEW_REQUEST")
       ELSE UNCHANGED <<mRequestTriggerEvent, rt>>
    /\ mState' = IF mState \in {"DEVICE_CONFIGURE", "DEVICE_STOP"}
                 THEN "DEVICE_BUFFER_READY" ELSE mState
    /\ UNCHANGED <<mRequestsInProcessing, seqVars, mFirstRequest, dqVars, inbox,
                   pipeVars>>

Qbuf == \E kind \in RequestKinds : processRequest(kind)

\* stopLocked: the sources' threads are joined, so none is inside handleEvent any
\* more, and the processors drop the requests they hold
StopLocked ==
    /\ \A src \in Sources : Idle(src)
    /\ pipe' = <<>> /\ pipeStep' = NoFrameStep

\* startLocked: every unit starts, or one fails and all are stopped again; the
\* device then stays in DEVICE_BUFFER_READY
StartUnits(fails) ==
    \/ /\ ~fails
       /\ mState' = "DEVICE_START" /\ sofCount' = 0
       /\ UNCHANGED <<pipe, pipeStep>>
    \/ /\ fails /\ StartMayFail
       /\ StopLocked
       /\ UNCHANGED <<mState, sofCount>>

\* app.startFailed: start() returned an error.  app.startOk is history: whether the
\* wait that returned OK found this session's first request processed
StartReturns(waited) ==
    \E fails \in BOOLEAN :
        /\ StartUnits(fails)
        /\ app' = [app EXCEPT !.pc = "idle", !.startFailed = fails,
                              !.startOk = waited => app.firstDone]

\* RequestThread::wait1stRequestDone, called by CameraDevice::start.  In any
\* other device state start() fails and changes nothing.
wait1stRequestDone ==
    /\ AppAt("idle") /\ mState = "DEVICE_BUFFER_READY"
    /\ IF mFirstRequest
       THEN /\ app' = [app EXCEPT !.pc = "wait1st"]
            /\ UNCHANGED <<mState, pipeVars>>
       ELSE StartReturns(TRUE)
    /\ UNCHANGED <<reqVars, flagVars, rt, dqVars, inbox>>

\* The wait was signalled, or timed out; start() goes on in both cases.
Wait1stReturns ==
    /\ \/ AppAt("woken1st") /\ StartReturns(TRUE)
       \/ AppAt("wait1st") /\ StartReturns(FALSE)
    /\ UNCHANGED <<reqVars, flagVars, rt, dqVars, inbox>>

\* clearRequests, called by CameraDevice::stop and by requestExit
ClearActive(deinit) ==
    /\ AppAt("idle")
    /\ IF deinit THEN mState \in {"DEVICE_STOP", "DEVICE_CONFIGURE"}
                 ELSE mState \in {"DEVICE_BUFFER_READY", "DEVICE_START"}
    /\ mActive' = FALSE
    /\ app' = [app EXCEPT !.pc = "clearFrames", !.cleared = {}, !.deinit = deinit]
    /\ UNCHANGED <<reqVars, mBlockRequest, mFirstRequest, rt, ioVars>>

\* Mutant: clearRequests empties the queue and wakes nobody
ClearFramesMutant(s) ==
    /\ AppAt("clearFrames") /\ s \notin app.cleared
    /\ mFrameQueue' = [mFrameQueue EXCEPT ![s] = <<>>]
    /\ app' = [app EXCEPT !.cleared = @ \cup {s}]
    /\ UNCHANGED <<reqVars, flagVars, rt, mState, dq, inbox, pipeVars>>

\* clearRequests: one stream's frame queue, under its mFrameMutex
ClearFrames(s) ==
    /\ AppAt("clearFrames") /\ s \notin app.cleared
    /\ mFrameQueue' = [mFrameQueue EXCEPT ![s] = <<>>]
    /\ dq' = [dq EXCEPT ![s] = WakeDq(@)]
    /\ app' = [app EXCEPT !.cleared = @ \cup {s}]
    /\ UNCHANGED <<reqVars, flagVars, rt, mState, inbox, pipeVars>>

\* Mutant: the count of requests in processing survives
ResetQueueMutant == mPendingRequests' = <<>> /\ UNCHANGED mRequestsInProcessing

\* clearRequests: no request is pending or in processing any more
ResetQueue == mRequestsInProcessing' = 0 /\ mPendingRequests' = <<>>

\* clearRequests: everything else, under mPendingReqLock
ClearQueue ==
    /\ AppAt("clearFrames") /\ app.cleared = Streams
    /\ ResetQueue
    /\ mLastRequestId' = -1 /\ mLastEffectSeq' = -1
    /\ mLastAppliedSeq' = -1 /\ mLastSofSeq' = -1
    /\ mFirstRequest' = TRUE
    /\ mBlockRequest' = WaitFirstStats
    /\ app' = [app EXCEPT !.pc = IF app.deinit THEN "requestExit" ELSE "stopUnits",
                          !.cleared = {}]
    /\ UNCHANGED <<mRequestTriggerEvent, mActive, rt, ioVars>>

\* CameraDevice::stop after clearRequests
StopUnits ==
    /\ AppAt("stopUnits")
    /\ IF mState = "DEVICE_START" THEN StopLocked ELSE UNCHANGED <<pipe, pipeStep>>
    /\ mState' = "DEVICE_STOP"
    /\ app' = [app EXCEPT !.pc = "idle"]
    /\ UNCHANGED <<reqVars, flagVars, rt, dqVars, inbox, sofCount>>

\* requestExit after clearRequests: Thread::requestExit, then the signal
RequestExit ==
    /\ \/ AppAt("requestExit") /\ rt' = [rt EXCEPT !.exiting = TRUE]
          /\ app' = [app EXCEPT !.pc = "signalExit"]
       \/ AppAt("signalExit") /\ rt' = Signal(rt)
          /\ app' = [app EXCEPT !.pc = "closed"]
    /\ UNCHANGED <<reqVars, flagVars, ioVars>>

\* CameraDevice::configure of a stopped device: RequestThread::configure writes
\* mBlockRequest with no lock held
configure ==
    /\ AppAt("idle") /\ mState \in {"DEVICE_CONFIGURE", "DEVICE_STOP"}
    /\ mState' = "DEVICE_CONFIGURE"
    /\ mBlockRequest' = (WaitFirstStats /\ VideoConfigured)
    /\ UNCHANGED <<reqVars, mActive, mFirstRequest, rt, app, dqVars, inbox,
                   pipeVars>>

\* RequestThread::waitFrame under mFrameMutex, until it returns or waits
waitFrame(s) ==
    /\ dq[s] \in {"idle", "woken"}
    /\ IF ~mActive
       THEN dq' = [dq EXCEPT ![s] = "idle"] /\ UNCHANGED mFrameQueue    \* NO_INIT
       ELSE IF mFrameQueue[s] = <<>>
            THEN dq' = [dq EXCEPT ![s] = "wait"] /\ UNCHANGED mFrameQueue
            ELSE /\ mFrameQueue' = [mFrameQueue EXCEPT ![s] = Tail(@)]
                 /\ dq' = [dq EXCEPT ![s] = "idle"]
    /\ UNCHANGED <<reqVars, flagVars, rt, app, mState, inbox, pipeVars>>

\* waitFrame timed out: NO_INIT when inactive, else dqbuf calls it again
WaitFrameTimeout(s) ==
    /\ dq[s] = "wait"
    /\ dq' = [dq EXCEPT ![s] = IF mActive THEN "woken" ELSE "idle"]
    /\ UNCHANGED <<reqVars, flagVars, rt, app, mState, mFrameQueue, inbox,
                   pipeVars>>

AppStep ==
    \/ Qbuf \/ wait1stRequestDone \/ Wait1stReturns
    \/ \E deinit \in BOOLEAN : ClearActive(deinit)
    \/ \E s \in Streams : ClearFrames(s)
    \/ ClearQueue \/ StopUnits \/ RequestExit \/ configure

DqStep == \E s \in Streams : waitFrame(s) \/ WaitFrameTimeout(s)

Next == RequestThreadStep \/ EventStep \/ AppStep \/ DqStep

Spec == Init /\ [][Next]_vars

-----------------------------------------------------------------------------
(* Properties.                                                             *)

RequestThreads == [pc : RtPoints, exiting : BOOLEAN, request : Requests,
                   effectSeq : Int, lastHanded : Nat]
Applications   == [pc : AppPoints, cleared : SUBSET Streams, deinit : BOOLEAN,
                   session : Nat, queued : Nat, firstDone : BOOLEAN,
                   startFailed : BOOLEAN, startOk : BOOLEAN]
Jobs           == [request : Requests, settingSeq : Int]
PipeSteps      == [point : {"stats", "frames"}, left : SUBSET Streams,
                   current : SUBSET Streams]

MembersType ==
    /\ mActive \in BOOLEAN /\ mBlockRequest \in BOOLEAN /\ mFirstRequest \in BOOLEAN
    /\ mPendingRequests \in Seq(Requests) /\ mRequestsInProcessing \in Nat
    /\ mRequestTriggerEvent \subseteq Triggers
    /\ mLastRequestId \in Int /\ mLastEffectSeq \in Int
    /\ mLastAppliedSeq \in Int /\ mLastSofSeq \in Int

DeviceType ==
    /\ mState \in {"DEVICE_CONFIGURE", "DEVICE_BUFFER_READY", "DEVICE_START",
                   "DEVICE_STOP"}
    /\ mFrameQueue \in [Streams -> Seq(Requests)]
    /\ dq \in [Streams -> {"idle", "wait", "woken"}]
    /\ inbox \in [Sources -> EventTypes]
    /\ sofCount \in Nat
    /\ pipe \in Seq(Jobs) /\ pipeStep \in PipeSteps

\* a frame in the middle of its delivery belongs to a request the processors hold
PsysEventHasJob ==
    inbox["psys"] \in {"EVENT_FRAME_AVAILABLE", "INSERT_FAKE"} => pipe # <<>>

\* The types of the request thread's members and of the threads around it.
TypeOK ==
    /\ MembersType /\ DeviceType
    /\ rt \in RequestThreads /\ app \in Applications
    /\ PsysEventHasJob

\* blockRequest() checks the number of requests in flight, fetchNextRequest()
\* increments it in another critical section: the limit holds nevertheless.
InflightBound == mRequestsInProcessing <= MaxRequestsInflight

\* Once clearRequests() has returned and until the next qbuf, no request is
\* pending or counted, whatever handleEvent() and threadLoop() were in the middle
\* of: a count left over would be taken from the next session's limit.
ClearedStateIsClean ==
    ~mActive /\ app.pc # "clearFrames"
    => mPendingRequests = <<>> /\ mRequestsInProcessing = 0

\* A thread sleeps in waitFrame() only while its queue is empty, although a frame
\* is signalled only when the queue was empty before it.
NoFrameWhileWaiting == \A s \in Streams : dq[s] = "wait" => mFrameQueue[s] = <<>>

\* Once clearRequests() has passed a stream, no thread sleeps in waitFrame() on
\* it: one that read mActive before the clear is in the wait when the broadcast
\* comes.
NoSleeperAfterClear ==
    ~mActive => \A s \in Streams :
        app.pc # "clearFrames" \/ s \in app.cleared => dq[s] # "wait"

\* what this step adds to the processors' queue is newer than all before it
InOrderStep ==
    \A n \in {Len(pipe')} :
        n > Len(pipe) /\ pipe'[n].request.id # 0
        => pipe'[n].request.id > rt.lastHanded

\* handleRequest() hands the application's requests to the processors in the
\* order of qbuf, each at most once, also across a stop and a restart.
HandedOverInOrder == [][InOrderStep]_vars

Pending(id) == \E n \in DOMAIN mPendingRequests : mPendingRequests[n].id = id

\* While the device streams, a queued request leaves the queue: it is handed to
\* the processors or dropped by a stop.
PendingIsServed ==
    \A id \in 1..MaxRequests :
        (Pending(id) /\ mState = "DEVICE_START") ~> ~Pending(id)

\* After requestExit() the thread ends, so that deinit's join returns.
ThreadExits == (app.pc = "closed") ~> (rt.pc = "exited")

=============================================================================
