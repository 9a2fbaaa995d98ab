----------------------------- MODULE CaptureUnit -----------------------------
(***************************************************************************)
(* The capture unit of one camera: src/src/core/CaptureUnit.cpp with its    *)
(* devices, src/src/core/DeviceBase.cpp.  Raw buffers go round: a consumer  *)
(* (an image processor) queues them, the devices put them into the driver,  *)
(* the poll thread takes them out filled and gives them to the consumer.    *)
(*                                                                         *)
(* qbuf takes no lock of the capture unit: the consumers' threads, the poll *)
(* thread and, before the stream is on, the application's thread all run    *)
(* processPendingBuffers.  One action is one critical section of a device's *)
(* mBufferLock, one ioctl, or one access to mState or mExitPending.         *)
(***************************************************************************)
EXTENDS Integers, Sequences, FiniteSets

CONSTANTS
    Setups,           \* the cameras, records of devices: the MainDevice and the
                      \* DolCaptureDevices, buffers: raw buffers PSysProcessor::start
                      \* allocates for a port, errors: frames may be bad, and
                      \* isSkipFrameOnSTR2MMIOErr is set, startMayFail:
                      \* VIDIOC_STREAMON may fail, sessions: bound, calls of start
    ExposureLag,      \* PlatformData::getExposureLag
    InitialSkipFrame, \* PlatformData::getInitialSkipFrame
    Consumers         \* the threads of the image processors that return buffers

VARIABLE setup        \* one of Setups

NumDevices   == setup.devices
NumBuffers   == setup.buffers
FrameErrors  == setup.errors
StartMayFail == setup.startMayFail
MaxSessions  == setup.sessions

Devices == 1..NumDevices
Threads == Consumers \cup {"app", "poll"}

ASSUME CaptureAssumption ==
    /\ Setups \subseteq [devices : Nat \ {0}, buffers : Nat \ {0}, errors : BOOLEAN,
                        startMayFail : BOOLEAN, sessions : Nat]
    /\ ExposureLag \in Nat /\ InitialSkipFrame \in Nat
    /\ IsFiniteSet(Consumers) /\ Consumers \cap {"app", "poll"} = {}

\* CaptureUnit::CaptureUnit
mMaxBuffersInDevice == IF ExposureLag + 1 < 2 THEN 2 ELSE ExposureLag + 1

VARIABLES
    mState, mExitPending,
    mPendingBuffers, mBuffersInDevice,   \* of each device
    mBufferQueuing, mFrameSkipNum,
    node,          \* the V4L2 node of each device: started, indices queued
    mFlushFd,      \* a byte is in the flush pipe
    th,            \* each thread in processPendingBuffers: point and locals
    mPollThread,   \* Thread::mState of the poll thread
    poll,          \* the poll thread: point and locals
    app,           \* the application's thread, in CameraDevice start and stop;
                   \* stopped: a node that was streaming has been stopped
    held           \* the buffers of each device the consumers hold

devVars  == <<mPendingBuffers, mBuffersInDevice, mBufferQueuing, mFrameSkipNum>>
ctlVars  == <<mState, mExitPending, mFlushFd>>
pollVars == <<mPollThread, poll>>
vars == <<ctlVars, devVars, node, th, pollVars, app, held>>

-----------------------------------------------------------------------------
(* A buffer is the memory allocated for it in a session, and the index in   *)
(* its v4l2_buffer: VIDIOC_DQBUF overwrites the index.                      *)

Indices == 0..(NumBuffers - 1)
Buffers == [session : Nat, memory : Indices, index : Indices]
NoBuffer == [session |-> 0, memory |-> 0, index |-> 0]

NoThread == [pc |-> "idle", dev |-> 1, buffer |-> NoBuffer, ok |-> TRUE]
NewNode  == [started |-> FALSE, queue |-> <<>>]
NoPoll   == [pc |-> "none", ready |-> {}, buffer |-> NoBuffer, skip |-> FALSE]

Contents(q) == {q[n] : n \in DOMAIN q}

Init ==
    /\ setup \in Setups
    /\ mState = "CAPTURE_INIT" /\ mExitPending = FALSE
    /\ mPendingBuffers = [d \in Devices |-> <<>>]
    /\ mBuffersInDevice = [d \in Devices |-> <<>>]
    /\ mBufferQueuing = [d \in Devices |-> FALSE]
    /\ mFrameSkipNum = [d \in Devices |-> 0]
    /\ node = [d \in Devices |-> NewNode]
    /\ mFlushFd = FALSE
    /\ th = [t \in Threads |-> NoThread]
    /\ mPollThread = "NOT_STARTED" /\ poll = NoPoll
    /\ app = [pc |-> "idle", next |-> 0, session |-> 0, stopped |-> FALSE]
    /\ held = [d \in Devices |-> {}]

-----------------------------------------------------------------------------
(* processPendingBuffers, in any of the threads.                           *)

At(t, point) == th[t].pc = point
Goto(t, point) == th' = [th EXCEPT ![t].pc = point]
Return(t) == th' = [th EXCEPT ![t] = NoThread]

\* CaptureUnit::qbuf: DeviceBase::addPendingBuffer, then processPendingBuffers
qbuf(t, d, buffer) ==
    /\ mPendingBuffers' = [mPendingBuffers EXCEPT ![d] = Append(@, buffer)]
    /\ th' = [th EXCEPT ![t] = [NoThread EXCEPT !.pc = "count"]]

\* Mutant: the wrong list is counted
HasRoomMutant == Len(mPendingBuffers[1]) < mMaxBuffersInDevice
\* the check of the main device's buffers
HasRoom == Len(mBuffersInDevice[1]) < mMaxBuffersInDevice

\* processPendingBuffers: the loop's condition, getBufferNumInDevice
CountBuffers(t) ==
    /\ At(t, "count")
    /\ IF HasRoom
       THEN th' = [th EXCEPT ![t].pc = "pending", ![t].dev = 1]
       ELSE Return(t)
    /\ UNCHANGED <<ctlVars, devVars, node, pollVars, app, held>>

\* processPendingBuffers: hasPendingBuffer of one device after the other
CheckPending(t) ==
    /\ At(t, "pending")
    /\ IF mPendingBuffers[th[t].dev] = <<>>
       THEN Return(t)
       ELSE IF th[t].dev < NumDevices
            THEN th' = [th EXCEPT ![t].dev = @ + 1]
            ELSE Goto(t, "queueAll")
    /\ UNCHANGED <<ctlVars, devVars, node, pollVars, app, held>>

\* queueAllBuffers: the first test of mExitPending
QueueAll(t) ==
    /\ At(t, "queueAll")
    /\ IF mExitPending
       THEN Goto(t, "again")
       ELSE th' = [th EXCEPT ![t].pc = "take", ![t].dev = 1]
    /\ UNCHANGED <<ctlVars, devVars, node, pollVars, app, held>>

\* Mutant: mBufferQueuing keeps nobody out
TakePendingMutant(t) ==
    /\ At(t, "take")
    /\ LET d == th[t].dev IN
       IF mPendingBuffers[d] = <<>>
       THEN Goto(t, "next") /\ UNCHANGED mBufferQueuing
       ELSE /\ th' = [th EXCEPT ![t].pc = "put", ![t].buffer = Head(mPendingBuffers[d])]
            /\ mBufferQueuing' = [mBufferQueuing EXCEPT ![d] = TRUE]
    /\ UNCHANGED <<ctlVars, mPendingBuffers, mBuffersInDevice, mFrameSkipNum,
                   node, pollVars, app, held>>

\* DeviceBase::queueBuffer, first critical section
TakePending(t) ==
    /\ At(t, "take")
    /\ LET d == th[t].dev IN
       IF mBufferQueuing[d] \/ mPendingBuffers[d] = <<>>
       THEN Goto(t, "next") /\ UNCHANGED mBufferQueuing
       ELSE /\ th' = [th EXCEPT ![t].pc = "put", ![t].buffer = Head(mPendingBuffers[d])]
            /\ mBufferQueuing' = [mBufferQueuing EXCEPT ![d] = TRUE]
    /\ UNCHANGED <<ctlVars, mPendingBuffers, mBuffersInDevice, mFrameSkipNum,
                   node, pollVars, app, held>>

\* External: VIDIOC_QBUF, it fails when the index is queued already
PutFrame(t) ==
    /\ At(t, "put")
    /\ LET d == th[t].dev
           index == th[t].buffer.index
       IN  IF index \in Contents(node[d].queue)
           THEN /\ th' = [th EXCEPT ![t].pc = "release", ![t].ok = FALSE]
                /\ UNCHANGED node
           ELSE /\ node' = [node EXCEPT ![d].queue = Append(@, index)]
                /\ Goto(t, "move")
    /\ UNCHANGED <<ctlVars, devVars, pollVars, app, held>>

\* queueBuffer, the critical section after PutFrame succeeded
MoveToDevice(t) ==
    /\ At(t, "move")
    /\ LET d == th[t].dev IN
       IF mPendingBuffers[d] # <<>>
       THEN /\ mPendingBuffers' = [mPendingBuffers EXCEPT ![d] = Tail(@)]
            /\ mBuffersInDevice' = [mBuffersInDevice EXCEPT ![d] = Append(@, th[t].buffer)]
       ELSE UNCHANGED <<mPendingBuffers, mBuffersInDevice>>
    /\ Goto(t, "release")
    /\ UNCHANGED <<ctlVars, mBufferQueuing, mFrameSkipNum, node, pollVars, app, held>>

\* queueBuffer, last critical section
ReleaseQueuing(t) ==
    /\ At(t, "release")
    /\ mBufferQueuing' = [mBufferQueuing EXCEPT ![th[t].dev] = FALSE]
    /\ th' = [th EXCEPT ![t].pc = "next", ![t].buffer = NoBuffer]
    /\ UNCHANGED <<ctlVars, mPendingBuffers, mBuffersInDevice, mFrameSkipNum,
                   node, pollVars, app, held>>

\* queueAllBuffers after one device: stop on an exit or on an error.  An error
\* ends processPendingBuffers whatever it reads of mExitPending afterwards.
NextDevice(t) ==
    /\ At(t, "next")
    /\ IF mExitPending
       THEN Goto(t, "again")
       ELSE IF ~th[t].ok
            THEN Return(t)
            ELSE IF th[t].dev < NumDevices
                 THEN th' = [th EXCEPT ![t].pc = "take", ![t].dev = @ + 1]
                 ELSE Goto(t, "again")
    /\ UNCHANGED <<ctlVars, devVars, node, pollVars, app, held>>

\* Mutant: the loop does not look at mExitPending
LoopAgainMutant(t) ==
    /\ At(t, "again")
    /\ th' = [th EXCEPT ![t] = [NoThread EXCEPT !.pc = "count"]]
    /\ UNCHANGED <<ctlVars, devVars, node, pollVars, app, held>>

\* processPendingBuffers, the end of the loop
LoopAgain(t) ==
    /\ At(t, "again")
    /\ IF mExitPending
       THEN Return(t)
       ELSE th' = [th EXCEPT ![t] = [NoThread EXCEPT !.pc = "count"]]
    /\ UNCHANGED <<ctlVars, devVars, node, pollVars, app, held>>

ProcessPending(t) ==
    \/ CountBuffers(t) \/ CheckPending(t) \/ QueueAll(t) \/ TakePending(t)
    \/ PutFrame(t) \/ MoveToDevice(t) \/ ReleaseQueuing(t) \/ NextDevice(t)
    \/ LoopAgain(t)

\* External: an image processor is done with a raw buffer and returns it; its
\* threads run until PSysProcessor::stop has joined them
ReturnBuffer(c) ==
    /\ At(c, "idle")
    /\ \E d \in Devices : \E buffer \in held[d] :
       /\ qbuf(c, d, buffer)
       /\ held' = [held EXCEPT ![d] = @ \ {buffer}]
    /\ UNCHANGED <<ctlVars, mBuffersInDevice, mBufferQueuing, mFrameSkipNum, node,
                   pollVars, app>>

-----------------------------------------------------------------------------
(* The poll thread: Thread::_threadLoop around CaptureUnit::poll.           *)

PollAt(point) == poll.pc = point
PollGoto(point) == poll' = [poll EXCEPT !.pc = point]

\* poll returns: the thread ends on an error, or when it is asked to
ThreadEnds == mPollThread' = "EXITED" /\ poll' = NoPoll
ThreadGoesOn == IF mPollThread = "EXITING" THEN ThreadEnds
                ELSE poll' = [NoPoll EXCEPT !.pc = "entry"] /\ UNCHANGED mPollThread

\* _threadLoop: the thread run() created begins, unless an exit is requested
PollBegins ==
    /\ PollAt("begin") /\ ThreadGoesOn
    /\ UNCHANGED <<ctlVars, devVars, node, th, app, held>>

\* poll: the test of mState
PollEntry ==
    /\ PollAt("entry")
    /\ IF mState \in {"CAPTURE_CONFIGURE", "CAPTURE_START"}
       THEN PollGoto("loop") /\ UNCHANGED mPollThread
       ELSE ThreadEnds
    /\ UNCHANGED <<ctlVars, devVars, node, th, app, held>>

\* poll: the test of mExitPending before each wait
PollLoop ==
    /\ PollAt("loop")
    /\ IF mExitPending THEN ThreadEnds ELSE PollGoto("wait") /\ UNCHANGED mPollThread
    /\ UNCHANGED <<ctlVars, devVars, node, th, app, held>>

\* poll timed out: wait again, or leave the loop when the count is used up
PollTimeout ==
    /\ PollAt("wait")
    /\ PollGoto("loop") \/ PollGoto("timeout")
    /\ UNCHANGED <<ctlVars, devVars, node, mPollThread, th, app, held>>

Filled(d) == node[d].started /\ node[d].queue # <<>>

\* External: poll() reports frames, the flush pipe, or an error of a stopped node
PollReports ==
    /\ PollAt("wait")
    /\ \/ \E ready \in SUBSET {d \in Devices : Filled(d)} :
             /\ ready # {} \/ mFlushFd
             /\ poll' = [poll EXCEPT !.pc = "ready", !.ready = ready]
       \/ (\E d \in Devices : ~node[d].started) /\ PollGoto("error")
    /\ UNCHANGED <<ctlVars, devVars, node, mPollThread, th, app, held>>

\* poll after the loop: the second test of mExitPending.  A timeout is no error.
PollChecks ==
    /\ poll.pc \in {"ready", "timeout", "error"}
    /\ IF mExitPending \/ PollAt("error")
       THEN ThreadEnds
       ELSE IF PollAt("ready") /\ poll.ready # {}
            THEN PollGoto("first") /\ UNCHANGED mPollThread
            ELSE ThreadGoesOn
    /\ UNCHANGED <<ctlVars, devVars, node, th, app, held>>

\* the ready device poll() handles next
ReadyDevice == CHOOSE d \in poll.ready : \A e \in poll.ready : d <= e
DeviceDone == poll' = [poll EXCEPT !.pc = "handled", !.ready = @ \ {ReadyDevice}]

\* dequeueBuffer: getFirstDeviceBuffer
FirstInDevice ==
    /\ PollAt("first")
    /\ IF mBuffersInDevice[ReadyDevice] = <<>>
       THEN DeviceDone
       ELSE poll' = [poll EXCEPT !.pc = "grab",
                                 !.buffer = Head(mBuffersInDevice[ReadyDevice])]
    /\ UNCHANGED <<ctlVars, devVars, node, mPollThread, th, app, held>>

\* dequeueBuffer: VIDIOC_DQBUF writes the driver's index into the buffer, wherever
\* it is queued; needQueueBack decides whether the frame is skipped
GrabFrame ==
    /\ PollAt("grab")
    /\ LET d == ReadyDevice
           front == Head(node[d].queue)
           grabbed == [poll.buffer EXCEPT !.index = front]
       IN  IF ~Filled(d)
           THEN DeviceDone /\ UNCHANGED <<node, mBuffersInDevice>>
           ELSE /\ node' = [node EXCEPT ![d].queue = Tail(@)]
                /\ mBuffersInDevice' = [mBuffersInDevice EXCEPT ![d][1] = grabbed]
                /\ \E bad \in {FALSE, FrameErrors} :
                      poll' = [poll EXCEPT !.pc = "pop", !.buffer = grabbed,
                                           !.skip = bad \/ mFrameSkipNum[d] > 0]
    /\ UNCHANGED <<ctlVars, mPendingBuffers, mBufferQueuing, mFrameSkipNum,
                   mPollThread, th, app, held>>

\* Mutant: a skipped frame does not reach the callback
CallsBackMutant(d) == d = 1 /\ ~poll.skip
\* the main device calls onDequeueBuffer of the capture unit
CallsBack(d) == d = 1

\* dequeueBuffer: popBufferFromDevice, then the main device's callback
PopFromDevice ==
    /\ PollAt("pop")
    /\ LET d == ReadyDevice IN
       /\ mBuffersInDevice' = [mBuffersInDevice EXCEPT ![d] = Tail(@)]
       /\ mPendingBuffers' = IF poll.skip
                             THEN [mPendingBuffers EXCEPT ![d] = Append(@, poll.buffer)]
                             ELSE mPendingBuffers
       /\ IF CallsBack(d)
          THEN th' = [th EXCEPT !["poll"] = [NoThread EXCEPT !.pc = "count"]]
          ELSE UNCHANGED th
    /\ PollGoto("deliver")
    /\ UNCHANGED <<ctlVars, mBufferQueuing, mFrameSkipNum, node, mPollThread, app, held>>

\* Mutant: no test for zero
FramesToSkipMutant(d) == mFrameSkipNum[d] - 1
\* dequeueBuffer: the number of frames still to skip
FramesToSkip(d) == IF mFrameSkipNum[d] > 0 THEN mFrameSkipNum[d] - 1 ELSE 0

\* onDequeueBuffer after the callback: the frame goes to the consumers, unless it
\* is skipped; then dequeueBuffer counts the skipped frames
DeliverFrame ==
    /\ PollAt("deliver") /\ At("poll", "idle")
    /\ LET d == ReadyDevice IN
       /\ held' = IF poll.skip THEN held
                  ELSE [held EXCEPT ![d] = @ \cup {poll.buffer}]
       /\ mFrameSkipNum' = [mFrameSkipNum EXCEPT ![d] = FramesToSkip(d)]
    /\ DeviceDone
    /\ UNCHANGED <<ctlVars, mPendingBuffers, mBuffersInDevice, mBufferQueuing, node,
                   mPollThread, th, app>>

\* poll after a device: end on an exit, else the next ready device
PollHandled ==
    /\ PollAt("handled")
    /\ IF mExitPending
       THEN ThreadEnds
       ELSE IF poll.ready # {}
            THEN PollGoto("first") /\ UNCHANGED mPollThread
            ELSE ThreadGoesOn
    /\ UNCHANGED <<ctlVars, devVars, node, th, app, held>>

PollStep ==
    \/ PollBegins \/ PollEntry \/ PollLoop \/ PollTimeout \/ PollReports
    \/ PollChecks \/ FirstInDevice \/ GrabFrame \/ PopFromDevice \/ DeliverFrame
    \/ PollHandled

-----------------------------------------------------------------------------
(* The application's thread in CameraDevice::configure, start and stop.     *)

AppAt(point) == app.pc = point
AppGoto(point) == app' = [app EXCEPT !.pc = point]

\* CaptureUnit::configure: createDevices makes new devices
configure ==
    /\ AppAt("idle") /\ mState \in {"CAPTURE_INIT", "CAPTURE_CONFIGURE", "CAPTURE_STOP"}
    /\ mPendingBuffers' = [d \in Devices |-> <<>>]
    /\ mBuffersInDevice' = [d \in Devices |-> <<>>]
    /\ mBufferQueuing' = [d \in Devices |-> FALSE]
    /\ mFrameSkipNum' = [d \in Devices |-> 0]
    /\ node' = [d \in Devices |-> NewNode]
    /\ mState' = "CAPTURE_CONFIGURE" /\ mExitPending' = FALSE
    /\ UNCHANGED <<mFlushFd, th, pollVars, app, held>>

\* CameraDevice::startLocked: the processors allocate their buffers first
StartProcessors ==
    /\ AppAt("idle") /\ mState \in {"CAPTURE_CONFIGURE", "CAPTURE_STOP"}
    /\ app.session < MaxSessions
    /\ app' = [app EXCEPT !.pc = "alloc", !.next = 0, !.session = @ + 1]
    /\ UNCHANGED <<ctlVars, devVars, node, th, pollVars, held>>

\* allocProducerBuffers: one buffer after the other, port by port
AllocBuffer ==
    /\ AppAt("alloc") /\ At("app", "idle")
    /\ app.next < NumDevices * NumBuffers
    /\ LET d == (app.next \div NumBuffers) + 1
           index == app.next % NumBuffers
       IN  qbuf("app", d, [session |-> app.session, memory |-> index, index |-> index])
    /\ app' = [app EXCEPT !.next = @ + 1]
    /\ UNCHANGED <<ctlVars, mBuffersInDevice, mBufferQueuing, mFrameSkipNum, node,
                   pollVars, held>>

\* CaptureUnit::start: streamOn of every device, and the flush pipe is emptied.
\* No other thread touches the devices now.
StreamOn ==
    /\ AppAt("alloc") /\ At("app", "idle")
    /\ app.next = NumDevices * NumBuffers
    /\ mFrameSkipNum' = [d \in Devices |-> InitialSkipFrame]
    /\ node' = [d \in Devices |-> [node[d] EXCEPT !.started = TRUE]]
    /\ mFlushFd' = FALSE
    /\ AppGoto("run")
    /\ UNCHANGED <<mState, mExitPending, mPendingBuffers, mBuffersInDevice,
                   mBufferQueuing, th, pollVars, held>>

\* start: one device fails, streamOff stops the ones before it.  CameraDevice::start
\* calls stopLocked, where CaptureUnit::stop finds nothing started.
StreamOnFails ==
    /\ AppAt("alloc") /\ At("app", "idle") /\ StartMayFail
    /\ app.next = NumDevices * NumBuffers
    /\ \E failing \in Devices :
       /\ mFrameSkipNum' = [d \in Devices |-> IF d <= failing THEN InitialSkipFrame
                                              ELSE mFrameSkipNum[d]]
       /\ node' = [d \in Devices |-> IF d < failing THEN NewNode ELSE node[d]]
       /\ app' = [app EXCEPT !.pc = "stopProcessors", !.stopped = @ \/ failing > 1]
    /\ UNCHANGED <<ctlVars, mPendingBuffers, mBuffersInDevice, mBufferQueuing, th,
                   pollVars, held>>

\* start: mPollThread->run, then mState, then mExitPending
RunPollThread ==
    /\ AppAt("run")
    /\ IF mPollThread \in {"NOT_STARTED", "EXITED"}
       THEN mPollThread' = "RUNNING" /\ poll' = [NoPoll EXCEPT !.pc = "begin"]
       ELSE UNCHANGED pollVars
    /\ AppGoto("setStart")
    /\ UNCHANGED <<ctlVars, devVars, node, th, held>>

SetStart ==
    /\ \/ /\ AppAt("setStart") /\ mState' = "CAPTURE_START"
          /\ AppGoto("clearExit") /\ UNCHANGED mExitPending
       \/ /\ AppAt("clearExit") /\ mExitPending' = FALSE
          /\ AppGoto("idle") /\ UNCHANGED mState
    /\ UNCHANGED <<mFlushFd, devVars, node, th, pollVars, held>>

\* CaptureUnit::stop: mExitPending and the flush pipe, then requestExit
stop ==
    /\ AppAt("idle") /\ mState = "CAPTURE_START"
    /\ mExitPending' = TRUE /\ mFlushFd' = TRUE
    /\ app' = [app EXCEPT !.pc = "requestExit", !.stopped = TRUE]
    /\ UNCHANGED <<mState, devVars, node, th, pollVars, held>>

RequestExit ==
    /\ AppAt("requestExit")
    /\ mPollThread' = IF mPollThread = "RUNNING" THEN "EXITING" ELSE mPollThread
    /\ app' = [app EXCEPT !.pc = "streamOff", !.next = 1]
    /\ UNCHANGED <<ctlVars, devVars, node, th, poll, held>>

\* the next device of a loop over mDevices, or the point after the loop
NextOf(after) ==
    app' = IF app.next < NumDevices
           THEN [app EXCEPT !.next = @ + 1]
           ELSE [app EXCEPT !.next = 1, !.pc = after]

\* stop: VIDIOC_STREAMOFF takes every buffer back from the driver
StreamOff ==
    /\ AppAt("streamOff")
    /\ node' = [node EXCEPT ![app.next] = NewNode]
    /\ NextOf("exitAndWait")
    /\ UNCHANGED <<ctlVars, devVars, th, pollVars, held>>

\* stop: requestExitAndWait, then mState
ExitAndWait ==
    /\ AppAt("exitAndWait")
    /\ mPollThread \in {"NOT_STARTED", "EXITED"}
    /\ mState' = "CAPTURE_STOP"
    /\ AppGoto("reset")
    /\ UNCHANGED <<mExitPending, mFlushFd, devVars, node, th, pollVars, held>>

\* stop: resetBuffers of each device, then mExitPending
ResetBuffers ==
    /\ AppAt("reset")
    /\ mBuffersInDevice' = [mBuffersInDevice EXCEPT ![app.next] = <<>>]
    /\ mPendingBuffers' = [mPendingBuffers EXCEPT ![app.next] = <<>>]
    /\ NextOf("clearStop")
    /\ UNCHANGED <<ctlVars, mBufferQueuing, mFrameSkipNum, node, th, pollVars, held>>

ClearStop ==
    /\ AppAt("clearStop")
    /\ mExitPending' = FALSE
    /\ AppGoto("stopProcessors")
    /\ UNCHANGED <<mState, mFlushFd, devVars, node, th, pollVars, held>>

\* CameraDevice::stopLocked: the processors' threads are joined last, and the
\* processors drop the buffers they hold
StopProcessors ==
    /\ AppAt("stopProcessors")
    /\ \A c \in Consumers : At(c, "idle")
    /\ held' = [d \in Devices |-> {}]
    /\ AppGoto("idle")
    /\ UNCHANGED <<ctlVars, devVars, node, th, pollVars>>

AppStep ==
    \/ configure \/ StartProcessors \/ AllocBuffer \/ StreamOn \/ StreamOnFails
    \/ RunPollThread \/ SetStart \/ stop \/ RequestExit \/ StreamOff \/ ExitAndWait
    \/ ResetBuffers
    \/ ClearStop \/ StopProcessors

Next ==
    \/ \E t \in Threads : ProcessPending(t)
    \/ \E c \in Consumers : ReturnBuffer(c)
    \/ PollStep \/ AppStep

Spec == Init /\ [][Next /\ UNCHANGED setup]_<<vars, setup>>

-----------------------------------------------------------------------------
(* Properties.                                                             *)

Points     == {"idle", "count", "pending", "queueAll", "take", "put", "move",
               "release", "next", "again"}
PollPoints == {"none", "begin", "entry", "loop", "wait", "timeout", "error", "ready",
               "first", "grab", "pop", "deliver", "handled"}
AppPoints  == {"idle", "alloc", "run", "setStart", "clearExit", "requestExit",
               "streamOff", "exitAndWait", "reset", "clearStop", "stopProcessors"}

Calls     == [pc : Points, dev : Devices, buffer : Buffers, ok : BOOLEAN]
Nodes     == [started : BOOLEAN, queue : Seq(Indices)]
PollCalls == [pc : PollPoints, ready : SUBSET Devices, buffer : Buffers, skip : BOOLEAN]
AppCalls  == [pc : AppPoints, next : Nat, session : Nat, stopped : BOOLEAN]

\* The types of the members; the poll thread dequeues only from a ready device,
\* and the front of mBuffersInDevice stays while it is being dequeued.
TypeOK ==
    /\ mState \in {"CAPTURE_INIT", "CAPTURE_CONFIGURE", "CAPTURE_START", "CAPTURE_STOP"}
    /\ mExitPending \in BOOLEAN /\ mFlushFd \in BOOLEAN
    /\ mPendingBuffers \in [Devices -> Seq(Buffers)]
    /\ mBuffersInDevice \in [Devices -> Seq(Buffers)]
    /\ mBufferQueuing \in [Devices -> BOOLEAN] /\ mFrameSkipNum \in [Devices -> Nat]
    /\ node \in [Devices -> Nodes] /\ th \in [Threads -> Calls]
    /\ mPollThread \in {"NOT_STARTED", "RUNNING", "EXITING", "EXITED"}
    /\ poll \in PollCalls /\ app \in AppCalls
    /\ held \in [Devices -> SUBSET Buffers]
    /\ poll.pc \in {"first", "grab", "pop", "deliver"} => poll.ready # {}
    /\ poll.pc \in {"grab", "pop"} => mBuffersInDevice[ReadyDevice] # <<>>

\* The room in the main device is checked in one critical section and used in
\* another: each of the threads that can be in between takes at most one buffer
\* more than mMaxBuffersInDevice allows.
InDeviceBound ==
    Len(mBuffersInDevice[1]) <= mMaxBuffersInDevice + Cardinality(Consumers)

\* what a buffer is, whatever index the driver wrote into it
Memory(buffer) == <<buffer.session, buffer.memory>>
Listed(d) == mPendingBuffers[d] \o mBuffersInDevice[d]

\* A buffer is in mPendingBuffers or in mBuffersInDevice, once, and the consumers
\* do not hold it at the same time: two frames are never captured into it.
BufferInOnePlace ==
    \A d \in Devices :
        /\ \A m, n \in DOMAIN Listed(d) :
              Memory(Listed(d)[m]) = Memory(Listed(d)[n]) => m = n
        /\ \A n \in DOMAIN Listed(d) : \A buffer \in held[d] :
              Memory(Listed(d)[n]) # Memory(buffer)

Any(S) == CHOOSE x \in S : TRUE

\* the buffers a device thinks the driver holds: not the one just taken out, and
\* the one just put in
InDriver(d) ==
    LET moving == {t \in Threads : At(t, "move") /\ th[t].dev = d}
        queued == IF PollAt("pop") /\ ReadyDevice = d
                  THEN Tail(mBuffersInDevice[d]) ELSE mBuffersInDevice[d]
    IN  IF moving = {} THEN queued
        ELSE Append(queued, th[Any(moving)].buffer)

\* Until the first streamOff of a node that streams, in stop() or when the start of a
\* second device fails, mBuffersInDevice lists the buffers in the order in which
\* the driver holds them, whichever thread queued them: the frame dequeueBuffer()
\* grabs is in the buffer it took from the list.
DriverInStep ==
    ~app.stopped => \A d \in Devices :
        /\ Len(node[d].queue) = Len(InDriver(d))
        /\ \A n \in DOMAIN node[d].queue : node[d].queue[n] = InDriver(d)[n].index

Capturing == mState = "CAPTURE_START" /\ ~mExitPending /\ ~app.stopped

\* While the first capture goes on, a buffer the processors returned does not stay
\* pending: mBufferQueuing makes a second thread give up, not lose, its turn.
BufferReachesDriver ==
    \A memory \in UNION {0..(s.buffers - 1) : s \in Setups} :
        LET Pending == \E n \in DOMAIN mPendingBuffers[1] :
                          mPendingBuffers[1][n].memory = memory
        IN  (Capturing /\ Pending) ~> (~Pending \/ ~Capturing)

\* stop() returns: the poll thread sees mExitPending or ends by itself, and no
\* consumer stays in qbuf.
StopReturns == AppAt("requestExit") ~> AppAt("idle")

=============================================================================
