--------------------------- MODULE PSysProcessor ---------------------------
(***************************************************************************)
(* The processor of one camera: src/src/core/PSysProcessor.cpp with the     *)
(* queues of BufferQueue.cpp.  Its thread pairs raw frames of the capture   *)
(* unit with the output buffers of a request and makes a task of them; the  *)
(* threads of the PSysDAG return the outputs and then the task.             *)
(*                                                                         *)
(* Around it: the request thread, which queues one buffer per stream        *)
(* (CameraDevice::handleQueueBuffer), the capture unit, which owns NumRaw   *)
(* raw buffers, and the application, which starts and stops the camera.     *)
(* One action is one critical section of mBufferQueueLock or mBufferMapLock.*)
(***************************************************************************)
EXTENDS Integers, Sequences, FiniteSets, SequencesExt

CONSTANTS
    NumPorts,         \* output ports 1..NumPorts, one per stream
    RawPorts,         \* what configure() may find as mOpaqueRawPort, 0: none
    NumRaw,           \* raw buffers of the producer
    RawLimit,         \* getMaxRawDataNum - getMaxRequestsInflight
    TuningModeOf,     \* external, AiqResultStorage: sequence -> tuning mode
    DefaultMode,      \* the mode configure() sets up last
    SkippedFrames,    \* external, AiqResultStorage: the sequences with mSkip, for
                      \* each of RawPorts
    RequestKinds,     \* streams a request has a buffer for
    SwitchMayTimeOut, \* a frame may take more than a second in the pipeline
    SettingSteps,     \* for each request: the effect sequences 3A may give it, counted
                      \* from the last one; 0 when 3A does not run for it
    MaxFrames,        \* bound: sequences of one session
    MaxTasks,         \* bound: tasks in the PSysDAG
    MaxSessions,      \* bound: starts; each but the first costs a request and a frame
    MaxBefore         \* bound: requests, and frames of the session, before a restart

Ports == 1..NumPorts
MaxRequests == Len(SettingSteps)
Sequences0 == 0..(MaxFrames - 1)

ASSUME ProcessorAssumption ==
    /\ NumPorts \in Nat \ {0}
    /\ RawPorts \subseteq {0} \cup Ports /\ RawPorts # {}
    /\ NumRaw \in Nat \ {0} /\ RawLimit \in Nat
    /\ MaxFrames \in Nat \ {0} /\ MaxTasks \in Nat \ {0}
    /\ SettingSteps \in Seq(SUBSET Nat) /\ {MaxSessions, MaxBefore} \subseteq Nat
    /\ SkippedFrames \in [RawPorts -> SUBSET Sequences0]
    /\ DOMAIN TuningModeOf = Sequences0 /\ DefaultMode \in Range(TuningModeOf)
    /\ RequestKinds \subseteq SUBSET Ports
    /\ SwitchMayTimeOut \in BOOLEAN

VARIABLES
    mThreadRunning, mInputQueue, mOutputQueue, mSequencesInflight,
    mRawBufferMap, mOpaqueRawPort, mCurConfigMode,
    th,              \* the process thread: control point and locals
    tasks,           \* mOngoingTasks of the PSysDAG, in the order they were added, and
                     \* the tasks that are being returned
    requests,        \* requests handed over, the port to queue next and the
                     \* sequence of the last settings
    cam,             \* the camera: state, session, frames captured; history: a task
                     \* of the session before runs in this one, an output was counted
                     \* for a task an earlier session had dropped, the queues were
                     \* cleared between two ports of a request
    captured,        \* raw frames the producer gave away and did not get back
    rawWithProducer, \* raw buffers the producer has
    delivered        \* port -> requests whose buffer went back to the stream

queueVars == <<mInputQueue, mOutputQueue>>
rawVars   == <<mRawBufferMap, captured, rawWithProducer>>
envVars   == <<requests, cam>>
vars == <<mThreadRunning, queueVars, mSequencesInflight, rawVars, mOpaqueRawPort,
          mCurConfigMode, th, tasks, envVars, delivered>>

-----------------------------------------------------------------------------
(* Frames, buffers and tasks.                                              *)

\* A frame is known by its session and sequence.
Frame(session, seq) == session * MaxFrames + seq
SequenceOf(frame) == frame % MaxFrames
NoFrame == -1

\* The output of a request on a port is the number of the request, 0 when the
\* request has no buffer for that stream (nullptr).
NoBuffers == [p \in Ports |-> 0]
ValidPorts(buffers) == {p \in Ports : buffers[p] # 0}

\* getSettingSequence: the one of the first valid buffer
getSettingSequence(buffers) ==
    IF ValidPorts(buffers) = {} THEN -1
    ELSE requests.list[buffers[Min(ValidPorts(buffers))]].setting

needSkipOutputFrame(seq) == seq \in SkippedFrames[mOpaqueRawPort]
needExecutePipe(setting, seq) == setting = -1 \/ seq >= setting
needHoldOnInputFrame(setting, seq) == setting # -1 /\ seq > setting

\* the starts of the camera that count against the bounds
Restarts == IF cam.session = 0 THEN 0 ELSE cam.session - 1

IdleThread(point) == [pc |-> point, src |-> NoFrame, dst |-> NoBuffers,
                      hasRawInput |-> FALSE]

InflightIsEmpty == \A seq \in Sequences0 : mSequencesInflight[seq] = 0

\* BufferProducer::qbuf: a raw frame goes back to the capture unit
GiveBack(frames) ==
    /\ captured' = captured \ frames
    /\ rawWithProducer' = rawWithProducer + Cardinality(frames)

\* isBufferHoldForRawReprocess, looked up by sequence
isBufferHoldForRawReprocess(frame) ==
    \E f \in mRawBufferMap : SequenceOf(f) = SequenceOf(frame)

\* the frame goes back unless it is kept for reprocessing
GiveBackUnlessHeld(frame) ==
    GiveBack({f \in {frame} : ~isBufferHoldForRawReprocess(f)})

-----------------------------------------------------------------------------
Init ==
    /\ mThreadRunning = FALSE
    /\ mInputQueue = <<>> /\ mOutputQueue = [p \in Ports |-> <<>>]
    /\ mSequencesInflight = [seq \in Sequences0 |-> 0]
    /\ mRawBufferMap = {} /\ mOpaqueRawPort \in RawPorts
    /\ mCurConfigMode = DefaultMode
    /\ th = IdleThread("exited")
    /\ tasks = <<>>
    /\ requests = [list |-> <<>>, port |-> 0, last |-> -1]
    /\ cam = [state |-> "stopped", session |-> 0, frames |-> 0, late |-> FALSE,
              stale |-> FALSE, torn |-> FALSE]
    /\ captured = {} /\ rawWithProducer = NumRaw
    /\ delivered = [p \in Ports |-> <<>>]

-----------------------------------------------------------------------------
(* The process thread.                                                     *)

ThAt(point) == th.pc = point
Goto(point) == th' = [th EXCEPT !.pc = point]
Setting == getSettingSequence(th.dst)
Seq0 == SequenceOf(th.src)

\* processNewFrame: waitFreeBuffersInQueue found a buffer on every port.  When it
\* times out, or the SOF the frame is aligned with is still to come, the thread
\* calls it again.
waitFreeBuffersInQueue ==
    /\ ThAt("loop") /\ mThreadRunning
    /\ mInputQueue # <<>> /\ \A p \in Ports : mOutputQueue[p] # <<>>
    /\ th' = [pc |-> IF mOpaqueRawPort = 0 THEN "pop" ELSE "raw",
              src |-> Head(mInputQueue),
              dst |-> [p \in Ports |-> Head(mOutputQueue[p])],
              hasRawInput |-> FALSE]
    /\ UNCHANGED <<mThreadRunning, queueVars, mSequencesInflight, rawVars,
                   mOpaqueRawPort, mCurConfigMode, tasks, envVars, delivered>>

\* processNewFrame returns -1 once the processor is stopped
ThreadExits ==
    /\ ThAt("loop") /\ ~mThreadRunning
    /\ th' = IdleThread("exited")
    /\ UNCHANGED <<mThreadRunning, queueVars, mSequencesInflight, rawVars,
                   mOpaqueRawPort, mCurConfigMode, tasks, envVars, delivered>>

\* CameraStream::onFrameAvailable for these buffers
Deliver(buffers) ==
    delivered' = [p \in Ports |-> IF buffers[p] = 0 THEN delivered[p]
                                  ELSE Append(delivered[p], buffers[p])]

\* handleRawReprocessing: return the opaque raw buffer, or take the raw frame the
\* request names out of the ones that are kept
handleRawReprocessing ==
    /\ ThAt("raw")
    /\ LET raw == [NoBuffers EXCEPT ![mOpaqueRawPort] = th.dst[mOpaqueRawPort]]
           kept == {f \in mRawBufferMap : SequenceOf(f) = Setting}
       IN  IF raw # NoBuffers
           THEN IF needExecutePipe(Setting, Seq0)
                THEN Deliver(raw) /\ Goto("save")
                ELSE Goto("pop") /\ UNCHANGED delivered
           ELSE /\ IF needHoldOnInputFrame(Setting, Seq0) /\ kept # {}
                   THEN th' = [th EXCEPT !.pc = "pop", !.src = Min(kept),
                                         !.hasRawInput = TRUE]
                   ELSE Goto("pop")
                /\ UNCHANGED delivered
    /\ UNCHANGED <<mThreadRunning, queueVars, mSequencesInflight, rawVars,
                   mOpaqueRawPort, mCurConfigMode, tasks, envVars>>

\* no task of this sequence is in flight
Unused(frame) == mSequencesInflight[SequenceOf(frame)] = 0

\* returnRawBuffer, with both locks: the oldest kept frame goes back when there
\* are too many and it is not in use
ReturnRaw ==
    IF Cardinality(mRawBufferMap) > RawLimit /\ Unused(Min(mRawBufferMap))
    THEN /\ GiveBack({Min(mRawBufferMap)})
         /\ mRawBufferMap' = mRawBufferMap \ {Min(mRawBufferMap)}
    ELSE UNCHANGED rawVars

\* saveRawBuffer: keep the raw frame, then return an old one
SaveRaw ==
    /\ ThAt("save")
    /\ mRawBufferMap' = mRawBufferMap \cup {th.src}
    /\ Goto("saved")
    /\ UNCHANGED <<mThreadRunning, queueVars, mSequencesInflight, captured,
                   rawWithProducer, mOpaqueRawPort, mCurConfigMode, tasks, envVars,
                   delivered>>

SavedRaw ==
    /\ ThAt("saved")
    /\ ReturnRaw
    /\ LET rest == [th.dst EXCEPT ![mOpaqueRawPort] = 0]
       IN  th' = [th EXCEPT !.dst = IF rest = NoBuffers THEN @ ELSE rest,
                            !.pc = IF rest = NoBuffers THEN "allDone" ELSE "pop"]
    /\ UNCHANGED <<mThreadRunning, queueVars, mSequencesInflight, mOpaqueRawPort,
                   mCurConfigMode, tasks, envVars, delivered>>

PopOutputs == mOutputQueue' = [p \in Ports |-> Tail(mOutputQueue[p])]

\* prepareTask: the request wanted the raw frame only
AllBufDone ==
    /\ ThAt("allDone")
    /\ PopOutputs /\ mInputQueue' = Tail(mInputQueue)
    /\ th' = IdleThread("loop")
    /\ UNCHANGED <<mThreadRunning, mSequencesInflight, rawVars, mOpaqueRawPort,
                   mCurConfigMode, tasks, envVars, delivered>>

\* Mutant: a frame that is kept for the next request leaves the queue
PopsInputMutant == ~th.hasRawInput
\* the input leaves its queue unless a later request may use it as well
PopsInput == ~needHoldOnInputFrame(Setting, Seq0) /\ ~th.hasRawInput

\* Mutant: the outputs stay in their queues while the frame is held
PopsOutputMutant ==
    needExecutePipe(Setting, Seq0) /\ ~needSkipOutputFrame(Seq0) /\ PopsInput
\* the outputs leave their queues unless the frame is skipped
PopsOutput == needExecutePipe(Setting, Seq0) /\ ~needSkipOutputFrame(Seq0)

\* prepareTask: take the buffers out of their queues.  No virtual channel blanking period
\* is waited for (needSetVbp) and no stream is written by outputRawImage (mRawPort).
PopQueues ==
    /\ ThAt("pop")
    /\ IF PopsOutput THEN PopOutputs ELSE UNCHANGED mOutputQueue
    /\ mInputQueue' = IF PopsInput THEN Tail(mInputQueue) ELSE mInputQueue
    /\ Goto(IF needExecutePipe(Setting, Seq0) THEN "dispatch" ELSE "skip")
    /\ UNCHANGED <<mThreadRunning, mSequencesInflight, rawVars, mOpaqueRawPort,
                   mCurConfigMode, tasks, envVars, delivered>>

\* prepareTask: an input older than the request's settings goes back at once
SkipInput ==
    /\ ThAt("skip")
    /\ GiveBackUnlessHeld(th.src)
    /\ th' = IdleThread("loop")
    /\ UNCHANGED <<mThreadRunning, queueVars, mSequencesInflight, mRawBufferMap,
                   mOpaqueRawPort, mCurConfigMode, tasks, envVars, delivered>>

InsertInflight == mSequencesInflight' = [mSequencesInflight EXCEPT ![Seq0] = @ + 1]

\* Mutant: the pipe is switched at once
MustDrainMutant == FALSE
\* a switch of the pipe waits until nothing is in flight
MustDrain == TuningModeOf[Seq0] # mCurConfigMode /\ ~InflightIsEmpty

\* dispatchTask: the mode changes before the wait
Dispatch ==
    /\ ThAt("dispatch")
    /\ mCurConfigMode' = TuningModeOf[Seq0]
    /\ IF MustDrain
       THEN Goto("switch") /\ UNCHANGED mSequencesInflight
       ELSE Goto("add") /\ InsertInflight
    /\ UNCHANGED <<mThreadRunning, queueVars, rawVars, mOpaqueRawPort, tasks,
                   envVars, delivered>>

SwitchPipe ==
    /\ ThAt("switch") /\ mThreadRunning /\ InflightIsEmpty
    /\ Goto("add") /\ InsertInflight
    /\ UNCHANGED <<mThreadRunning, queueVars, rawVars, mOpaqueRawPort,
                   mCurConfigMode, tasks, envVars, delivered>>

\* dispatchTask gives the task up: the processor was stopped or the wait timed out
SwitchFails ==
    /\ ThAt("switch") /\ (~mThreadRunning \/ (SwitchMayTimeOut /\ ~InflightIsEmpty))
    /\ th' = IdleThread("loop")
    /\ UNCHANGED <<mThreadRunning, queueVars, mSequencesInflight, rawVars,
                   mOpaqueRawPort, mCurConfigMode, tasks, envVars, delivered>>

\* dispatchTask: the last check of mThreadRunning, with the lock, ...
CheckRunning ==
    /\ ThAt("add")
    /\ th' = IF mThreadRunning THEN [th EXCEPT !.pc = "queue"]
             ELSE IdleThread("loop")
    /\ UNCHANGED <<mThreadRunning, queueVars, mSequencesInflight, rawVars,
                   mOpaqueRawPort, mCurConfigMode, tasks, envVars, delivered>>

\* left: outputs still in the pipelines; missing: how many are still to be counted
NewTask == [input |-> th.src, outputs |-> th.dst, left |-> ValidPorts(th.dst),
            calling |-> {}, missing |-> Cardinality(ValidPorts(th.dst)), last |-> 0,
            mode |-> mCurConfigMode, stage |-> "run"]

\* ... and PSysDAG::addTask, without it
AddTask ==
    /\ ThAt("queue") /\ Len(tasks) < MaxTasks
    /\ tasks' = Append(tasks, NewTask)
    /\ th' = IdleThread("loop")
    /\ UNCHANGED <<mThreadRunning, queueVars, mSequencesInflight, rawVars,
                   mOpaqueRawPort, mCurConfigMode, envVars, delivered>>

ProcessThread ==
    \/ waitFreeBuffersInQueue \/ ThreadExits \/ handleRawReprocessing \/ SaveRaw
    \/ SavedRaw \/ AllBufDone \/ PopQueues \/ SkipInput \/ Dispatch \/ SwitchPipe
    \/ SwitchFails \/ CheckRunning \/ AddTask

-----------------------------------------------------------------------------
(* The threads of the PSysDAG call back.                                   *)

DagRuns == cam.state \in {"started", "stopping"}
SetStage(i, stage) == tasks' = [tasks EXCEPT ![i].stage = stage]

\* The task a returned output is counted for is the first one with its sequence and
\* its user buffer.  That is its own task, or one that was dropped by a stop: then the
\* application has the buffers of that one back and may have queued them again.
CountedFor(i, p) ==
    {i} \cup {k \in 1..(i - 1) :
                 /\ tasks[k].stage = "dropped" /\ tasks[k].missing # 0
                 /\ p \in ValidPorts(tasks[k].outputs)
                 /\ SequenceOf(tasks[k].input) = SequenceOf(tasks[i].input)}

\* External, PSysDAG::onFrameDone: an output of task i is counted, those of a port
\* in the order of the tasks
CountOutput(i, p) ==
    /\ DagRuns /\ p \in tasks[i].left /\ \A j \in 1..(i - 1) : p \notin tasks[j].left
    /\ \A j \in 1..(i - 1) : p \notin tasks[j].calling
    /\ \E k \in CountedFor(i, p) :
          /\ tasks' = [j \in DOMAIN tasks |->
                         [tasks[j] EXCEPT !.left = IF j = i THEN @ \ {p} ELSE @,
                                          !.calling = IF j = i THEN @ \cup {p} ELSE @,
                                          !.missing = IF j = k THEN @ - 1 ELSE @,
                                          !.last = IF j = k THEN p ELSE @]]
          /\ cam' = [cam EXCEPT !.stale = @ \/ k # i]
    /\ UNCHANGED <<mThreadRunning, queueVars, mSequencesInflight, rawVars,
                   mOpaqueRawPort, mCurConfigMode, th, requests, delivered>>

\* the thread in the callback of output p of task i has counted the last output of
\* task j, its own one or one that was dropped
CountedLast(j, i, p) ==
    /\ tasks[j].stage = IF j = i THEN "run" ELSE "dropped"
    /\ tasks[j].missing = 0 /\ tasks[j].last = p

\* onBufferDone gives the buffer to the stream unless the frame is skipped; the thread
\* that counted the last output of a task returns that task
onBufferDone(i, p) ==
    /\ p \in tasks[i].calling
    /\ IF needSkipOutputFrame(SequenceOf(tasks[i].input))
       THEN UNCHANGED delivered
       ELSE Deliver([NoBuffers EXCEPT ![p] = tasks[i].outputs[p]])
    /\ tasks' = [j \in DOMAIN tasks |->
                   [tasks[j] EXCEPT !.calling = IF j = i THEN @ \ {p} ELSE @,
                                    !.stage = IF CountedLast(j, i, p) THEN "inputs"
                                              ELSE @]]
    /\ UNCHANGED <<mThreadRunning, queueVars, mSequencesInflight, rawVars,
                   mOpaqueRawPort, mCurConfigMode, th, envVars>>

\* Mutant: a frame that is held for the next request goes back as well
FrameDoneMutant(i) ==
    /\ tasks[i].stage = "inputs"
    /\ GiveBackUnlessHeld(tasks[i].input)
    /\ SetStage(i, "erase")
    /\ UNCHANGED <<mThreadRunning, queueVars, mSequencesInflight, mRawBufferMap,
                   mOpaqueRawPort, mCurConfigMode, th, envVars, delivered>>
\* onFrameDone: the raw frame goes back unless it is kept
FrameDone(i) ==
    /\ tasks[i].stage = "inputs"
    /\ IF needHoldOnInputFrame(getSettingSequence(tasks[i].outputs),
                               SequenceOf(tasks[i].input))
       THEN UNCHANGED <<captured, rawWithProducer>>
       ELSE GiveBackUnlessHeld(tasks[i].input)
    /\ SetStage(i, "erase")
    /\ UNCHANGED <<mThreadRunning, queueVars, mSequencesInflight, mRawBufferMap,
                   mOpaqueRawPort, mCurConfigMode, th, envVars, delivered>>

\* Mutant: the tasks of frames that are kept are not counted out
EraseInflightMutant(i) ==
    /\ tasks[i].stage = "erase"
    /\ IF isBufferHoldForRawReprocess(tasks[i].input)
       THEN UNCHANGED mSequencesInflight
       ELSE mSequencesInflight' = [mSequencesInflight EXCEPT
                                     ![SequenceOf(tasks[i].input)] = @ - 1]
    /\ SetStage(i, "raw")
    /\ UNCHANGED <<mThreadRunning, queueVars, rawVars, mOpaqueRawPort,
                   mCurConfigMode, th, envVars, delivered>>
\* onFrameDone, under mBufferQueueLock: one task of the sequence less in flight
EraseInflight(i) ==
    /\ tasks[i].stage = "erase"
    /\ mSequencesInflight' = [mSequencesInflight EXCEPT
              ![SequenceOf(tasks[i].input)] = IF @ > 0 THEN @ - 1 ELSE 0]
    /\ SetStage(i, "raw")
    /\ UNCHANGED <<mThreadRunning, queueVars, rawVars, mOpaqueRawPort,
                   mCurConfigMode, th, envVars, delivered>>

\* onFrameDone: returnRawBuffer
FinishTask(i) ==
    /\ tasks[i].stage = "raw"
    /\ ReturnRaw
    /\ SetStage(i, "done")
    /\ UNCHANGED <<mThreadRunning, queueVars, mSequencesInflight, mOpaqueRawPort,
                   mCurConfigMode, th, envVars, delivered>>

\* nothing is left of a task whose threads have come back
ForgetTask(i) ==
    /\ tasks[i].stage = "done" /\ tasks[i].calling = {}
    /\ tasks' = RemoveAt(tasks, i)
    /\ UNCHANGED <<mThreadRunning, queueVars, mSequencesInflight, rawVars,
                   mOpaqueRawPort, mCurConfigMode, th, envVars, delivered>>

TaskStep(i) ==
    \/ \E p \in Ports : CountOutput(i, p) \/ onBufferDone(i, p)
    \/ FrameDone(i) \/ EraseInflight(i) \/ FinishTask(i) \/ ForgetTask(i)

DagThreads == \E i \in DOMAIN tasks : TaskStep(i)

-----------------------------------------------------------------------------
(* The request thread, the capture unit and the application.               *)

\* the sequence the settings of a new request belong to: not an earlier one than the
\* last request's, or, for reprocessing, one that is over
Settings(kind) ==
    {seq \in Sequences0 :
        \/ seq - requests.last \in SettingSteps[Len(requests.list) + 1]
        \/ mOpaqueRawPort \notin kind \cup {0} /\ seq < cam.frames}

\* CameraDevice::handleQueueBuffer begins with a request
NextRequest ==
    /\ requests.port = 0 /\ Len(requests.list) + Restarts < MaxRequests
    /\ cam.state \in {"stopped", "started"}
    /\ \E kind \in RequestKinds : \E setting \in Settings(kind) :
          requests' = [list |-> Append(requests.list,
                                       [ports |-> kind, setting |-> setting]),
                       port |-> 1,
                       last |-> Max({requests.last, setting})]
    /\ UNCHANGED <<mThreadRunning, queueVars, mSequencesInflight, rawVars,
                   mOpaqueRawPort, mCurConfigMode, th, tasks, cam, delivered>>

\* Mutant: nothing is queued for a stream the request has no buffer for
QueueOutputMutant ==
    /\ requests.port # 0
    /\ LET n == Len(requests.list)
       IN  mOutputQueue' = IF requests.port \in requests.list[n].ports
                           THEN [mOutputQueue EXCEPT ![requests.port] = Append(@, n)]
                           ELSE mOutputQueue
    /\ requests' = [requests EXCEPT !.port = IF @ = NumPorts THEN 0 ELSE @ + 1]
    /\ UNCHANGED <<mThreadRunning, mInputQueue, mSequencesInflight, rawVars,
                   mOpaqueRawPort, mCurConfigMode, th, tasks, cam, delivered>>
\* CameraStream::qbuf and BufferQueue::qbuf for one stream after the other, a null
\* buffer for a stream the request has none for
QueueOutput ==
    /\ requests.port # 0
    /\ LET n == Len(requests.list)
           buffer == IF requests.port \in requests.list[n].ports THEN n ELSE 0
       IN  mOutputQueue' = [mOutputQueue EXCEPT ![requests.port] = Append(@, buffer)]
    /\ requests' = [requests EXCEPT !.port = IF @ = NumPorts THEN 0 ELSE @ + 1]
    /\ UNCHANGED <<mThreadRunning, mInputQueue, mSequencesInflight, rawVars,
                   mOpaqueRawPort, mCurConfigMode, th, tasks, cam, delivered>>

\* External: the capture unit filled a raw buffer; BufferQueue::onFrameAvailable
onFrameAvailable ==
    /\ cam.state = "started" /\ rawWithProducer > 0 /\ cam.frames + Restarts < MaxFrames
    /\ LET frame == Frame(cam.session, cam.frames)
       IN  /\ mInputQueue' = Append(mInputQueue, frame)
           /\ captured' = captured \cup {frame}
    /\ cam' = [cam EXCEPT !.frames = @ + 1]
    /\ rawWithProducer' = rawWithProducer - 1
    /\ UNCHANGED <<mThreadRunning, mOutputQueue, mSequencesInflight, mRawBufferMap,
                   mOpaqueRawPort, mCurConfigMode, th, tasks, requests, delivered>>

\* External: the sensor sends a frame and the driver has no buffer for it
LoseFrame ==
    /\ cam.state = "started" /\ rawWithProducer = 0 /\ cam.frames + Restarts < MaxFrames
    /\ cam' = [cam EXCEPT !.frames = @ + 1]
    /\ UNCHANGED <<mThreadRunning, queueVars, mSequencesInflight, rawVars,
                   mOpaqueRawPort, mCurConfigMode, th, tasks, requests, delivered>>

\* PSysProcessor::start: new raw buffers, no frame kept, the thread runs
start ==
    /\ cam.state = "stopped" /\ cam.session < MaxSessions
    /\ cam.session > 0 => Max({Len(requests.list), cam.frames}) <= MaxBefore
    /\ cam' = [cam EXCEPT !.state = "started", !.session = @ + 1, !.frames = 0,
                          !.late = \E t \in Range(tasks) : t.stage # "dropped"]
    /\ mRawBufferMap' = {} /\ captured' = {} /\ rawWithProducer' = NumRaw
    /\ mThreadRunning' = TRUE
    /\ th' = IdleThread("loop")
    /\ UNCHANGED <<queueVars, mSequencesInflight, mOpaqueRawPort, mCurConfigMode,
                   tasks, requests, delivered>>

\* CameraDevice::stop: no request begins any more, mLastEffectSeq is cleared and the
\* capture unit is stopped before the processor
StopProducer ==
    /\ cam.state = "started"
    /\ cam' = [cam EXCEPT !.state = "stopping"]
    /\ requests' = [requests EXCEPT !.last = -1]
    /\ UNCHANGED <<mThreadRunning, queueVars, mSequencesInflight, rawVars,
                   mOpaqueRawPort, mCurConfigMode, th, tasks, delivered>>

\* stop: PSysDAG::stop joins the executors, which drop what they have not run; the
\* tasks stay in mOngoingTasks
StopDag ==
    /\ cam.state = "stopping"
    /\ \A t \in Range(tasks) : t.stage \in {"run", "dropped"} /\ t.calling = {}
    /\ tasks' = [j \in DOMAIN tasks |->
                   [tasks[j] EXCEPT !.left = {}, !.last = 0, !.stage = "dropped"]]
    /\ cam' = [cam EXCEPT !.state = "dagStopped", !.stale = FALSE]
    /\ UNCHANGED <<mThreadRunning, queueVars, mSequencesInflight, rawVars,
                   mOpaqueRawPort, mCurConfigMode, th, requests, delivered>>

\* stop: the process thread is told to exit
StopThread ==
    /\ cam.state = "dagStopped"
    /\ mThreadRunning' = FALSE
    /\ cam' = [cam EXCEPT !.state = "joining"]
    /\ UNCHANGED <<queueVars, mSequencesInflight, rawVars, mOpaqueRawPort,
                   mCurConfigMode, th, tasks, requests, delivered>>

\* stop: the thread is joined and the queues are cleared
clearBufferQueues ==
    /\ cam.state = "joining" /\ ThAt("exited")
    /\ mInputQueue' = <<>> /\ mOutputQueue' = [p \in Ports |-> <<>>]
    /\ cam' = [cam EXCEPT !.state = "stopped", !.torn = @ \/ requests.port > 1]
    /\ UNCHANGED <<mThreadRunning, mSequencesInflight, rawVars, mOpaqueRawPort,
                   mCurConfigMode, th, tasks, requests, delivered>>

Stopping == StopDag \/ StopThread \/ clearBufferQueues

Environment ==
    \/ NextRequest \/ QueueOutput \/ onFrameAvailable \/ LoseFrame \/ start
    \/ StopProducer \/ Stopping

Next == ProcessThread \/ DagThreads \/ Environment

Spec == Init /\ [][Next]_vars

\* The threads run, and stop() finishes.
FairSpec == Spec /\ WF_vars(ProcessThread) /\ WF_vars(DagThreads) /\ WF_vars(Stopping)

-----------------------------------------------------------------------------
(* Properties.                                                             *)

\* dispatchTask() switches the pipe only when everything in flight is processed:
\* no two tasks of different tuning modes are in the pipelines together, although
\* the mode is changed before the wait and tasks are added without the lock.  Except
\* in a session that begins with a task addTask() added after PSysDAG::stop().
ModesDoNotMix ==
    ~cam.late => \A t, u \in Range(tasks) :
        t.stage = "run" /\ u.stage = "run" => t.mode = u.mode

\* Every stream gets the buffers of its requests back in the order of the
\* requests, each at most once, also when a frame is skipped and its outputs are used
\* for the next one, when one raw frame serves several requests, and when an output is
\* counted for a task of an earlier session.  Unless the queues were torn apart as in
\* OneRequestPerTask, or the skipped frame had already gone back to an opaque raw
\* stream: the stream's buffer stays in its queue.
DeliveredInOrder ==
    ~cam.torn => \A p \in Ports : \A i, j \in DOMAIN delivered[p] :
        i < j => delivered[p][i] < delivered[p][j]

\* CameraDevice::handleQueueBuffer keeps the output queues in step with an empty
\* buffer for every stream a request does not name: the outputs of a task belong to
\* one request, although each queue is filled and each is popped on its own.  Unless
\* stop() cleared the queues while the request thread was between two of them.
OneRequestPerTask ==
    ~cam.torn => \A t \in Range(tasks) : \A p, q \in ValidPorts(t.outputs) :
        t.outputs[p] = t.outputs[q]

\* A raw buffer goes back to the producer once per capture, although prepareTask and
\* onFrameDone, of two threads, may both give back a frame that served several
\* requests.  With an opaque raw stream returnRawBuffer is a third way back, and may
\* take a frame between its choice for reprocessing and its entry in
\* mSequencesInflight.  Except in a session in which a task of an earlier one comes back,
\* with a buffer that the producer has replaced: it was added after PSysDAG::stop(), or
\* it was dropped and onFrameDone() matched it with an output of this session.
RawBuffersConserved ==
    mOpaqueRawPort = 0 /\ cam.state = "started" /\ ~cam.late /\ ~cam.stale
    => rawWithProducer + Cardinality(captured) = NumRaw

\* A raw frame the producer gave away waits in the input queue, is in the hands of
\* the thread, is the input of a task or is kept for reprocessing: none is lost,
\* whichever of the four ways back it takes.
RawAccounted ==
    cam.state = "started" =>
        captured \subseteq Range(mInputQueue) \cup {th.src} \cup mRawBufferMap
                            \cup {t.input : t \in Range(tasks)}

\* dispatchTask() never waits for ever for the pipe to drain: every task in flight
\* is counted out again, also the ones whose frame is held or was kept.  In the first
\* session: stop() leaves what it drops in mSequencesInflight.
SwitchEnds == cam.session = 1 /\ ThAt("switch") ~> ~ThAt("switch")

=============================================================================
