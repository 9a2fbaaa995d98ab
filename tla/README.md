# TLA+ model of the IPU6 camera HAL

This directory specifies the part of the camera HAL that is hard to test: the
threads of one open camera, the locks and condition variables between them, the
calls of the application that start, stop and restart them, and the table that
processes share. TLC checks small instances; for seven of the components TLAPS proves safety
properties, and that the request thread and the DAG implement what they promise their callers,
for every value of the parameters. `PROJECT.json` maps every definition to its
source lines and lists the hazards the properties are for.

## 1. The system

An application opens a camera (`CameraDevice`), configures streams, queues requests
(`qbuf`: buffers and settings), starts the device and takes finished frames
(`dqbuf`). Inside, five kinds of thread run:

| thread | code | what it does |
|---|---|---|
| application | `CameraDevice.cpp` | configure, qbuf, start, stop, deinit; other application threads block in dqbuf |
| request thread | `RequestThread.cpp` | takes pending requests, runs 3A, hands them to the processors |
| SOF thread | `SofSource.cpp` | turns start-of-frame interrupts into events |
| capture poll thread | `CaptureUnit.cpp`, `DeviceBase.cpp` | takes filled raw buffers out of the driver, queues empty ones |
| processor threads | `PSysProcessor.cpp`, `psysprocessor/` | turn raw frames into output frames, return the raw buffers |

They talk through three mechanisms: events (`EventSource::notifyListeners` runs the
listener's handler in the notifier's thread), buffer queues (`BufferQueue`,
`CaptureUnit::qbuf`), and a few flags (`mActive`, `mExitPending`, `mState`) that are
often read without a lock.

### Inventory

| component | state | operations | hard behaviour | what makes it correct |
|---|---|---|---|---|
| RequestThread | pending requests, requests in processing, trigger events, last SOF/applied/effect sequence, `mBlockRequest`, `mFirstRequest`, frame queues | processRequest, threadLoop, handleRequest, handleEvent, waitFrame, wait1stRequestDone, clearRequests, requestExit | three event threads and the application interleave; check and use in different critical sections; stop and restart overtake events | limit, order, no missed wake-up, clean restart, no starvation |
| CaptureUnit, DeviceBase | device state, `mExitPending`, pending and in-device lists, `mBufferQueuing`, skip count | configure, start, stop, qbuf, poll, queueBuffer, dequeueBuffer | ioctls without lock, several threads queue, stop against a late return | lists agree with the driver, one owner per buffer, stop returns |
| CameraDevice | device state | qbuf, dqbuf, start, stop, configure | `mDeviceLock` is not held while requests are handled | calls in each state, units started and stopped in order |
| Thread | NOT_STARTED, RUNNING, EXITING, EXITED | run, requestExit, requestExitAndWait, join | restart while exiting | a thread asked to exit ends |
| PSysProcessor, BufferQueue, CameraStream | input and output queues, sequences in flight, kept raw frames, configuration mode | qbuf, onFrameAvailable, prepareTask, dispatchTask, onBufferDone, onFrameDone | one raw frame serves several requests; three ways a raw frame goes back; the mode changes before the wait | outputs in order, raw frames neither lost nor doubled, modes do not mix |
| PSysDAG, PipeLiteExecutor | ongoing tasks, sequences whose PAL has run, queues and intermediate buffers of each executor | addTask, queueBuffers, processNewFrame, onFrameDone, start, stop | executors return outputs of one task at once, matched by pointer | every buffer and task comes back once, in order |
| PolicyManager | active flag, waiting and run counts | wait, setActive | timeouts leave counts | executors of a bundle run together, none is left asleep |
| IspParamAdaptor | buffers of ISP parameters by sequence | runIspAdapt, getIpuParameter | a buffer is reused while an executor reads another | parameters in use do not change |
| ShareReferBufferPool | rings of temporal references of two pipes | acquireBuffer, releaseBuffer | copy without lock, frames run again | the reference is the one that was found |
| SensorManager | exposure and gain maps by sequence | updateSensorExposure, handleSofEvent, reset | lost SOFs, prediction of the effective frame | each setting takes effect where it was predicted |
| AiqEngine, AiqResultStorage | rings of results and statistics, `mFirstAiqRunning` | run3A, handleEvent, acquire, update, lock | rings overwritten while read; statistics published before they are decoded | a result belongs to its frame, statistics in use stay those of their frame |
| CameraShm, CameraHal | semaphore, table of open cameras; devices of a process | acquire, open, close, release | processes that die, also with the semaphore | a camera is open in one process |
| SofSource, SyncManager, CameraScheduler, ParameterGenerator, CvfPrivacyChecker, GPUExecutor | see section 6 | | | not modelled |
| PlatformData, parsers, graph configuration, MediaControl, PG and CIPR, image processing, metadata | static or sequential | | | not modelled |

### How the modules fit together

```
 application -- RequestThread --(settings, output buffers)--> PSysProcessor --(tasks)--> PSysDAG
                  |  ^   ^                                     |        ^                |     |
        run3A     |  |   `---- events: SOF, frame, statistics --'        | raw      IspParamAdaptor
                  v  |                                                  |          ShareReferBufferPool
  AiqEngine = SensorManager + AiqResultStorage                    CaptureUnit
 other processes -- CameraHal = CameraShm
```

The composition is by modules that extend others (AiqEngine extends SensorManager and
AiqResultStorage, PSysDAG extends IspParamAdaptor, CameraHal extends CameraShm), and by
promises at the borders: TaskPipeline is what PSysProcessor relies on in its callbacks and
PSysDAG refines it; RequestPath is what the application relies on and RequestThread,
with CameraDevice and the processors, refines it. Every other neighbour appears in a module
as an external action that allows all the neighbour can do.

## 2. The modules

### RequestThread

State variables carry the names of the members. `rt` is the request thread (control
point, the request in its hands, the effect sequence), `app` the application's control
thread, `dq[s]` the thread blocked in dqbuf of stream `s`, `inbox[src]` the event a
source thread is in the middle of delivering, `pipe` the requests the processors hold.
`rt.lastHanded`, `app.firstDone`, `app.startOk` and `app.startFailed` are history variables for
properties.

One action is one critical section, or one unlocked access to `mActive`:

| code | actions |
|---|---|
| `threadLoop` | LoopTop, LoopTimeout, LoopWoken (with ChooseSequence), LoopCheckActive, fetchNextRequest, LoopReset |
| `handleRequest` | HandleBegin, HandleParams, HandleSave, HandleNotify, HandleFirst |
| `handleEvent` | Deliver reads `mActive`; HandleSof, HandleFrame, HandleStats, HandleFrameAvailable, HandleInsertFake take the lock later |
| `clearRequests`, `requestExit` | ClearActive, ClearFrames (one per stream), ClearQueue, RequestExit |
| `processRequest`, `waitFrame`, `wait1stRequestDone`, `configure` | the same names; Wait1stReturns, WaitFrameTimeout |
| `CameraDevice::start`, `stop` | StartReturns (with StartUnits), StopLocked, StopUnits |

External: `run3A` (3A and the prediction of SensorManager, a choice among the sequences
it can return), the SOF interrupt, and the processors (statistics, one frame per stream,
then frame done, in the order of the requests).

Assumptions: one control thread (qbuf, start and stop are not called concurrently), at
most one thread in dqbuf per stream, `reqWaitTimeout` not set, start is called in
`DEVICE_BUFFER_READY` only. A spurious wake-up of a condition variable is not a step of
its own. SOF sequences of a session count from 0.

### CaptureUnit

`mPendingBuffers[d]`, `mBuffersInDevice[d]`, `mBufferQueuing[d]` belong to device `d`
(device 1 is the MainDevice, the others DOL devices). `th[t]` is thread `t` in
`processPendingBuffers`, `poll` the poll thread, `node[d]` the V4L2 node (started, and
the indices in the driver's queue), `held[d]` the buffers the processors hold. A buffer is
the memory of one session together with the index in its `v4l2_buffer`, which
VIDIOC_DQBUF overwrites: that is how a wrong index becomes visible.

| code | actions |
|---|---|
| `processPendingBuffers`, `queueAllBuffers` | CountBuffers, CheckPending, QueueAll, NextDevice, LoopAgain |
| `DeviceBase::queueBuffer` | TakePending, PutFrame (external ioctl), MoveToDevice, ReleaseQueuing |
| `poll`, `Thread::_threadLoop` | PollBegins, PollEntry, PollLoop, PollTimeout, PollReports, PollChecks, PollHandled |
| `DeviceBase::dequeueBuffer` | FirstInDevice, GrabFrame, PopFromDevice, DeliverFrame |
| `configure`, `start`, `stop` | configure, StreamOn, StreamOnFails, RunPollThread, SetStart, stop, RequestExit, StreamOff, ExitAndWait, ResetBuffers, ClearStop |
| `CameraDevice::startLocked`, `stopLocked`, `allocProducerBuffers` | StartProcessors, AllocBuffer, StopProcessors |

ReturnBuffer is external: a processor thread gives a raw buffer back, until
`PSysProcessor::stop` has joined it, which is after `CaptureUnit::stop`.

A setup (number of devices and buffers, bad frames, failing starts, sessions) is chosen in
Init from the constant `Setups`, so that one run covers several small configurations.

Left out: `deinit`, the frame sync check, DOL devices that queue their own buffers, MMAP
allocation, and the preprocessing of a buffer (`onQueueBuffer`) as a source of errors.

### RequestPath and RequestRefinement

RequestPath says what the application may rely on without a word of threads: requests wait,
are processed and come back as frames, the oldest first and once per stream. A request that
waits, and a frame that nobody took, are dropped only while the camera is stopped (`active`). A
request that was handed over is lost in two ways only: StopProcessing, the second half of a stop
of a camera that runs, and FailToStart, a start that returns an error (`failed`), before the
camera runs; a running camera loses none. RequestRefinement maps the state of RequestThread to it:
waiting are the pending requests and the one the thread has in hand, processing are those in
`pipe`, frames those in the frame queues, the camera runs when mState is DEVICE_START, and
`app.startFailed` is what the last start() returned. A fake request has no counterpart. The
counters of RequestThread have none either: RequestPath says what becomes of a request, not
that `mRequestsInProcessing` is right after a failed start.

### PSysProcessor

A frame is a number made of session and sequence, an output buffer the number of its
request. `th` is the process thread, `tasks` what the DAG has in mOngoingTasks (with the outputs
still in the pipelines, those still to be counted, the callbacks under way and the stage of
onFrameDone), `captured` and `rawWithProducer` count the raw buffers from the producer's side,
`delivered` the buffers that went back to each stream.

PSysDAG::stop() drops what the executors have not run and leaves it in mOngoingTasks, in front of
the tasks of the next session, whose sequences begin at 0 again. A dropped task is never run, but
an output of a new task that has its sequence and its user buffer is counted for it
(`PSysDAG.cpp:684-697`), and when the last one is, its old raw frame goes back: CountOutput
chooses the task among CountedFor, and whoever ends the callback returns what CountedLast says.
Within a session the application queues a user buffer again only after its task is complete, and
a task that was added late takes no output of a new one: dropped tasks are the only ones that do.

Three fields of `cam` are history for the properties: `late`, this session began with a
task in the pipelines that was added after PSysDAG::stop(); `stale`, an output of this session was
counted for a dropped task; and `torn`, the queues were once cleared between two streams of a
request.

| code | actions |
|---|---|
| `processNewFrame`, `prepareTask` | waitFreeBuffersInQueue, ThreadExits, PopQueues, SkipInput, AllBufDone |
| `handleRawReprocessing`, `saveRawBuffer`, `returnRawBuffer` | handleRawReprocessing, SaveRaw, SavedRaw (with ReturnRaw) |
| `dispatchTask` | Dispatch, SwitchPipe, SwitchFails, CheckRunning, AddTask |
| `onBufferDone`, `onFrameDone` | onBufferDone, FrameDone, EraseInflight, FinishTask |
| `CameraDevice::handleQueueBuffer`, `BufferQueue` | NextRequest, QueueOutput, onFrameAvailable |
| `start`, `stop` | start, StopProducer, StopDag, StopThread, clearBufferQueues |

External: LoseFrame (the sensor), the sequences that settings belong to, and tuning modes and
skipped frames by sequence (AiqResultStorage). CountOutput, CountedFor and CountedLast are the part
of PSysDAG::onFrameDone that decides which task comes back.

### PSysDAG, IspParamAdaptor, TaskPipeline

A stream is a chain of executors; `ex[e]` is the thread of executor `e`, `ad` the process
thread inside addTask, `free[e]` the empty intermediate buffers `e` may fill. IspParamAdaptor
has the two maps of the parameters of a stream as a record and the operations on it as
operators; a run of the PAL is two steps, choice of the buffer and entry in the maps, because
executors look parameters up in between.

| code | actions |
|---|---|
| `addTask`, `prepareIpuParams`, `queueBuffers` | AddTask, PalDone, runIspAdapt, PalWritten, QueueInput, QueueOutput |
| `PipeLiteExecutor::processNewFrame`, `runPipe`, `notifyFrameDone` | Fetch, WaitPolicy, GetPal, RunFails, NotifyConsumer, ReturnInput, ThreadExits |
| `PolicyManager::wait`, `setActive` | WaitPolicy, WaitTimesOut, setActive |
| `PSysDAG::onFrameDone`, `returnBuffers` | onFrameDone, BufferDone, returnBuffers |
| `start`, `stop` | start, stopProcessing, notifyStop, JoinExecutor |

TaskPipeline is the abstract specification: the buffers of a port come back in the order of
the tasks, once each, a task once when all its buffers are counted, and a stop abandons the
rest. The variables `counted`, `called`, `finished`, `abandoned` record the callbacks for it.

### ShareReferBufferPool

`refer[pipe]` is the ring of a pipe, `content[b]` the frame the data in buffer `b` is of: the
label in the ring and the content can disagree, which is what RightReference is about. The
actions are the critical sections of acquireBuffer (AcquireBuffer, FindReference,
WaitTimesOut), the unlocked CopyReference, and ReleaseBuffer with the run of the program
group. NextFrame and ReprocessFrame stand for PSysProcessor and the raw frames it keeps, which
limit how far the two pipes are apart.

### SensorManager, AiqResultStorage, AiqEngine

`written[x]` is the history of register `x` of the sensor, one entry per frame, `waiting[x]`
the map of values to write at a SOF. A value is the number of the AE run it comes from, so
that the result found for a frame can be compared with what the frame was exposed with. AiqEngine
puts the threads around: the request thread in run3A (run3A, runAiq with setStatsParams,
SkipResult, done, UnlockStats, Return, and GiveUp for a request that is too early), the SOF thread
(SensorFrame, handleEvent, RequestsSof), the executor in decodeStatsData, and startEngine. The
pipelines only read.

A slot of the statistics ring holds no statistics: it says of which frame they are
(`mSequence`, `mTimestamp`) and whether they wait to be decoded (`mPendingDecode`). What was decoded
last is in IntelCca (`decodedStats`). decodeStatsData takes four steps: AcquireStats, FillStats
(outside the lock), UpdateStats, which publishes the slot, and DecodeStats after that, unless
isStatsRunningRateSupport leaves it to 3A: then setStatsParams decodes in the run (`AiqCore.cpp:303`).
3A may thus lock statistics that are not decoded yet; it computes with `run.data`.

Assumptions: decodeStats does not fail, IntelCca still has the hardware buffer 3A asks for, no
result asks for RGBS callbacks, and getAiqRunningInterval() is 1, so that no run copies the last
result instead of computing one (`AiqEngine.cpp:393-396`).

### CameraShm and CameraHal

A process runs once: it loads the library (openSemLock, OpenSem, TestSem, UnlinkSem,
RecreateSem, acquireSharedMemory), opens and closes cameras (deviceOpen, CheckStatus, MarkOpened,
Opened; deviceClose, Closing, CloseNothing) and unloads it (Unload, releaseSharedMemory)
or dies at any point (Crash), also with the semaphore taken. A wait for the semaphore
times out only when its holder is dead: the critical sections are short. Pids are not reused.

## 3. The runs

| run | instance | checks |
|---|---|---|
| perframe | per-frame control, fake requests and reprocessing, 2 requests, 1 SOF per session, 2 sessions, 2 in flight, start may fail | TypeOK, NoFrameWhileWaiting, NoSleeperAfterClear, HandedOverInOrder, refinement ImplementsPath |
| isys | raw frames pace the requests, 2 requests, 2 sessions, 1 in flight | InflightBound, ClearedStateIsClean, and under fairness PendingIsServed, ThreadExits |
| first_doc | 2 requests, 2 sessions | refutes the header's text on wait1stRequestDone |
| capture | 4 buffers, limit 2, 2 frames to skip, 1 session | InDeviceBound, DriverInStep, and under fairness BufferReachesDriver |
| restart | 2 buffers, 2 sessions, start may fail; 3 buffers and bad frames; 2 devices of a DOL sensor, start may fail | TypeOK, BufferInOnePlace, DriverInStep, and under fairness StopReturns |
| poll_doc | 2 buffers, 2 sessions | refutes the header's text on CaptureUnit::start |
| dequeue_doc | 2 buffers, 2 sessions | refutes the header's text on mBuffersInDevice |
| psys | 2 streams, with and without an opaque raw stream, 2 raw buffers, 3 frames, 3 requests, a skipped frame and a switch of the tuning mode, a restart after at most one frame and one request that leaves two of each | ModesDoNotMix, DeliveredInOrder, OneRequestPerTask, RawBuffersConserved, RawAccounted, and under fairness SwitchEnds |
| dag | a chain of two bundled executors and one of one, 3 tasks, 2 in flight, held frames, PAL queue of 2, a pipe that may fail, 1 session | TypeOK, BufferFindsTask, InterConserved, PalStable, RunTogether, SleepersCounted, refinement ImplementsPipeline, and under fairness TaskComesBack |
| hal | 3 processes, 2 at a time, 2 cameras of a virtual channel group; symmetric in both | TypeOK, Exclusive, MarksTrue, Released |
| aiq | a sensor with exposure lag 1 and a gain of lag 0, 5 frames, 6 runs, 1 lost SOF, 1 tuning mode switch, 2 sessions, with and without per-frame control, statistics decoded by the executor or by 3A | TypeOK, ResultOfFrame, StatsWhole, EffectsInOrder |
| tnr | 3 raw buffers, 2 tasks in flight, 6 frames, kept frames run again by the still pipe | Sorted, RightReference |

Why the bounds are enough to be interesting: two sessions let every event, request and
buffer of the first one arrive in the second; two requests beyond the limit make the
queue, the limit and the trigger events interact; four buffers are enough to exceed a
limit of two by the one buffer the race allows, and two frames to skip empty the driver
completely. Three requests with steps 0, 1 and 2 between their settings make a raw frame held,
skipped, passed over and run again. Three tasks with two in flight use the parameter queue of two
all round. Three processes are needed for a crash, its recovery and a witness. A ring of
seven results is the smallest that the runs of the instance do not overrun; six frames turn a reference ring of three twice. In psys a camera is stopped and started again after its first request
(MaxBefore = 1), and the restart costs a request and a frame of the bounds: enough for a dropped
task to be matched with an output of the next session and for a late task to live into it. dag has
one session because a second one exceeds what TLC does in minutes; over any number of restarts the
properties of these two modules that section 4 lists are proved.
CHECK_DEADLOCK is off because the application may stop calling and the counters
(MaxRequests, MaxSof, MaxSessions, MaxBefore, MaxFrames, MaxTasks, MaxRuns, LastFrame) are bounded.

**Fairness.** Every HAL thread, once runnable, goes on (the operating system's scheduler);
a call the application has made goes on; a streaming sensor fills the buffers the driver
has; the processors finish the requests and return the buffers they hold. Nothing is
assumed of the application: it need never call again. PollReports needs strong
fairness, because each poll may also time out first. In PSysDAG the fairness is that of all
its threads together: a pipe that runs comes to an end and a wait ends by its timeout at
the latest; a failure (RunFails) is never forced. In PSysProcessor the process thread, the
threads of the DAG and a stop under way go on. PendingIsServed is checked without failing
starts: after one, the processors have dropped requests that are still counted. SwitchEnds is
checked in the first session: what a stop drops stays in mSequencesInflight, and a later switch of
the pipe may wait for it until its timeout.

### What the refuted texts show

* **first_doc**: a request that is between fetch and the end of `handleRequest` when
  stop() runs clears `mFirstRequest` after `clearRequests` has set it. The next start()
  does not wait for its first request (`RequestThread.cpp:461-468`, `:91`).
* **poll_doc**: `CaptureUnit::start` runs the poll thread before `mState = CAPTURE_START`.
  After a stop the thread may read CAPTURE_STOP, return an error and end; no frame is
  captured in that session (`CaptureUnit.cpp:200-201`, `:386`).
* **dequeue_doc**: a processor thread in `queueBuffer` during stop() puts its index into
  the driver after STREAMOFF; the lists are then reset and the next session dequeues an
  index that belongs to another buffer (`DeviceBase.cpp:163-171`, `:200`).

### Where a property stops

Each of these conditions in a property or an instance marks a case in which the code does not
keep it; TLC finds a counterexample when the condition is dropped or the constant changed.

| property | condition | without it |
|---|---|---|
| DriverInStep | until the first streamOff of a streaming node, in stop() or in a failing start | STREAMON of the second device fails, the first one's list is not reset (`CaptureUnit.cpp:190`) |
| InterConserved | one buffer more after a restart | with MaxSessions = 2, a consumer returns its input after stop() cleared the producer's queue |
| OneRequestPerTask, DeliveredInOrder | queues not torn apart (`cam.torn`) | stop() holds mDeviceLock, handleQueueBuffer does not: it clears the queues between two streams of a request (`CameraDevice.cpp:867`), which are out of step ever after |
| DeliveredInOrder | no frame skipped that goes to an opaque raw stream (SkipOne in the instance, NoSkipWithRaw in the theorem) | handleRawReprocessing returns the raw buffer, then the frame is skipped and the queues are not popped (`PSysProcessor.cpp:921`): the buffer is returned twice |
| RawBuffersConserved | no output was counted for a dropped task (`cam.stale`) | PSysDAG::stop() leaves the tasks it drops in mOngoingTasks (`PSysDAG.cpp:573`); one that is matched with buffers of the next session returns its old raw frame, of buffers the producer has replaced, and the matching task never comes back |
| SwitchEnds | the first session | mSequencesInflight keeps what a stop dropped (`PSysProcessor.cpp:215-243`) |
| StatsWhole | the data 3A computes with are those it locked, or the ones before, or newer ones | a slot is published before it is decoded (`IspParamAdaptor.cpp:345`, `:365`): 3A may lock it in between |
| ModesDoNotMix, RawBuffersConserved | no task added after PSysDAG::stop() at start() (`cam.late`) | addTask runs without the lock, also after PSysDAG::stop(): the task lives into the next session, with its mode and with a raw frame of buffers that have been replaced |
| ModesDoNotMix, RawAccounted | SwitchMayTimeOut = FALSE | the wait of dispatchTask ends after its timeout (`PSysProcessor.cpp:1035`), the mode is already the new one and the frame is dropped |
| RawBuffersConserved | no opaque raw stream | with NumRaw = 3, returnRawBuffer gives a frame back between its choice for reprocessing and its entry in mSequencesInflight, and onFrameDone gives it back again |
| PalStable | tasks of another sequence | the second task of a held frame reruns the PAL into the buffer an executor runs with for the first |
| PalStable | MaxInflight <= PalSize (2 and 2 in the instance) | with one task more than buffers, the AIC run for the newest task takes the buffer of the oldest, which is still in work |
| PalStable | the PAL runs again for a sequence that comes again (`NotRun["again"] = {}`) | the second node of the sequence shares the buffer of the first (`IspParamAdaptor.cpp:486`); when the first is erased, two later sequences get one buffer |
| PalStable | sequences do not go back (SequenceSteps) | a frame reprocessed from an old raw buffer has the lowest sequence of the queue, and its own buffer is the one taken next |
| BufferFindsTask, ImplementsPipeline | no user buffer queued again before it is back (UserBuffers = 3 in the instance, UsedOnce in the theorems) | with UserBuffers = 1 a buffer is matched with the older task of the same pointer |
| BufferFindsTask, ImplementsPipeline | no task added while the DAG stops (one session in the instance, AddedWhileRunning in the theorems) | a task half queued when stop() clears the queues is left in mOngoingTasks, in front of those of the next session |
| RunTogether | no wait timed out | the count stays, the next barrier opens early |
| Exclusive | no double recovery (doubleUnlink) | two processes unlink one after the other and hold different semaphores |
| Released | no other process has a camera open when this one counts (mixed) | mCameraOpenNum never reaches 0 |
| ResultOfFrame | AiqMayFail = FALSE, EarlyFirstSof = FALSE, StorageSize = 7, no result whose SOF was lost | the exposure is set and no result stored; RequestThread sees the first SOF before 3A does; with StorageSize = 6 the ring is overwritten |
| ResultOfFrame | a run stores its result before the first frame that it is for is over (MaxLost = 1 in the instance, LossAssumption in the theorem) | while `run3A` holds mEngineLock more SOFs are lost than the exposure takes frames: the sensor has the new exposure, and a pipeline that asks for that frame finds the result before it |
| RightReference | not the oldest frame the raw buffers can hold; kept frames run by the still pipe only; a reference the still pipe copied | the reference ring is one buffer too short for the unlocked copy; a video frame run again shortens the ring; a copy leaves the old sequence on the still pipe's newest reference |

## 4. The proofs

Eight modules `<component>_proofs` prove what follows for every value of the constants that
satisfies the named assumption of the component's module (any number of streams, frames,
requests, processes, cameras, devices, buffers, executors, sessions, any limit). Each has one
inductive invariant, in named parts, that TLC has checked on the instance of the component's run
before it was proved, and one lemma per action or group of actions that keeps it. Where a
module changes several fields of a record at once, a lemma first says what the action does
field by field; the lemmas about the invariant only use that.

**RequestThread** (ConfigAssumption)

| theorem | states | inductive invariant and why it is needed |
|---|---|---|
| TypeCorrect | TypeOK | TypeOK is inductive: its last part says that a frame in delivery has a request in `pipe`, which `HandleFrameAvailable` reads |
| InflightBounded | InflightBound | between blockRequest's check and fetchNextRequest's increment there is room for one: the count is below the limit while the thread is at "check" or "fetch"; only this thread increments |
| NoMissedFrame | NoFrameWhileWaiting | inductive with the types: the only push that does not signal finds the queue non-empty, so nobody waits |
| NoMissedStop | NoSleeperAfterClear | inductive with the types: `waitFrame` waits only when `mActive`, each stream's broadcast comes after `mActive` is cleared |
| ClearedIsClean | ClearedStateIsClean, without fake requests | nothing is fetched from an empty queue, so the count cannot rise again before the next qbuf |
| HandedOver | HandedOverInOrder | pending requests are ordered and newer than the one in hand, which is newer than the last one handed over, until it is |

ClearedIsClean needs `~FakeRequests`: a late frame inserts a fake request into
a cleared queue (hazard at `RequestThread.cpp:297`).

**RequestRefinement** (ConfigAssumption)

| theorem | states | inductive invariant and why it is needed |
|---|---|---|
| Refines | ImplementsPath | every step of RequestThread is a step of RequestPath or leaves its places alone. PipeOrder: the processors hold requests in the order of qbuf, none newer than the last one handed over, so the first is the oldest. FrameOrder: frames wait in that order too, before all that the processors hold; a stream that is due has no frame of the first request, so a frame returns once. DeliveryInv: a frame in delivery belongs to one stream and is not counted as returned. ClearInv: clearRequests() has made the camera inactive before it drops anything, and the processors are stopped only after that or by the start() that fails |

A request that was handed over is lost only by StopLocked; the proof shows that it is called for a
device that runs and is inactive, or for one that does not run in a start() that returns an error,
so that the step is StopProcessing or FailToStart. It has no hypothesis: failing starts, stops at any point, restarts, fake and reprocessing
requests are all included. With the invariants of RequestThread the oldest waiting request is
the one in the thread's hands, else the front of mPendingRequests; the proof has one lemma for each
step of RequestPath (Submits, HandsOver, Returns, Finishes, Takes, Deactivates, the stops, starts and drops) and
one for each action of RequestThread that takes it.

**CameraHal with CameraShm** (HalAssumption)

| theorem | states | inductive invariant and why it is needed |
|---|---|---|
| TypeCorrect | TypeOK | mCameraOpenNum may be lowered once more than it was raised: SpentInv bounds how far by the cameras that cannot be closed again |
| MarksAreTrue | MarksTrue | OwnerInv: the table names processes that have it attached, or dead ones; CallInv: what a process has of a camera at each point of its call |
| CamerasAreExclusive | Exclusive | SameLock: without a double recovery all who can still lock a semaphore lock the same one; HolderInv: only its holder is between check and mark; so MarkedInv, an open camera is marked with its process, survives the mark of another |
| ClosedIsReleased | Released | CountInv: a process that counted only its own cameras has mCameraOpenNum equal to the number of those in use |

**CaptureUnit** (CaptureAssumption)

| theorem | states | inductive invariant and why it is needed |
|---|---|---|
| TypeCorrect | TypeOK | with Control: which points of start and stop exclude the poll thread and the processors |
| DeviceIsBounded | InDeviceBound | Room: buffers in the main device and threads that have found room and not used it are together at most the limit and one per processor thread |
| BuffersAreInOnePlace | BufferInOnePlace | OneQueues (mBufferQueuing lets one thread at a time queue to a device), Taken and Dequeued (the buffer in a thread's hands is the front of its list or in none), Known (the memory of a session is new, also when a thread still holds a buffer of the one before) |
| DriverIsInStep | DriverInStep | FrontTaken: until the first streamOff, the buffer in a thread's hands is still the front of mPendingBuffers |

The proof attempt for DriverInStep refuted the form it had before: with two devices, STREAMON of
the second fails and streamOff empties the first one's driver queue. `app.stopped` now
begins with that streamOff, and the instance with two devices has failing starts.

**AiqEngine with SensorManager and AiqResultStorage** (EngineAssumption, StorageAssumption,
SensorAssumption)

| theorem | states | inductive invariant and why it is needed |
|---|---|---|
| TypeCorrect | TypeOK | SizeInv: without per-frame control needRun3A leaves room for the entries of the run under way and its skipped results |
| StatsAreWhole | StatsWhole | LockInv: one slot is locked at most, by the run under way; FillInv: the slot being filled is the next one of the ring and is marked empty; with two slots or more they differ, so what the locked one says stays (WholeInv). BehindInv: every published slot is decoded, or it is the newest and DecodeStats of the one before is over; PendingInv: with isStatsRunningRateSupport every one waits for 3A; so DataInv, what a run computes with is one frame older at most, or the very frame |
| EffectsStayInOrder | EffectsInOrder | EffectInv: the last effect sequence is one that no later prediction can be before (Reach): at most the initial skip, or the last SOF, the lag and the entries that wait for a SOF |

| StoredResultsFit | StoredInTime => ResultOfFrame | HoldInv: what a register holds in a frame, or will hold once the entries that wait for the SOFs to come are written (Holds), is the value of the result found for the frame (Value), also for all frames still to come. OrderInv: every prediction is later than the one before (PredictInv), nothing waits for later than the newest, and what waits is for an SOF to come or counted as missed (WaitInv); so a new entry is the last of its map and changes no frame before its prediction. RingInv and AheadInv: the results of the ring are at least as far apart as their places, and the newest is at most kMaxExposureAppliedDelay + NumSkip + 1 frames ahead of the sensor; so the ring has the result of every frame that may be asked for |
| FramesGetTheirResult | ResultOfFrame | LostInv: 3A is behind the sensor by the lost SOFs and the one under way; EnteredInv: the gains that are set later than the exposure wait for one of them |

EffectsStayInOrder has two hypotheses, and TLC finds a counterexample without either.
SkipWithinLag: `initialSkipFrame` is at most one more than the exposure lag, which all
sensor files in the repository satisfy; otherwise the second prediction is before
the first. NoFailureAfterRestart: 3A does not fail in a later session, or there is none; a first
run that fails leaves the results of the session before in the ring, and their sequence is returned.

StoredResultsFit has the hypothesis ResultAssumption: no run fails, 3A sees the first SOF before
it runs for it, and `StorageSize >= Behind + kMaxExposureAppliedDelay + NumSkip + 3`. The bound is
the instance's 7, and with 6 TLC finds a counterexample. The code has 40 places for an applied
delay of 5 (`AiqResultStorage.h:145`, `AiqEngine.h:124`); the comment there does not count the
results that a tuning mode switch adds. The number of lost SOFs is not
bounded, because StoredInTime is stated of the state: either no run is between runAiq and done, or
the frame of its prediction is not over yet. The attempt to prove ResultOfFrame itself failed
there, and TLC has the counterexample with a gain that is set with the exposure (GainDelay 0), in a
few frames. FramesGetTheirResult has LossAssumption instead: fewer SOFs are lost than the exposure
takes frames, or as many when 3A does not run per frame or a gain is set later than the exposure,
which is then missed with them. The instance of the run satisfies both.

**ShareReferBufferPool** (PoolAssumption)

| theorem | states | inductive invariant and why it is needed |
|---|---|---|
| RingsSorted | Sorted | RingLen: exactly the buffer a pipe writes is missing from its ring, so the ring always has the place that release sorts into |
| ReferencesAreRight | RightReference | InOrder: the video pipe runs every frame once and in order; Spread: the sequences in its ring are at least as far apart as their places; so the source of a copy (Source) is not yet the oldest of the ring while the frame is recent |

ReferencesAreRight has the hypothesis StillOnlyAgain: only the still pipe runs kept frames again
(section 3, "Where a property stops").

**PSysDAG with IspParamAdaptor** (DagAssumption)

| theorem | states | inductive invariant and why it is needed |
|---|---|---|
| TypeCorrect | TypeOK | with SeqInv: an executor that has a frame in work knows its sequence |
| SleepersAreCounted | SleepersCounted | CountInv, exact until a wait times out; SleepInv: only executors of the bundle sleep, and none while the policy is inactive |
| BundleRunsTogether | RunTogether | RunInv: who sleeps has passed the depth of the bundle, and nobody has passed more frames than any other beyond it |
| LinksKeepBuffers | InterConserved | Link: over a stop the buffers of a link are cleared in the order in which executors are joined, and one in the hands of the consumer may come back after that |
| BuffersFindTheirTask | BufferFindsTask | OrderInv: there are, per stream, the list of its tasks (`act`) and, per executor, the number of those it has taken (`c`). Every queue is a piece of that list: what waits before an executor (InputLine), what waits at a port (OutputLine), what is in its hands (HandsLine) and what is still to be counted (CountLine). OngoingInv: mOngoingTasks has, in order, every task with a buffer that is not counted, and `returned` is the number counted. CallInv: callbacks under way are of tasks that were counted |
| PipelineKept | ImplementsPipeline | the same invariant: the executor counts the oldest task that waits for a buffer of its port, and only one executor calls for a task that is complete; one lemma for each step of TaskPipeline |
| ParametersStay | PalStable | ParamInv, on top of OrderInv: a frame an executor has taken is of a task that is not counted, so this task and all later ones of the stream are in mOngoingTasks, fewer than the parameter queue has buffers (FewTasks). DataInv and IdsInv tell of which task each buffer of mSequenceToDataMap and each node of the sequence map is: buffers that are newer than a frame's are of a later task each, so the oldest of a full queue is older than any frame in work (WindowInv). PalsInv and PalMapInv say the same of the sequences that mOngoingPalMap marks, for which the PAL does not run again |

LinksKeepBuffers refuted the form InterConserved had before, in which a link has the same
number of buffers in every session: a consumer that returns its input after the producer's
queue was cleared adds a buffer to those of the next start (`PipeLiteExecutor.cpp:708`).

BuffersFindTheirTask, PipelineKept and ParametersStay have two hypotheses on the behaviour, and
TLC finds a counterexample without either. UsedOnce: a user buffer is not queued again, for the
same port and sequence, while a task in mOngoingTasks has it; onFrameDone matches by pointer
(`PSysDAG.cpp:684`), and would count the older task. AddedWhileRunning: a task is added only
while the DAG runs, and addTask ends before it is stopped. PSysProcessor::stop stops the DAGs
before it joins the process thread (`PSysProcessor.cpp:215`), so the code does not ensure it: a
task may be half queued when the queues are cleared, stays in mOngoingTasks (`PSysDAG.cpp:573`)
and gets the buffers of a later one.

ParametersStay also has three on constants (PalAssumption), and TLC finds a counterexample
without each of them as well (section 3, "Where a property stops"):

* MaxInflight <= PalSize. The bound is exact. The code has 40 buffers (`ISP_PARAM_QUEUE_SIZE`,
  `IspParamAdaptor.h:151`) and at most 10 requests in flight by default (`PlatformData.cpp:1520`).
* The PAL does not fail to run when it is asked again for a sequence (`NotRun["again"] = {}`).
  A sequence the PAL did not run for has the buffer of the one before it
  (`updateIspParameterMap`, `IspParamAdaptor.cpp:486`); when that is its own, mSequenceToDataMap gets
  a second node for one buffer, and the buffer can be handed out twice.
* Sequences do not go back (SequenceSteps has no negative number). The oldest buffer is the one
  with the lowest sequence, which for a frame reprocessed from an old raw buffer
  (`PSysProcessor.cpp:671`) is its own.

**PSysProcessor** (ProcessorAssumption)

All rest on BaseInv: what the process thread has in its hands at each point of prepareTask
and dispatchTask, in terms of the fronts of the queues.

| theorem | states | inductive invariant and why it is needed |
|---|---|---|
| OutputsBelongTogether | OneRequestPerTask | InStep: the same number of requests has left every queue (Gone), a queue not yet reached by handleQueueBuffer included; so the fronts that the thread takes together are of one request |
| StreamsGetOrder | DeliveredInOrder | OrderInv: what a stream has got comes before what the tasks owe it, that before what the thread has taken, that before the queue and that before the next request (Chain). ShapeInv: an output is left in a task, then in one callback, the oldest task first. RawStreamInv: the opaque raw stream gets its buffers from the thread alone, and its front may be back already while it is still in the queue (RawOut) |
| ModesStayApart | ModesDoNotMix | CountInv: mSequencesInflight counts at least the tasks that are there and the one being added; so when it is empty nothing runs in the old mode. ModeInv: mCurConfigMode is the mode of all that run, except between its change and the end of the wait |
| FramesAreAccounted | RawAccounted | KeptInv: a frame that is out has a place, and one that is held for the next request is still the front of the queue or kept (HeldFor); FrameInv: frames are of this session |
| RawBuffersStay | RawBuffersConserved | OwnInv: a frame that is out is in one place only, the queue, the thread's hands (ThreadOwns) or the one task that is to give it back (Owns); a dropped task owns nothing, and StaleInv: without `cam.stale` no output was counted for it, so it does not come back |

The theorems hold over any number of sessions, with the tasks that stops left in mOngoingTasks in
front of the others: a callback has one task whose output it is and may have another whose count
it completes, and the lemmas CountType, DoneType and DropType say what each does to which.

ModesStayApart and FramesAreAccounted have the hypothesis `~SwitchMayTimeOut`, StreamsGetOrder
has NoSkipWithRaw; section 3 says what happens without them. The proofs also refuted the
properties' first forms over restarts, which is where `late`, `stale` and `torn` come from.

Model-checked only:

* liveness (PendingIsServed, ThreadExits, BufferReachesDriver, StopReturns, SwitchEnds,
  TaskComesBack), because TLAPS does not reason about fairness and ENABLED here.

Every invariant and every safety property over steps that a passing run checks is stated by a
theorem.

## 5. Plan

The components whose control is worth a model are modelled, and their safety properties are proved.
What a change of the code should touch first is the module of its component and the hazards listed
for it; a new property is checked by the component's run before its theorem.

## 6. Not modelled

Most of the repository's lines are not a state machine: vendor headers of the firmware
interface (`modules/ia_css`, `modules/ia_cipr`), tables and containers of metadata, parsers of
XML files, the closed 3A library's wrappers, pixel processing, tests and tools. They have no
control that a model would abstract, so the map covers the core and leaves them.

Components with control that are left out:

* **SofSource**: events enter RequestThread and AiqEngine as external steps. Its start has the
  race of poll_doc with its own flag (`SofSource.cpp:182`).
* **SyncManager**: compares time stamps of several cameras by polling and is off unless a
  camera enables the frame sync check; its promise is about real time. Its camera count only
  grows (`SyncManager.cpp:139`), so a camera opened twice waits for a partner that is not there.
* **CameraScheduler**: another way to drive executors, used where a policy file says so. Its
  thread goes through the nodes without `mNodeLock` (`CameraScheduler.cpp:176`).
* **GPUExecutor, CvfPrivacyChecker, ParameterGenerator, CsiMetaDevice, FileSource**: optional
  features, or one map under one lock.

Left out of components that are modelled:

* PSysProcessor: the fake tasks and extra frames of the still pipe (`handleStillPipeForTnr`),
  `prepareIpuForNextFrame`, tuning reconfiguration, the wait for a virtual channel's blanking
  period and its failure (`PSysProcessor.cpp:877-892`), a stream that outputRawImage fills
  (`mRawPort`, 895-911), the SOF-aligned and scheduler-driven loops,
  raw frames saved without an opaque stream, statistics notifications.
* PSysDAG: GPU executors, executors driven by a scheduler, virtual channel sync, statistics
  buffers, HDR parameters run inside an executor; pointers into `mOngoingTasks` that are used
  after the lock is released (`PSysDAG.cpp:762`): a task is a value in the model.
* PSysDAG, PipeLiteExecutor: the return of processNewFrame when all output buffers are null
  (`PipeLiteExecutor.cpp:598-606`), which needs an executor of several output edges: in the chains of
  the model a stream has one, and gets frames only while one of its ports has a buffer.
* AiqEngine: the runs that copy the last result when getAiqRunningInterval() is not 1
  (`AiqEngine.cpp:393-396`), failing decodes, RGBS callbacks.
* CameraHal: deviceConfigStreams, the wait of deviceStart for the other virtual channels,
  callbacks, and the entry points that only forward.
* SensorManager: HDR and DOL exposures, the WDR mode, and sensors for which 3A does not wait for
  the first statistics.
* ShareReferBufferPool: setReferPair and clearReferPair, further pairs, the busy flag, failing
  program groups.
* Lock order: a critical section is one step, so that a deadlock between two mutexes is
  outside the model (hazard at `CameraEvent.cpp:58`).
