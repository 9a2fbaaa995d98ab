------------------------------ MODULE PSysDAG ------------------------------
(***************************************************************************)
(* The pipelines of one configuration mode: src/src/core/psysprocessor/     *)
(* PSysDAG.cpp, PipeLiteExecutor.cpp and PolicyManager.cpp.                 *)
(*                                                                         *)
(* A stream is a chain of executors, each a thread.  The first is an input  *)
(* edge, the last an output edge with the ports of the stream; NumInter     *)
(* intermediate buffers go round between each two.  The process thread of   *)
(* PSysProcessor adds tasks, the executors count the outputs and return the *)
(* tasks, PolicyManager lets the executors of a bundle run side by side.    *)
(* One action is one critical section, or the run of a pipe.               *)
(***************************************************************************)
EXTENDS IspParamAdaptor, Sequences, SequencesExt

CONSTANTS
    Streams,        \* stream ids, 1..n
    Depth,          \* stream -> executors in its chain
    PortsOf,        \* stream -> output ports of the DAG, numbers
    Bundle,         \* the executors PolicyManager aligns, {} for none
    BundleDepth,    \* their depths
    StartSequence,  \* alignment starts after this sequence
    NumInter,       \* getMaxRequestsInflight: intermediate buffers of a link
    PalSize,        \* ISP_PARAM_QUEUE_SIZE
    NotRun,         \* external: the sequences the PAL does not run for, "new" and
                    \* "again" when there is data of the sequence
    TaskKinds,      \* for each task: the sets of output ports it may have a buffer for
    SequenceSteps,  \* sequence of a task minus the one of the task before
    UserBuffers,    \* user buffers of a stream, used in turn
    PipeMayFail,    \* iterate() of a program group may fail
    MaxInflight,    \* bound of PSysProcessor: tasks in mOngoingTasks
    MaxSessions     \* bound: starts

MaxTasks == Len(TaskKinds)
Executors == UNION {{s} \X (1..Depth[s]) : s \in Streams}
Ports == UNION {PortsOf[s] : s \in Streams}

ASSUME DagAssumption ==
    /\ Streams \subseteq Nat
    /\ Depth \in [Streams -> Nat \ {0}] /\ PortsOf \in [Streams -> SUBSET Nat]
    /\ \A s \in Streams : PortsOf[s] # {}
    /\ IsFiniteSet(Ports)
    /\ \A s, t \in Streams : s # t => PortsOf[s] \cap PortsOf[t] = {}
    /\ Bundle \subseteq Executors /\ IsFiniteSet(Bundle)
    /\ BundleDepth \in [Bundle -> Nat]
    /\ NotRun \in [{"new", "again"} -> SUBSET Nat]
    /\ TaskKinds \in Seq(SUBSET ((SUBSET Ports) \ {{}})) /\ SequenceSteps \subseteq Int
    /\ StartSequence \in Int /\ PipeMayFail \in BOOLEAN
    /\ {NumInter, PalSize, UserBuffers, MaxInflight} \subseteq Nat \ {0}
    /\ MaxSessions \in Nat

VARIABLES
    tasks,           \* all tasks, by number: their ports and sequence
    mOngoingTasks,   \* the numbers of the ones in work, oldest first, and how
                     \* many of their buffers were returned
    mOngoingPalMap,  \* sequence -> streams whose PAL has run
    ispParam,        \* stream -> IspParameter
    ad,              \* the process thread in addTask
    ex,              \* the threads of the executors
    mInputQueue,     \* executor -> sequences of the frames that wait
    mOutputQueue,    \* port -> tasks whose buffer waits, 0: no buffer
    free,            \* executor -> empty intermediate buffers it may fill
    policy,          \* mIsActive, mWaitingCount, mRunCount of the bundle
    dag,             \* start and stop: state, session, executors not yet joined
    counted, called, finished, abandoned  \* what TaskPipeline promises

taskVars  == <<tasks, mOngoingTasks>>
palVars   == <<mOngoingPalMap, ispParam>>
queueVars == <<mInputQueue, mOutputQueue, free>>
pipeVars  == <<counted, called, finished, abandoned>>
vars == <<taskVars, palVars, ad, ex, queueVars, policy, dag, pipeVars>>

-----------------------------------------------------------------------------
IsOutputEdge(e) == e[2] = Depth[e[1]]
IsInputEdge(e)  == e[2] = 1
Consumer(e) == <<e[1], e[2] + 1>>
Producer(e) == <<e[1], e[2] - 1>>
OutPorts(e) == IF IsOutputEdge(e) THEN PortsOf[e[1]] ELSE {}

\* mExecutorsPool: in the order of the policy, producers first
Before(e, f) == e[1] < f[1] \/ (e[1] = f[1] /\ e[2] < f[2])

\* getActiveStreamIds: the streams of the ports with a buffer
StreamsOf(ports) == {s \in Streams : PortsOf[s] \cap ports # {}}
getActiveStreamIds(n) == StreamsOf(tasks[n].ports)

UserBuffer(n) == n % UserBuffers
MaxSequence == MaxTasks
IdleAdder == [pc |-> "idle", todo |-> {}, node |-> NoNode]
IdleExecutor(point) == [pc |-> point, seq |-> -1, out |-> [p \in Ports |-> 0],
                        left |-> {}, pal |-> NoNode, running |-> FALSE, task |-> 0,
                        complete |-> FALSE]

Init ==
    /\ tasks = <<>> /\ mOngoingTasks = <<>>
    /\ mOngoingPalMap = [seq \in 0..MaxSequence |-> {}]
    /\ ispParam = [s \in Streams |-> InitialIspParameter(PalSize)]
    /\ ad = IdleAdder
    /\ ex = [e \in Executors |-> IdleExecutor("exited")]
    /\ mInputQueue = [e \in Executors |-> <<>>]
    /\ mOutputQueue = [p \in Ports |-> <<>>] /\ free = [e \in Executors |-> 0]
    /\ policy = [mIsActive |-> TRUE, mWaitingCount |-> 0,
                 mRunCount |-> [e \in Bundle |-> 0], timedOut |-> FALSE]
    /\ dag = [state |-> "stopped", session |-> 0, left |-> {}]
    /\ counted = <<>> /\ called = <<>> /\ finished = {} /\ abandoned = {}

-----------------------------------------------------------------------------
(* addTask, on the process thread.                                         *)

Newest == Len(tasks)
LastSequence == IF tasks = <<>> THEN -1 ELSE tasks[Newest].seq

\* the next stream of prepareIpuParams, or on to queueBuffers
AfterAdapt(s) ==
    IF ad.todo # {s} THEN [IdleAdder EXCEPT !.pc = "adapt", !.todo = ad.todo \ {s}]
    ELSE [IdleAdder EXCEPT !.pc = "inputs", !.todo = getActiveStreamIds(Newest)]

\* addTask: push the task.  A DAG that was paused is resumed before it gets a task.
\* The bound is the processor's: it has a limited number of requests in processing.
AddTask ==
    /\ ad.pc = "idle" /\ dag.session > 0
    /\ policy.mIsActive \/ dag.state # "running"
    /\ Newest < MaxTasks /\ Len(mOngoingTasks) < MaxInflight
    /\ \E kind \in TaskKinds[Newest + 1] : \E step \in SequenceSteps :
         /\ LastSequence + step \in 0..MaxSequence
         /\ tasks' = Append(tasks, [ports |-> kind, seq |-> LastSequence + step])
         /\ ad' = [IdleAdder EXCEPT !.pc = "adapt", !.todo = StreamsOf(kind)]
    /\ mOngoingTasks' = Append(mOngoingTasks, [n |-> Newest + 1, returned |-> 0])
    /\ counted' = Append(counted, {}) /\ called' = Append(called, {})
    /\ UNCHANGED <<palVars, ex, queueVars, policy, dag, finished, abandoned>>

\* prepareIpuParams goes through the streams of the task; one whose PAL has run for
\* this sequence is left out
Adapting(s) == ad.pc = "adapt" /\ ad.todo # {} /\ s = Min(ad.todo)

PalDone(s) ==
    /\ Adapting(s) /\ s \in mOngoingPalMap[LastSequence]
    /\ ad' = AfterAdapt(s)
    /\ UNCHANGED <<taskVars, palVars, ex, queueVars, policy, dag, pipeVars>>

\* runIspAdapt: choose the buffer and write it ...
runIspAdapt(s) ==
    /\ Adapting(s) /\ s \notin mOngoingPalMap[LastSequence]
    /\ ad' = [ad EXCEPT !.pc = "write", !.node = NodeToWrite(ispParam[s], LastSequence)]
    /\ UNCHANGED <<taskVars, palVars, ex, queueVars, policy, dag, pipeVars>>

\* ... and enter it in the maps
ranIspAdapt(s, ran) ==
    IF ran THEN AfterRun(ispParam[s], PalSize, LastSequence, ad.node)
    ELSE AfterNoRun(ispParam[s], PalSize, LastSequence, ad.node)

PalWritten(s) ==
    /\ ad.pc = "write" /\ s = Min(ad.todo)
    /\ LET case == IF LastSequence \in Keys(ispParam[s]) THEN "again" ELSE "new"
       IN  ispParam' = [ispParam EXCEPT
                          ![s] = ranIspAdapt(s, LastSequence \notin NotRun[case])]
    /\ mOngoingPalMap' = [mOngoingPalMap EXCEPT ![LastSequence] = @ \cup {s}]
    /\ ad' = AfterAdapt(s)
    /\ UNCHANGED <<taskVars, ex, queueVars, policy, dag, pipeVars>>

\* queueBuffers: the input of every active stream first ...
QueueInput ==
    /\ ad.pc = "inputs"
    /\ LET s == Min(ad.todo)
       IN  /\ mInputQueue' = [mInputQueue EXCEPT ![<<s, 1>>] = Append(@, LastSequence)]
           /\ ad' = IF ad.todo # {s} THEN [ad EXCEPT !.todo = @ \ {s}]
                    ELSE [ad EXCEPT !.pc = "outputs",
                            !.todo = UNION {PortsOf[t] :
                                              t \in getActiveStreamIds(Newest)}]
    /\ UNCHANGED <<taskVars, palVars, ex, mOutputQueue, free, policy, dag, pipeVars>>

\* ... then its outputs, also a null one of a stream that is active
QueueOutput ==
    /\ ad.pc = "outputs"
    /\ LET p == Min(ad.todo)
           buffer == IF p \in tasks[Newest].ports THEN Newest ELSE 0
       IN  /\ mOutputQueue' = [mOutputQueue EXCEPT ![p] = Append(@, buffer)]
           /\ ad' = IF ad.todo = {p} THEN IdleAdder ELSE [ad EXCEPT !.todo = @ \ {p}]
    /\ UNCHANGED <<taskVars, palVars, ex, mInputQueue, free, policy, dag, pipeVars>>

\* dispatchTask: pause() this DAG and resume() it around a switch of the pipe
setActive ==
    /\ ad.pc = "idle" /\ dag.state = "running"
    /\ policy' = [policy EXCEPT !.mIsActive = ~@, !.mWaitingCount = 0,
                                !.mRunCount = [e \in Bundle |-> 0]]
    /\ ex' = [e \in Executors |-> IF ex[e].pc = "sleep" THEN [ex[e] EXCEPT !.pc = "pal"]
                                  ELSE ex[e]]
    /\ UNCHANGED <<taskVars, palVars, ad, queueVars, dag, pipeVars>>

AddingThread ==
    \/ \E s \in Streams : PalDone(s) \/ runIspAdapt(s) \/ PalWritten(s)
    \/ QueueInput \/ QueueOutput

-----------------------------------------------------------------------------
(* The threads of the executors.                                           *)

ExAt(e, point) == ex[e].pc = point
ExGoto(e, point) == ex' = [ex EXCEPT ![e].pc = point]

\* Mutant: the executor does not wait for an empty intermediate buffer
BuffersWaitMutant(e) ==
    /\ mInputQueue[e] # <<>>
    /\ \A p \in OutPorts(e) : mOutputQueue[p] # <<>>
\* waitFreeBuffersInQueue: a frame of every input, a buffer for every output
BuffersWait(e) ==
    /\ mInputQueue[e] # <<>>
    /\ IF IsOutputEdge(e) THEN \A p \in OutPorts(e) : mOutputQueue[p] # <<>>
       ELSE free[e] > 0

\* processNewFrame: a buffer of every queue.  A stream has one output edge here, and gets
\* frames only while one of its ports has a buffer (getActiveStreamIds): no executor finds
\* all its outputs null, which is when processNewFrame() returns without a run.
Fetch(e) ==
    /\ ExAt(e, "loop") /\ ex[e].running /\ BuffersWait(e)
    /\ LET out == [p \in Ports |->
                     IF p \in OutPorts(e) THEN Head(mOutputQueue[p]) ELSE 0]
       IN  ex' = [ex EXCEPT ![e] = [@ EXCEPT
                    !.pc = IF e \in Bundle THEN "wait" ELSE "pal",
                    !.seq = Head(mInputQueue[e]), !.out = out,
                    !.left = {p \in OutPorts(e) : out[p] # 0}]]
    /\ mInputQueue' = [mInputQueue EXCEPT ![e] = Tail(@)]
    /\ mOutputQueue' = [p \in Ports |-> IF p \in OutPorts(e) THEN Tail(mOutputQueue[p])
                                        ELSE mOutputQueue[p]]
    /\ free' = [free EXCEPT ![e] = IF IsOutputEdge(e) THEN @ ELSE @ - 1]
    /\ UNCHANGED <<taskVars, palVars, ad, policy, dag, pipeVars>>

ThreadExits(e) ==
    /\ ExAt(e, "loop") /\ ~ex[e].running
    /\ ExGoto(e, "exited")
    /\ UNCHANGED <<taskVars, palVars, ad, queueVars, policy, dag, pipeVars>>

Aligned(e) == policy.mIsActive /\ ex[e].seq > StartSequence
MaxDepth == Max({BundleDepth[e] : e \in Bundle})
\* Mutant: the run count is compared before it is increased
RunsFreelyMutant(e) == policy.mRunCount[e] + BundleDepth[e] <= MaxDepth
RunsFreely(e) == policy.mRunCount[e] + 1 + BundleDepth[e] <= MaxDepth
LastToCome == policy.mWaitingCount + 1 >= Cardinality(Bundle)

\* Mutant: the executors that wait are woken, the count stays
waitMutant(e) ==
    [policy EXCEPT !.mRunCount[e] = @ + 1,
        !.mWaitingCount = IF RunsFreely(e) THEN @ ELSE @ + 1]
\* PolicyManager::wait on the bundle
wait(e) ==
    [policy EXCEPT !.mRunCount[e] = @ + 1,
        !.mWaitingCount = IF RunsFreely(e) THEN @ ELSE IF LastToCome THEN 0 ELSE @ + 1]

\* runPipe, for an executor of the bundle: go on at once, sleep, or wake the ones
\* that sleep
WaitPolicy(e) ==
    /\ ExAt(e, "wait")
    /\ IF ~Aligned(e) \/ RunsFreely(e) THEN ExGoto(e, "pal")
       ELSE IF ~LastToCome THEN ExGoto(e, "sleep")
       ELSE ex' = [f \in Executors |-> IF f = e \/ ExAt(f, "sleep")
                                       THEN [ex[f] EXCEPT !.pc = "pal"] ELSE ex[f]]
    /\ policy' = IF Aligned(e) THEN wait(e) ELSE policy
    /\ UNCHANGED <<taskVars, palVars, ad, queueVars, dag, pipeVars>>

\* PolicyManager::wait timed out; its count stays
WaitTimesOut(e) ==
    /\ ExAt(e, "sleep")
    /\ ExGoto(e, "pal")
    /\ policy' = [policy EXCEPT !.timedOut = TRUE]
    /\ UNCHANGED <<taskVars, palVars, ad, queueVars, dag, pipeVars>>

GetPal(e) ==
    /\ ExAt(e, "pal")
    /\ ex' = [ex EXCEPT ![e].pc = "run",
                        ![e].pal = getIpuParameter(ispParam[e[1]], ex[e].seq)]
    /\ UNCHANGED <<taskVars, palVars, ad, queueVars, policy, dag, pipeVars>>

\* iterate() fails: processNewFrame returns an error and the thread ends
RunFails(e) ==
    /\ PipeMayFail /\ ExAt(e, "run") /\ ex[e].pal # NoNode
    /\ ex' = [ex EXCEPT ![e] = IdleExecutor("dead")]
    /\ UNCHANGED <<taskVars, palVars, ad, queueVars, policy, dag, pipeVars>>

AfterNotify(e) == [IdleExecutor(IF IsInputEdge(e) THEN "loop" ELSE "return")
                     EXCEPT !.running = ex[e].running]

\* notifyFrameDone inside the chain: the consumer's onFrameAvailable
NotifyConsumer(e) ==
    /\ ExAt(e, "run") /\ ~IsOutputEdge(e)
    /\ mInputQueue' = [mInputQueue EXCEPT ![Consumer(e)] = Append(@, ex[e].seq)]
    /\ ex' = [ex EXCEPT ![e] = AfterNotify(e)]
    /\ UNCHANGED <<taskVars, palVars, ad, mOutputQueue, free, policy, dag, pipeVars>>

\* Mutant: the task is found by the sequence alone
TaskOfMutant(e, p) ==
    {i \in DOMAIN mOngoingTasks : tasks[mOngoingTasks[i].n].seq = ex[e].seq}
\* onFrameDone: the ongoing tasks of the sequence that have this user buffer
TaskOf(e, p) ==
    {i \in DOMAIN mOngoingTasks :
        LET n == mOngoingTasks[i].n
        IN  /\ tasks[n].seq = ex[e].seq /\ p \in tasks[n].ports
            /\ UserBuffer(n) = UserBuffer(ex[e].out[p])}

\* Mutant: a task is complete with its first buffer
IsCompleteMutant(task) == task.returned + 1 >= 1
\* Mutant: one buffer more is waited for
IsCompleteLate(task) == task.returned >= Cardinality(tasks[task.n].ports)
\* this is the last of the valid buffers of the task
IsComplete(task) == task.returned + 1 >= Cardinality(tasks[task.n].ports)

CurrentPort(e) == Min(ex[e].left)
NextPort(e) == IF ex[e].left = {CurrentPort(e)} THEN AfterNotify(e)
               ELSE [ex[e] EXCEPT !.pc = "count", !.left = @ \ {CurrentPort(e)},
                                  !.task = 0, !.complete = FALSE, !.pal = NoNode]
AtFrameDone(e) == IsOutputEdge(e) /\ (ExAt(e, "run") \/ ExAt(e, "count"))

\* onFrameDone, with mTaskLock: count the buffer, take a complete task out; a buffer
\* without a task is dropped
onFrameDone(e) ==
    LET p == CurrentPort(e)
        i == Min(TaskOf(e, p))
        task == mOngoingTasks[i]
        rest == IF IsComplete(task) THEN RemoveAt(mOngoingTasks, i)
                ELSE [mOngoingTasks EXCEPT ![i].returned = @ + 1]
        pals == [mOngoingPalMap EXCEPT
                   ![ex[e].seq] = IF IsComplete(task) THEN {} ELSE @]
        found == [ex[e] EXCEPT !.pc = "callback", !.pal = NoNode, !.task = task.n,
                               !.complete = IsComplete(task)]
    IN  /\ AtFrameDone(e)
        /\ IF TaskOf(e, p) = {}
           THEN /\ ex' = [ex EXCEPT ![e] = NextPort(e)]
                /\ UNCHANGED <<mOngoingTasks, mOngoingPalMap, counted>>
           ELSE /\ mOngoingTasks' = rest /\ mOngoingPalMap' = pals
                /\ counted' = [counted EXCEPT ![task.n] = @ \cup {p}]
                /\ ex' = [ex EXCEPT ![e] = found]
        /\ UNCHANGED <<tasks, ispParam, ad, queueVars, policy, dag, called, finished,
                       abandoned>>

\* onFrameDone, without the lock: PSysProcessor::onBufferDone ...
BufferDone(e) ==
    /\ ExAt(e, "callback")
    /\ called' = [called EXCEPT ![ex[e].task] = @ \cup {CurrentPort(e)}]
    /\ IF ex[e].complete THEN ExGoto(e, "task")
       ELSE ex' = [ex EXCEPT ![e] = NextPort(e)]
    /\ UNCHANGED <<taskVars, palVars, ad, queueVars, policy, dag, counted, finished,
                   abandoned>>

\* ... and returnBuffers: PSysProcessor::onFrameDone
returnBuffers(e) ==
    /\ ExAt(e, "task")
    /\ finished' = finished \cup {ex[e].task}
    /\ ex' = [ex EXCEPT ![e] = NextPort(e)]
    /\ UNCHANGED <<taskVars, palVars, ad, queueVars, policy, dag, counted, called,
                   abandoned>>

\* Mutant: only output edges return their input
ReturnInputMutant(e) ==
    /\ ExAt(e, "return")
    /\ free' = [free EXCEPT ![Producer(e)] = IF IsOutputEdge(e) THEN @ ELSE @ + 1]
    /\ ExGoto(e, "loop")
    /\ UNCHANGED <<taskVars, palVars, ad, mInputQueue, mOutputQueue, policy, dag,
                   pipeVars>>
\* processNewFrame: the input goes back to the producer
ReturnInput(e) ==
    /\ ExAt(e, "return")
    /\ free' = [free EXCEPT ![Producer(e)] = @ + 1]
    /\ ExGoto(e, "loop")
    /\ UNCHANGED <<taskVars, palVars, ad, mInputQueue, mOutputQueue, policy, dag,
                   pipeVars>>

ExecutorStep(e) ==
    \/ Fetch(e) \/ ThreadExits(e) \/ WaitPolicy(e) \/ WaitTimesOut(e) \/ GetPal(e)
    \/ NotifyConsumer(e) \/ onFrameDone(e) \/ BufferDone(e)
    \/ returnBuffers(e) \/ ReturnInput(e)

-----------------------------------------------------------------------------
(* start and stop, on a thread of the application.                         *)

SetActive(active) ==
    policy' = IF policy.mIsActive = active THEN policy
              ELSE [policy EXCEPT !.mIsActive = active, !.mWaitingCount = 0,
                                  !.mRunCount = [e \in Bundle |-> 0]]

\* start: each executor gives the one before it the buffers of their link
start ==
    /\ dag.state = "stopped" /\ dag.session < MaxSessions
    /\ SetActive(TRUE)
    /\ free' = [e \in Executors |-> IF IsOutputEdge(e) THEN 0 ELSE free[e] + NumInter]
    /\ ex' = [e \in Executors |-> [IdleExecutor("loop") EXCEPT !.running = TRUE]]
    /\ dag' = [state |-> "running", session |-> dag.session + 1, left |-> {}]
    /\ UNCHANGED <<taskVars, palVars, ad, mInputQueue, mOutputQueue, pipeVars>>

\* stopProcessing wakes the executors that wait for others
stopProcessing ==
    /\ dag.state = "running"
    /\ SetActive(FALSE)
    /\ ex' = [e \in Executors |-> IF ExAt(e, "sleep") THEN [ex[e] EXCEPT !.pc = "pal"]
                                  ELSE ex[e]]
    /\ dag' = [dag EXCEPT !.state = "notify"]
    /\ UNCHANGED <<taskVars, palVars, ad, queueVars, pipeVars>>

\* stop: tell every executor to end, ...
notifyStop ==
    /\ dag.state = "notify"
    /\ ex' = [e \in Executors |-> [ex[e] EXCEPT !.running = FALSE]]
    /\ dag' = [dag EXCEPT !.state = "join", !.left = Executors]
    /\ UNCHANGED <<taskVars, palVars, ad, queueVars, policy, pipeVars>>

\* ... then join each and clear its queues; after the last the tasks are lost
JoinExecutor ==
    /\ dag.state = "join"
    /\ \E e \in dag.left :
        /\ \A f \in dag.left : ~ Before(f, e)
        /\ ex[e].pc \in {"exited", "dead"}
        /\ mInputQueue' = [mInputQueue EXCEPT ![e] = <<>>]
        /\ mOutputQueue' = [p \in Ports |-> IF p \in OutPorts(e) THEN <<>>
                                            ELSE mOutputQueue[p]]
        /\ free' = [free EXCEPT ![e] = 0]
        /\ dag' = [dag EXCEPT !.left = @ \ {e},
                              !.state = IF dag.left = {e} THEN "stopped" ELSE @]
        /\ abandoned' = IF dag.left = {e} THEN DOMAIN tasks \ finished ELSE abandoned
    /\ UNCHANGED <<taskVars, palVars, ad, ex, policy, counted, called, finished>>

Stopping == notifyStop \/ JoinExecutor

Next ==
    \/ AddTask \/ AddingThread \/ setActive
    \/ \E e \in Executors : ExecutorStep(e) \/ RunFails(e)
    \/ start \/ stopProcessing \/ Stopping

Spec == Init /\ [][Next]_vars

\* Some thread goes on as long as one can; a wait times out.
FairSpec == Spec /\ WF_vars(AddingThread \/ \E e \in Executors : ExecutorStep(e))

-----------------------------------------------------------------------------
(* Properties.                                                             *)

Sequences0 == 0..MaxSequence
Nodes == [key : -(PalSize + 1)..MaxSequence, buf : 0..PalSize, valid : BOOLEAN]
Adders == [pc : {"idle", "adapt", "write", "inputs", "outputs"},
           todo : SUBSET (Streams \cup Ports), node : Nodes]
Threads ==
    [pc : {"loop", "wait", "sleep", "pal", "run", "count", "callback", "task", "return",
           "exited", "dead"},
     seq : Sequences0 \cup {-1}, out : [Ports -> 0..MaxTasks], left : SUBSET Ports,
     pal : Nodes, running : BOOLEAN, task : 0..MaxTasks, complete : BOOLEAN]
Policies == [mIsActive : BOOLEAN, mWaitingCount : Nat, mRunCount : [Bundle -> Nat],
             timedOut : BOOLEAN]
Dags == [state : {"stopped", "running", "notify", "join"}, session : Nat,
         left : SUBSET Executors]

TaskType ==
    /\ tasks \in Seq([ports : SUBSET Ports, seq : Sequences0])
    /\ mOngoingTasks \in Seq([n : DOMAIN tasks, returned : Nat])
PalType ==
    /\ mOngoingPalMap \in [Sequences0 -> SUBSET Streams]
    /\ DOMAIN ispParam = Streams
    /\ \A s \in Streams : ispParam[s].data \subseteq Nodes
QueueType ==
    /\ mInputQueue \in [Executors -> Seq(Sequences0)]
    /\ mOutputQueue \in [Ports -> Seq(0..MaxTasks)] /\ free \in [Executors -> Nat]

\* The types of the members and of the threads.
TypeOK ==
    /\ TaskType /\ PalType /\ QueueType
    /\ ad \in Adders /\ ex \in [Executors -> Threads]
    /\ policy \in Policies /\ dag \in Dags

\* PSysDAG keeps the promises of TaskPipeline: the buffers of a port come back in the
\* order of the tasks and once each, and a task comes back once, when all its buffers
\* are counted, although several executors call onFrameDone() at the same time, two
\* tasks may have the same sequence, and the buffers are matched by pointer.
Pipeline == INSTANCE TaskPipeline
              WITH added <- [n \in DOMAIN tasks |-> tasks[n].ports]
ImplementsPipeline == Pipeline!Spec

\* "Check if the returned buffer belong to the task": every buffer an executor
\* returns finds its task, also when the queues of the streams are filled and
\* emptied at different times.
BufferFindsTask ==
    \A e \in Executors : AtFrameDone(e) => TaskOf(e, CurrentPort(e)) # {}

\* A link has its NumInter buffers: each is empty, waits for the consumer, or is in
\* the hands of one of the two executors.  stop() clears the queues of the producer
\* first, so one that the consumer returns after that stays, and start() adds to it.
InterBuffers(e) ==
    free[e] + Len(mInputQueue[Consumer(e)])
      + (IF ex[e].pc \in {"wait", "sleep", "pal", "run", "dead"} THEN 1 ELSE 0)
      + (IF ex[Consumer(e)].pc \notin {"loop", "exited"} THEN 1 ELSE 0)
InterConserved ==
    dag.state = "running" => \A e \in Executors : IsOutputEdge(e) \/
        InterBuffers(e) \in NumInter..(NumInter + (IF dag.session = 1 THEN 0 ELSE 1))

\* An executor runs with the parameters of its sequence, or with the last ones when
\* the PAL did not run for it, and runIspAdapt() for a task of another sequence
\* neither writes nor erases them while it runs.  (A task of the same sequence may:
\* the first task of it to finish clears its mOngoingPalMap entry.)
PalStable ==
    \A e \in Executors : ExAt(e, "run") =>
        /\ ex[e].pal \in ispParam[e[1]].data
        /\ ex[e].pal.key <= ex[e].seq /\ ex[e].pal.valid
        /\ ad.pc = "write" /\ Min(ad.todo) = e[1] /\ ad.node.buf = ex[e].pal.buf
              => LastSequence = ex[e].seq

\* The executors of a bundle run together: unless a wait timed out, one that has
\* been let go is at most one frame ahead of the others, its depth taken off.
RunTogether ==
    ~policy.timedOut => \A e, f \in Bundle :
        (policy.mRunCount[e] - (IF ex[e].pc = "sleep" THEN 1 ELSE 0)) + BundleDepth[e]
            <= Max({MaxDepth, policy.mRunCount[f] + BundleDepth[f]})

\* No executor of a bundle is left asleep: the ones that sleep are counted, and they
\* are fewer than the bundle, so the next ones to come wake them.
SleepersCounted ==
    /\ Cardinality({e \in Executors : ExAt(e, "sleep")}) <= policy.mWaitingCount
    /\ Bundle # {} => policy.mWaitingCount < Cardinality(Bundle)

\* The tasks that are added come back, whichever executors wait for each other, unless
\* the DAG is stopped or the thread of an executor has ended with an error.
TaskComesBack ==
    finished # DOMAIN tasks ~> \/ finished = DOMAIN tasks \/ dag.state # "running"
                               \/ \E e \in Executors : ExAt(e, "dead")

=============================================================================
