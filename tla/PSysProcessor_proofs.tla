------------------------ MODULE PSysProcessor_proofs ------------------------
(***************************************************************************)
(* Proofs about PSysProcessor for every number of streams, raw buffers,    *)
(* frames, requests, tasks and sessions.                                   *)
(*                                                                         *)
(* The invariants are inductive in layers.  BaseInv (TypeInv, ControlInv)  *)
(* says what the process thread has in its hands, FrameInv of which session*)
(* its frames are; the others rest on them: CountInv and ModeInv (what is in*)
(* flight, and in which mode), StepInv (the output queues are in step),    *)
(* ShapeInv, RawStreamInv and OrderInv (what each stream is still owed),   *)
(* KeptInv (where a raw frame is), StaleInv (what a stop has dropped is    *)
(* still waited for until cam.stale) and OwnInv (a frame is there once).   *)
(***************************************************************************)
EXTENDS PSysProcessor, FiniteSetTheorems, SequenceTheorems, WellFoundedInduction, TLAPS

-----------------------------------------------------------------------------
(* The types of the members.                                               *)

Modes  == Range(TuningModeOf)
Points == {"loop", "exited", "raw", "save", "saved", "allDone", "pop", "skip", "dispatch",
           "switch", "add", "queue"}
Threads == [pc : Points, src : Int, dst : [Ports -> Nat], hasRawInput : BOOLEAN]
HasFrame == th.pc \notin {"loop", "exited"}
Stages == {"run", "dropped", "inputs", "erase", "raw", "done"}
Tasks  == [input : Nat, outputs : [Ports -> Nat], left : SUBSET Ports,
           calling : SUBSET Ports, missing : Int, last : Int, mode : Modes, stage : Stages]
States == {"stopped", "started", "stopping", "dagStopped", "joining"}
Cameras == [state : States, session : Nat, frames : 0..MaxFrames, late : BOOLEAN,
            stale : BOOLEAN, torn : BOOLEAN]
Requests == [list : Seq([ports : SUBSET Ports, setting : Sequences0]),
             port : 0..NumPorts, last : Int]

QueueType ==
    /\ mInputQueue \in Seq(Nat) /\ mOutputQueue \in [Ports -> Seq(Nat)]
    /\ mSequencesInflight \in [Sequences0 -> Nat]
    /\ delivered \in [Ports -> Seq(Nat)]
RawType ==
    /\ mRawBufferMap \in SUBSET Nat /\ captured \in SUBSET Nat /\ IsFiniteSet(captured)
    /\ rawWithProducer \in Int
TypeInv ==
    /\ QueueType /\ RawType
    /\ mThreadRunning \in BOOLEAN /\ mOpaqueRawPort \in RawPorts /\ mCurConfigMode \in Modes
    /\ th \in Threads /\ tasks \in Seq(Tasks) /\ requests \in Requests /\ cam \in Cameras
    /\ HasFrame => th.src \in Nat

-----------------------------------------------------------------------------
(* The process thread.                                                     *)

\* between the look at the queues and the removal of their fronts
Taking == th.pc \in {"raw", "save", "saved", "allDone", "pop"}

\* the buffers are of requests that were handed over
Known(buffers) == \A p \in Ports : buffers[p] <= Len(requests.list)

Lifecycle ==
    /\ cam.state \in {"started", "stopping", "dagStopped"} => mThreadRunning
    /\ cam.state = "stopped" => ThAt("exited") /\ mInputQueue = <<>>
Fronts == Taking =>
    /\ mInputQueue # <<>> /\ (th.hasRawInput \/ th.src = Head(mInputQueue))
    /\ \A p \in Ports : mOutputQueue[p] # <<>> /\ th.dst[p] \in {0, Head(mOutputQueue[p])}
RawControl ==
    /\ th.hasRawInput => ~ (th.pc \in {"loop", "exited", "raw", "save", "saved", "allDone"})
    /\ th.pc \in {"raw", "save", "saved", "allDone"} => mOpaqueRawPort # 0
    /\ mOpaqueRawPort = 0 => ~th.hasRawInput /\ mRawBufferMap = {}
AllKnown ==
    /\ Known(th.dst)
    /\ \A p \in Ports : \A n \in DOMAIN mOutputQueue[p] :
          mOutputQueue[p][n] <= Len(requests.list)
    /\ \A i \in DOMAIN tasks : Known(tasks[i].outputs)
\* a task goes on when the callback of the output that was counted last has ended; a
\* dropped one has nothing in the pipelines
StagesInv == \A i \in DOMAIN tasks :
    /\ tasks[i].stage # "run" => tasks[i].left = {} /\ tasks[i].last \notin tasks[i].calling
    /\ tasks[i].stage = "run" => Cardinality(tasks[i].left) <= tasks[i].missing
    /\ tasks[i].stage = "dropped" => tasks[i].calling = {}
ControlInv == Lifecycle /\ Fronts /\ RawControl /\ AllKnown /\ StagesInv

\* the frames of this session
Base == cam.session * MaxFrames
Current == Base..(Base + cam.frames - 1)
FrameInv ==
    /\ \A n \in DOMAIN mInputQueue : mInputQueue[n] \in Current
    /\ captured \subseteq Current /\ mRawBufferMap \subseteq Current
    /\ HasFrame => th.src \in Current

-----------------------------------------------------------------------------
(* What is in flight, and in which mode.                                   *)

\* tasks that are still counted in mSequencesInflight, by their places
Counted == {"run", "dropped", "inputs", "erase"}
Inflight(seq) == {i \in DOMAIN tasks : /\ tasks[i].stage \in Counted
                                       /\ SequenceOf(tasks[i].input) = seq}
Adding(seq) == IF th.pc \in {"add", "queue"} /\ Seq0 = seq THEN 1 ELSE 0

CountInv == \A seq \in Sequences0 :
    Cardinality(Inflight(seq)) + Adding(seq) <= mSequencesInflight[seq]

\* The thread switches the pipe only when nothing runs
Runs(i) == i \in DOMAIN tasks /\ tasks[i].stage = "run"
InMode ==
    \/ th.pc \in {"raw", "save", "saved", "allDone", "pop", "skip", "dispatch", "add", "queue"}
    \/ ThAt("loop") /\ mThreadRunning
ModeInv == ~cam.late =>
    /\ \A i, j \in DOMAIN tasks : Runs(i) /\ Runs(j) => tasks[i].mode = tasks[j].mode
    /\ InMode => \A i \in DOMAIN tasks : Runs(i) => tasks[i].mode = mCurConfigMode

-----------------------------------------------------------------------------
(* The output queues are in step.                                          *)

\* the last request that is, or has been, in the queue of a port
Top(p) == IF requests.port = 0 \/ p < requests.port THEN Len(requests.list)
          ELSE Len(requests.list) - 1
\* the last one that has left it
Gone(p) == Top(p) - Len(mOutputQueue[p])

OneRequest(buffers) == \A p, q \in Ports :
    buffers[p] # 0 /\ buffers[q] # 0 => buffers[p] = buffers[q]

InStep ==
    /\ \A p, q \in Ports : Gone(p) = Gone(q)
    /\ \A p \in Ports : \A n \in DOMAIN mOutputQueue[p] :
          mOutputQueue[p][n] \in {0, Gone(p) + n}
Together ==
    /\ OneRequest(th.dst)
    /\ \A i \in DOMAIN tasks : OneRequest(tasks[i].outputs)
StepInv == ~cam.torn => InStep /\ Together

-----------------------------------------------------------------------------
(* What each stream is still owed.                                         *)

\* task i has an output for the stream and has not given it back
Owes(i, p) ==
    /\ i \in DOMAIN tasks /\ p \in tasks[i].left \cup tasks[i].calling
    /\ ~needSkipOutputFrame(SequenceOf(tasks[i].input))
\* the thread has one and has taken it off the queue
ThreadOwes(p) ==
    /\ th.pc \in {"dispatch", "switch", "add", "queue"}
    /\ th.dst[p] # 0 /\ ~needSkipOutputFrame(Seq0)
\* the front of the queue has gone back as a raw frame and is still there
RawOut(p) ==
    /\ p = mOpaqueRawPort /\ th.pc \in {"save", "saved", "allDone", "pop"}
    /\ Head(mOutputQueue[p]) # 0 /\ (ThAt("pop") => th.dst[p] = 0)
\* the queue still has it for the stream
Queued(p, n) ==
    /\ n \in DOMAIN mOutputQueue[p] /\ mOutputQueue[p][n] # 0
    /\ RawOut(p) => n # 1

\* each output of a task is left, then in a callback, in the order of the tasks
ShapeInv ==
    /\ \A i \in DOMAIN tasks : /\ tasks[i].left \subseteq ValidPorts(tasks[i].outputs)
                               /\ tasks[i].calling \subseteq ValidPorts(tasks[i].outputs)
                               /\ tasks[i].left \cap tasks[i].calling = {}
    /\ \A i, j \in DOMAIN tasks : i < j =>
          tasks[j].calling \cap (tasks[i].left \cup tasks[i].calling) = {}

\* the opaque raw stream gets its buffers from the process thread only
RawStream(r) ==
    /\ \A i \in DOMAIN tasks : tasks[i].outputs[r] = 0
    /\ th.pc \in {"dispatch", "switch", "add", "queue"} => th.dst[r] = 0
    /\ th.pc = "raw" => th.dst[r] = Head(mOutputQueue[r])
    /\ th.pc = "pop" /\ th.dst[r] # 0 => ~ needExecutePipe(Setting, Seq0)
RawStreamInv == \A r \in Ports : r = mOpaqueRawPort => RawStream(r)

AfterDelivered(p, v) == \A n \in DOMAIN delivered[p] : delivered[p][n] < v
AfterTasks(p, v)     == \A i \in DOMAIN tasks : Owes(i, p) => tasks[i].outputs[p] < v
AfterThread(p, v)    == ThreadOwes(p) => th.dst[p] < v

\* delivered before the tasks' before the thread's before the queue's before the next ones
DeliveredChain(p) ==
    \A m, n \in DOMAIN delivered[p] : m < n => delivered[p][m] < delivered[p][n]
TaskChain(p) ==
    /\ \A i \in DOMAIN tasks : Owes(i, p) => AfterDelivered(p, tasks[i].outputs[p])
    /\ \A i, j \in DOMAIN tasks : i < j /\ Owes(i, p) /\ Owes(j, p) =>
          tasks[i].outputs[p] < tasks[j].outputs[p]
ThreadChain(p) ==
    ThreadOwes(p) => AfterDelivered(p, th.dst[p]) /\ AfterTasks(p, th.dst[p])
QueueChain(p) ==
    /\ \A n \in DOMAIN mOutputQueue[p] : Queued(p, n) =>
          /\ AfterDelivered(p, mOutputQueue[p][n]) /\ AfterTasks(p, mOutputQueue[p][n])
          /\ AfterThread(p, mOutputQueue[p][n])
    /\ \A m, n \in DOMAIN mOutputQueue[p] : m < n /\ Queued(p, m) /\ Queued(p, n) =>
          mOutputQueue[p][m] < mOutputQueue[p][n]
NextChain(p) ==
    /\ AfterDelivered(p, Top(p) + 1) /\ AfterTasks(p, Top(p) + 1)
    /\ AfterThread(p, Top(p) + 1)
    /\ \A n \in DOMAIN mOutputQueue[p] : mOutputQueue[p][n] < Top(p) + 1
Chain(p) == /\ DeliveredChain(p) /\ TaskChain(p) /\ ThreadChain(p) /\ QueueChain(p)
            /\ NextChain(p)
OrderInv == ~cam.torn => \A p \in Ports :
    Chain(p) /\ (RawOut(p) => needExecutePipe(Setting, Seq0))

\* No frame is skipped when raw frames are requested
NoSkipWithRaw == \A p \in RawPorts \ {0} : SkippedFrames[p] = {}

-----------------------------------------------------------------------------
(* Where a raw frame is.                                                   *)

\* the frame is held for the next request, in terms of what the list of requests says
SettingIn(list, buffers) ==
    IF ValidPorts(buffers) = {} THEN -1 ELSE list[buffers[Min(ValidPorts(buffers))]].setting
HeldIn(list, buffers, frame) ==
    SettingIn(list, buffers) # -1 /\ SequenceOf(frame) > SettingIn(list, buffers)
HeldFor(buffers, frame) == HeldIn(requests.list, buffers, frame)
\* the thread has taken its frame off the queue, and nobody else has it
ThreadOwns ==
    /\ th.pc \in {"skip", "dispatch", "switch", "add", "queue"}
    /\ ~th.hasRawInput /\ ~HeldFor(th.dst, th.src)
\* task i is to give its frame back
Owns(i) ==
    /\ i \in DOMAIN tasks /\ tasks[i].stage \in {"run", "inputs"}
    /\ ~HeldFor(tasks[i].outputs, tasks[i].input)

Place(f) ==
    \/ \E n \in DOMAIN mInputQueue : f = mInputQueue[n]
    \/ f \in mRawBufferMap
    \/ ThreadOwns /\ f = th.src
    \/ \E i \in DOMAIN tasks : Owns(i) /\ f = tasks[i].input
KeptInv == cam.state = "started" =>
    /\ \A f \in captured : Place(f)
    /\ th.pc \in {"saved", "allDone"} => th.src \in mRawBufferMap \/ th.src \notin captured

\* Without an opaque raw stream every frame that is out is in one place: in the queue, in
\* the thread's hands or in one task
InQueue(f) == \E n \in DOMAIN mInputQueue : mInputQueue[n] = f
OwnedOnce ==
    /\ \A n \in DOMAIN mInputQueue : mInputQueue[n] \in captured
    /\ \A m, n \in DOMAIN mInputQueue : m # n => mInputQueue[m] # mInputQueue[n]
    /\ ThAt("skip") => ThreadOwns
    /\ ThreadOwns => th.src \in captured /\ ~ InQueue(th.src)
    /\ \A i \in DOMAIN tasks : Owns(i) =>
         /\ tasks[i].input \in captured /\ ~ InQueue(tasks[i].input)
         /\ ThreadOwns => tasks[i].input # th.src
    /\ \A i, j \in DOMAIN tasks : Owns(i) /\ Owns(j) /\ i # j =>
         tasks[i].input # tasks[j].input
Balanced == rawWithProducer + Cardinality(captured) = NumRaw
\* no output was counted for a dropped task
NoneCounted == \A i \in DOMAIN tasks : tasks[i].stage = "dropped" => tasks[i].last = 0
StaleInv == ~cam.stale => NoneCounted
OwnInv == mOpaqueRawPort = 0 /\ cam.state = "started" /\ ~cam.late /\ ~cam.stale
          => Balanced /\ OwnedOnce

-----------------------------------------------------------------------------
(* The constants, least elements and sequences.                            *)

\* What the assumption says of the numbers.
LEMMA Constants ==
  /\ NumPorts \in Nat /\ NumPorts # 0 /\ NumRaw \in Nat /\ RawLimit \in Nat
  /\ MaxFrames \in Nat /\ MaxFrames # 0 /\ MaxTasks \in Nat
  /\ RawPorts \subseteq {0} \cup Ports
  BY ProcessorAssumption

\* A part of a frame's number is its sequence.
LEMMA SequenceType ==
  ASSUME NEW x \in Int
  PROVE  SequenceOf(x) \in Sequences0
<1>1. MaxFrames \in Int /\ MaxFrames > 0
  BY Constants
<1> QED BY <1>1 DEF SequenceOf, Sequences0

\* A multiple of n between 0 and n is 0.
LEMMA SmallMultiple ==
  ASSUME NEW n \in Nat, n # 0, NEW k \in Int, n * k < n, n * k > -n
  PROVE  k = 0
<1>1. CASE k >= 1
  <2>1. n * k >= n * 1
    BY <1>1
  <2> QED BY <2>1
<1>2. CASE k <= -1
  <2>1. n * k <= n * (-1)
    BY <1>2
  <2> QED BY <2>1
<1> QED BY <1>1, <1>2

\* Two frames of one session with the same sequence are one frame.
LEMMA SameSequence ==
  ASSUME NEW a \in Int, NEW b \in Int, NEW c \in Int,
         a >= c, b >= c, a < c + MaxFrames, b < c + MaxFrames,
         SequenceOf(a) = SequenceOf(b)
  PROVE  a = b
<1> DEFINE M == MaxFrames
<1>1. M \in Nat /\ M # 0
  BY Constants
<1>2. a % M = b % M
  BY DEF SequenceOf
<1> HIDE DEF M
<1>3. /\ (a \div M) \in Int /\ a = M * (a \div M) + (a % M)
      /\ (b \div M) \in Int /\ b = M * (b \div M) + (b % M) /\ (a % M) \in Int
  BY <1>1
<1> DEFINE x == a \div M
           y == b \div M
           r == a % M
<1>4. x \in Int /\ y \in Int /\ a = M * x + r /\ b = M * y + r /\ r \in Int
  BY <1>2, <1>3
<1> HIDE DEF x, y, r
<1>5. x - y \in Int /\ M * (x - y) = M * x - M * y
  BY <1>1, <1>4
<1>6. a < b + M /\ b < a + M
  BY <1>1 DEF M
<1>7. M * x \in Int /\ M * y \in Int /\ a - b = M * x - M * y
  BY <1>1, <1>4
<1>8. a - b < M /\ a - b > -M
  BY <1>1, <1>6
<1>9. x - y = 0
  BY <1>1, <1>5, <1>7, <1>8, SmallMultiple
<1> QED BY <1>4, <1>9

\* A set of natural numbers that is not empty has a least element.
LEMMA LeastNatural ==
  ASSUME NEW S \in SUBSET Nat, S # {}
  PROVE  \E x \in S : \A y \in S : x <= y
<1>1. PICK x \in S : \A y \in S : <<y, x>> \notin OpToRel(<, Nat)
  BY NatLessThanWellFounded, WFMin
<1>2. OpToRel(<, Nat) = {r \in Nat \X Nat : r[1] < r[2]}
  BY Zenon DEF OpToRel
<1>3. \A y \in S : ~ (y < x)
  BY <1>1, <1>2
<1> QED BY <1>3

\* Min() is that element.
LEMMA MinIn ==
  ASSUME NEW S \in SUBSET Nat, S # {}
  PROVE  Min(S) \in S /\ \A y \in S : Min(S) <= y
  BY LeastNatural DEF Min

\* The greater of two numbers.
LEMMA MaxOfTwo ==
  ASSUME NEW a \in Int, NEW b \in Int
  PROVE  Max({a, b}) \in Int
<1>1. \E x \in {a, b} : \A y \in {a, b} : x >= y
  <2>1. CASE a >= b
    BY <2>1
  <2>2. CASE b >= a
    BY <2>2
  <2> QED BY <2>1, <2>2
<1> QED BY <1>1 DEF Max

\* RemoveAt() closes the gap.
LEMMA RemoveAtShifts ==
  ASSUME NEW S, NEW s \in Seq(S), NEW i \in DOMAIN s
  PROVE  /\ RemoveAt(s, i) \in Seq(S)
         /\ Len(RemoveAt(s, i)) = Len(s) - 1
         /\ \A k \in 1..Len(s) - 1 : RemoveAt(s, i)[k] = IF k < i THEN s[k] ELSE s[k + 1]
<1> DEFINE a == SubSeq(s, 1, i - 1)
           b == SubSeq(s, i + 1, Len(s))
<1>1. /\ a \in Seq(S) /\ Len(a) = i - 1
      /\ \A k \in 1..i - 1 : a[k] = s[k]
  OBVIOUS
<1>2. /\ b \in Seq(S) /\ Len(b) = Len(s) - i
      /\ \A k \in 1..Len(s) - i : b[k] = s[i + k]
  OBVIOUS
<1>3. /\ a \o b \in Seq(S) /\ Len(a \o b) = Len(s) - 1
      /\ \A k \in 1..Len(s) - 1 : (a \o b)[k] = IF k <= i - 1 THEN a[k] ELSE b[k - (i - 1)]
  <2> HIDE DEF a, b
  <2> QED BY <1>1, <1>2, ConcatProperties, SMTT(30)
<1>4. ASSUME NEW k \in 1..Len(s) - 1
      PROVE  (a \o b)[k] = IF k < i THEN s[k] ELSE s[k + 1]
  <2> HIDE DEF a, b
  <2>1. CASE k < i
    BY <1>1, <1>3, <2>1
  <2>2. CASE ~ (k < i)
    <3>1. k - (i - 1) \in 1..Len(s) - i /\ i + (k - (i - 1)) = k + 1
      BY <2>2
    <3>2. ~ (k <= i - 1)
      BY <2>2
    <3>3. (a \o b)[k] = b[k - (i - 1)]
      BY <1>3, <3>2
    <3>4. b[k - (i - 1)] = s[i + (k - (i - 1))]
      BY <1>2, <3>1
    <3> QED BY <2>2, <3>1, <3>3, <3>4
  <2> QED BY <2>1, <2>2
<1> QED BY <1>3, <1>4 DEF RemoveAt

\* The queues of the streams without their fronts.
LEMMA TailAll ==
  ASSUME NEW D, NEW S, NEW f \in [D -> Seq(S)], \A p \in D : f[p] # <<>>
  PROVE  [p \in D |-> Tail(f[p])] \in [D -> Seq(S)]
<1>1. \A p \in D : Tail(f[p]) \in Seq(S)
  BY HeadTailProperties
<1> QED BY <1>1

\* A queue of a table gets one element more.
LEMMA AppendAt ==
  ASSUME NEW D, NEW S, NEW f \in [D -> Seq(S)], NEW i \in D, NEW v \in S
  PROVE  [f EXCEPT ![i] = Append(@, v)] \in [D -> Seq(S)]
<1>1. Append(f[i], v) \in Seq(S)
  OBVIOUS
<1> QED BY <1>1

\* The places of a sequence without its front.
LEMMA TailPlaces ==
  ASSUME NEW S, NEW s \in Seq(S), s # <<>>
  PROVE  /\ Tail(s) \in Seq(S) /\ Len(Tail(s)) = Len(s) - 1
         /\ \A n \in DOMAIN Tail(s) : n + 1 \in DOMAIN s /\ Tail(s)[n] = s[n + 1]
         /\ 1 \in DOMAIN s /\ Head(s) = s[1] /\ Head(s) \in S
  BY HeadTailProperties

\* The places of a sequence with one element more.
LEMMA AppendPlaces ==
  ASSUME NEW S, NEW s \in Seq(S), NEW v \in S
  PROVE  /\ Append(s, v) \in Seq(S) /\ Len(Append(s, v)) = Len(s) + 1
         /\ \A n \in DOMAIN s : n \in DOMAIN Append(s, v) /\ Append(s, v)[n] = s[n]
         /\ Append(s, v)[Len(s) + 1] = v /\ Len(s) + 1 \in DOMAIN Append(s, v)
         /\ \A n \in DOMAIN Append(s, v) : n \in DOMAIN s \/ n = Len(s) + 1
         /\ \A n \in DOMAIN s : n < Len(s) + 1
         /\ s # <<>> => Head(Append(s, v)) = Head(s)
         /\ Append(s, v) # <<>>
  BY AppendProperties

-----------------------------------------------------------------------------
(* What the actions assign, variable by variable.                          *)

\* A thread that has nothing in its hands.
LEMMA IdleType ==
  ASSUME NEW point \in Points
  PROVE  /\ IdleThread(point) \in Threads /\ IdleThread(point).pc = point
         /\ ~ IdleThread(point).hasRawInput /\ IdleThread(point).dst = NoBuffers
         /\ IdleThread(point).src = -1
         /\ \A p \in Ports : IdleThread(point).dst[p] = 0
<1>1. NoBuffers \in [Ports -> Nat] /\ \A p \in Ports : NoBuffers[p] = 0
  BY DEF NoBuffers
<1> QED BY <1>1 DEF IdleThread, Threads, NoFrame

\* Goto changes the point only.
LEMMA GotoType ==
  ASSUME th \in Threads, NEW point \in Points, Goto(point)
  PROVE  /\ th' \in Threads /\ th'.pc = point /\ th'.src = th.src /\ th'.dst = th.dst
         /\ th'.hasRawInput = th.hasRawInput
  BY DEF Goto, Threads

\* SetStage changes the stage of one task only.
LEMMA StageType ==
  ASSUME tasks \in Seq(Tasks), NEW i \in DOMAIN tasks, NEW s \in Stages, SetStage(i, s)
  PROVE  /\ tasks' \in Seq(Tasks) /\ Len(tasks') = Len(tasks) /\ DOMAIN tasks' = DOMAIN tasks
         /\ tasks'[i].stage = s
         /\ \A j \in DOMAIN tasks : j # i => tasks'[j] = tasks[j]
         /\ \A j \in DOMAIN tasks :
              /\ tasks'[j].input = tasks[j].input /\ tasks'[j].outputs = tasks[j].outputs
              /\ tasks'[j].left = tasks[j].left /\ tasks'[j].calling = tasks[j].calling
              /\ tasks'[j].last = tasks[j].last /\ tasks'[j].mode = tasks[j].mode
              /\ tasks'[j].missing = tasks[j].missing
<1> DEFINE t == [tasks[i] EXCEPT !.stage = s]
<1>1. tasks[i] \in Tasks
  BY ElementOfSeq
<1>2. /\ t \in Tasks /\ t.stage = s
      /\ t.input = tasks[i].input /\ t.outputs = tasks[i].outputs
      /\ t.left = tasks[i].left /\ t.calling = tasks[i].calling
      /\ t.last = tasks[i].last /\ t.mode = tasks[i].mode /\ t.missing = tasks[i].missing
  BY <1>1 DEF Tasks
<1>3. tasks' = [tasks EXCEPT ![i] = t]
  BY DEF SetStage
<1> HIDE DEF t
<1>4. /\ tasks' \in Seq(Tasks) /\ Len(tasks') = Len(tasks) /\ DOMAIN tasks' = DOMAIN tasks
      /\ tasks'[i] = t /\ \A j \in DOMAIN tasks : j # i => tasks'[j] = tasks[j]
  BY <1>2, <1>3, ExceptSeq
<1> QED BY <1>2, <1>4

\* A table over the places of a sequence is a sequence.
LEMMA TableIsSeq ==
  ASSUME NEW S, NEW s \in Seq(S), NEW f \in [DOMAIN s -> S]
  PROVE  f \in Seq(S) /\ Len(f) = Len(s) /\ DOMAIN f = DOMAIN s
<1>1. DOMAIN s = 1..Len(s) /\ Len(s) \in Nat
  OBVIOUS
<1>2. f \in [1..Len(s) -> S]
  BY <1>1
<1> QED BY <1>1, <1>2, SMT

\* A task with one member replaced ...
LEMMA TaskMember ==
  ASSUME NEW t \in Tasks
  PROVE  /\ \A l \in SUBSET Ports : [t EXCEPT !.left = l] \in Tasks
         /\ \A c \in SUBSET Ports : [t EXCEPT !.calling = c] \in Tasks
         /\ \A m \in Int : [t EXCEPT !.missing = m] \in Tasks
         /\ \A n \in Int : [t EXCEPT !.last = n] \in Tasks
         /\ \A g \in Stages : [t EXCEPT !.stage = g] \in Tasks
<1>1. \A l \in SUBSET Ports : [t EXCEPT !.left = l] \in Tasks
  BY SMTT(30) DEF Tasks
<1>2. \A c \in SUBSET Ports : [t EXCEPT !.calling = c] \in Tasks
  BY SMTT(30) DEF Tasks
<1>3. \A m \in Int : [t EXCEPT !.missing = m] \in Tasks
  BY SMTT(30) DEF Tasks
<1>4. \A n \in Int : [t EXCEPT !.last = n] \in Tasks
  BY SMTT(30) DEF Tasks
<1>5. \A g \in Stages : [t EXCEPT !.stage = g] \in Tasks
  BY SMTT(30) DEF Tasks
<1> QED BY <1>1, <1>2, <1>3, <1>4, <1>5

\* ... with those that CountOutput changes,
WithCount(t, l, c, m, n) == [t EXCEPT !.left = l, !.calling = c, !.missing = m, !.last = n]
LEMMA TaskCount ==
  ASSUME NEW t \in Tasks, NEW l \in SUBSET Ports, NEW c \in SUBSET Ports, NEW m \in Int,
         NEW n \in Int
  PROVE  LET w == WithCount(t, l, c, m, n)
         IN  /\ w \in Tasks /\ w.left = l /\ w.calling = c /\ w.missing = m /\ w.last = n
             /\ w.input = t.input /\ w.outputs = t.outputs
             /\ w.mode = t.mode /\ w.stage = t.stage
<1> DEFINE w == WithCount(t, l, c, m, n)
<1>1. w \in Tasks
  <2>1. PICK a \in Tasks : a = [t EXCEPT !.left = l]
    BY TaskMember
  <2>2. PICK b \in Tasks : b = [a EXCEPT !.calling = c]
    BY TaskMember
  <2>3. PICK d \in Tasks : d = [b EXCEPT !.missing = m]
    BY TaskMember
  <2>4. PICK e \in Tasks : e = [d EXCEPT !.last = n]
    BY TaskMember
  <2>5. w = e
    BY <2>1, <2>2, <2>3, <2>4, SMTT(30) DEF Tasks, WithCount
  <2> QED BY <2>5
<1>2. /\ w.left = l /\ w.calling = c /\ w.missing = m /\ w.last = n
      /\ w.input = t.input /\ w.outputs = t.outputs /\ w.mode = t.mode /\ w.stage = t.stage
  BY SMTT(30) DEF Tasks, WithCount
<1> QED BY <1>1, <1>2

\* ... those of onBufferDone,
WithCall(t, c, g) == [t EXCEPT !.calling = c, !.stage = g]
LEMMA TaskCall ==
  ASSUME NEW t \in Tasks, NEW c \in SUBSET Ports, NEW g \in Stages
  PROVE  LET w == WithCall(t, c, g)
         IN  /\ w \in Tasks /\ w.calling = c /\ w.stage = g
             /\ w.input = t.input /\ w.outputs = t.outputs /\ w.left = t.left
             /\ w.mode = t.mode /\ w.missing = t.missing /\ w.last = t.last
<1> DEFINE w == WithCall(t, c, g)
<1>1. w \in Tasks
  <2>1. PICK a \in Tasks : a = [t EXCEPT !.calling = c]
    BY TaskMember
  <2>2. PICK b \in Tasks : b = [a EXCEPT !.stage = g]
    BY TaskMember
  <2>3. w = b
    BY <2>1, <2>2, SMTT(30) DEF Tasks, WithCall
  <2> QED BY <2>3
<1>2. /\ w.calling = c /\ w.stage = g /\ w.input = t.input
      /\ w.outputs = t.outputs /\ w.left = t.left /\ w.mode = t.mode
      /\ w.missing = t.missing /\ w.last = t.last
  BY SMTT(30) DEF Tasks, WithCall
<1> QED BY <1>1, <1>2

\* ... and those of StopDag.
WithDrop(t) == [t EXCEPT !.left = {}, !.last = 0, !.stage = "dropped"]
LEMMA TaskDrop ==
  ASSUME NEW t \in Tasks
  PROVE  LET w == WithDrop(t)
         IN  /\ w \in Tasks /\ w.left = {} /\ w.last = 0 /\ w.stage = "dropped"
             /\ w.input = t.input /\ w.outputs = t.outputs
             /\ w.mode = t.mode /\ w.calling = t.calling
<1> DEFINE w == WithDrop(t)
<1>1. w \in Tasks
  <2>0. {} \in SUBSET Ports /\ 0 \in Int /\ "dropped" \in Stages
    BY DEF Stages
  <2>1. PICK a \in Tasks : a = [t EXCEPT !.left = {}]
    BY <2>0, TaskMember
  <2>2. PICK b \in Tasks : b = [a EXCEPT !.last = 0]
    BY <2>0, TaskMember
  <2>3. PICK d \in Tasks : d = [b EXCEPT !.stage = "dropped"]
    BY <2>0, TaskMember
  <2>4. w = d
    BY <2>1, <2>2, <2>3, SMTT(30) DEF Tasks, WithDrop
  <2> QED BY <2>4
<1>2. /\ w.left = {} /\ w.last = 0 /\ w.stage = "dropped" /\ w.input = t.input
      /\ w.outputs = t.outputs /\ w.mode = t.mode /\ w.calling = t.calling
  BY SMTT(30) DEF Tasks, WithDrop
<1> QED BY <1>1, <1>2

\* CountOutput moves a port from the ones left to the ones whose callback runs.
LEMMA CountType ==
  ASSUME tasks \in Seq(Tasks), NEW i \in DOMAIN tasks, NEW p \in Ports, CountOutput(i, p)
  PROVE  /\ tasks' \in Seq(Tasks) /\ Len(tasks') = Len(tasks) /\ DOMAIN tasks' = DOMAIN tasks
         /\ tasks'[i].left = tasks[i].left \ {p}
         /\ tasks'[i].calling = tasks[i].calling \cup {p}
         /\ \A j \in DOMAIN tasks : j # i =>
              tasks'[j].left = tasks[j].left /\ tasks'[j].calling = tasks[j].calling
         /\ \A j \in DOMAIN tasks :
              /\ tasks'[j].input = tasks[j].input /\ tasks'[j].outputs = tasks[j].outputs
              /\ tasks'[j].mode = tasks[j].mode /\ tasks'[j].stage = tasks[j].stage
         /\ \E k \in CountedFor(i, p) :
              /\ \A j \in DOMAIN tasks :
                   /\ tasks'[j].missing = IF j = k THEN tasks[j].missing - 1 ELSE tasks[j].missing
                   /\ tasks'[j].last = IF j = k THEN p ELSE tasks[j].last
              /\ cam' = [cam EXCEPT !.stale = @ \/ k # i]
<1> DEFINE l(j) == IF j = i THEN tasks[j].left \ {p} ELSE tasks[j].left
           c(j) == IF j = i THEN tasks[j].calling \cup {p} ELSE tasks[j].calling
           m(j, k) == IF j = k THEN tasks[j].missing - 1 ELSE tasks[j].missing
           n(j, k) == IF j = k THEN p ELSE tasks[j].last
           t(j, k) == [tasks[j] EXCEPT !.left = l(j), !.calling = c(j), !.missing = m(j, k),
                                       !.last = n(j, k)]
<1>1. PICK k \in CountedFor(i, p) :
        /\ tasks' = [j \in DOMAIN tasks |-> t(j, k)]
        /\ cam' = [cam EXCEPT !.stale = @ \/ k # i]
  BY DEF CountOutput
<1>2. ASSUME NEW j \in DOMAIN tasks
      PROVE  /\ tasks[j] \in Tasks /\ l(j) \in SUBSET Ports /\ c(j) \in SUBSET Ports
             /\ m(j, k) \in Int /\ n(j, k) \in Int
  <2>1. tasks[j] \in Tasks /\ p \in Int
    BY ElementOfSeq DEF Ports
  <2>2. /\ tasks[j].left \in SUBSET Ports /\ tasks[j].calling \in SUBSET Ports
        /\ tasks[j].missing \in Int /\ tasks[j].last \in Int
    BY <2>1 DEF Tasks
  <2>3. l(j) \in SUBSET Ports /\ c(j) \in SUBSET Ports
    BY <2>2
  <2>4. m(j, k) \in Int /\ n(j, k) \in Int
    BY <2>1, <2>2
  <2> QED BY <2>1, <2>3, <2>4
<1> HIDE DEF l, c, m, n
<1>3. ASSUME NEW j \in DOMAIN tasks
      PROVE  /\ t(j, k) \in Tasks
             /\ t(j, k).left = l(j) /\ t(j, k).calling = c(j) /\ t(j, k).missing = m(j, k)
             /\ t(j, k).last = n(j, k)
             /\ t(j, k).input = tasks[j].input /\ t(j, k).outputs = tasks[j].outputs
             /\ t(j, k).mode = tasks[j].mode /\ t(j, k).stage = tasks[j].stage
  <2> DEFINE x == tasks[j]  lj == l(j)  cj == c(j)  mj == m(j, k)  nj == n(j, k)
             w == WithCount(x, lj, cj, mj, nj)
  <2>1. /\ x \in Tasks /\ lj \in SUBSET Ports /\ cj \in SUBSET Ports
        /\ mj \in Int /\ nj \in Int
    BY <1>2
  <2> HIDE DEF x, lj, cj, mj, nj
  <2>2. /\ w \in Tasks /\ w.left = lj /\ w.calling = cj /\ w.missing = mj /\ w.last = nj
        /\ w.input = x.input /\ w.outputs = x.outputs
        /\ w.mode = x.mode /\ w.stage = x.stage
    BY <2>1, TaskCount
  <2> QED BY <2>2 DEF x, lj, cj, mj, nj, WithCount
<1> HIDE DEF t
<1>4. tasks' \in [DOMAIN tasks -> Tasks] /\ \A j \in DOMAIN tasks : tasks'[j] = t(j, k)
  BY <1>1, <1>3
<1>5. tasks' \in Seq(Tasks) /\ Len(tasks') = Len(tasks) /\ DOMAIN tasks' = DOMAIN tasks
  BY <1>4, TableIsSeq
<1>6. \A j \in DOMAIN tasks :
        /\ tasks'[j].left = l(j) /\ tasks'[j].calling = c(j)
        /\ tasks'[j].missing = m(j, k) /\ tasks'[j].last = n(j, k)
        /\ tasks'[j].input = tasks[j].input /\ tasks'[j].outputs = tasks[j].outputs
        /\ tasks'[j].mode = tasks[j].mode /\ tasks'[j].stage = tasks[j].stage
  BY <1>3, <1>4
<1> USE DEF l, c, m, n
<1> QED BY <1>1, <1>5, <1>6

\* onBufferDone ends a callback, and the one that counted the last output of a task takes
\* that task on.
LEMMA DoneType ==
  ASSUME tasks \in Seq(Tasks), NEW i \in DOMAIN tasks, NEW p \in Ports, onBufferDone(i, p)
  PROVE  /\ tasks' \in Seq(Tasks) /\ Len(tasks') = Len(tasks) /\ DOMAIN tasks' = DOMAIN tasks
         /\ tasks'[i].calling = tasks[i].calling \ {p}
         /\ \A j \in DOMAIN tasks : j # i => tasks'[j].calling = tasks[j].calling
         /\ \A j \in DOMAIN tasks :
              /\ tasks'[j].input = tasks[j].input /\ tasks'[j].outputs = tasks[j].outputs
              /\ tasks'[j].left = tasks[j].left /\ tasks'[j].mode = tasks[j].mode
              /\ tasks'[j].missing = tasks[j].missing /\ tasks'[j].last = tasks[j].last
              /\ tasks'[j].stage = IF CountedLast(j, i, p) THEN "inputs" ELSE tasks[j].stage
<1> DEFINE c(j) == IF j = i THEN tasks[j].calling \ {p} ELSE tasks[j].calling
           g(j) == IF CountedLast(j, i, p) THEN "inputs" ELSE tasks[j].stage
           t(j) == [tasks[j] EXCEPT !.calling = c(j), !.stage = g(j)]
<1>1. tasks' = [j \in DOMAIN tasks |-> t(j)]
  BY DEF onBufferDone
<1>2. ASSUME NEW j \in DOMAIN tasks
      PROVE  tasks[j] \in Tasks /\ c(j) \in SUBSET Ports /\ g(j) \in Stages
  <2>1. tasks[j] \in Tasks
    BY ElementOfSeq
  <2> QED BY <2>1 DEF Tasks, Stages
<1> HIDE DEF c, g
<1>3. ASSUME NEW j \in DOMAIN tasks
      PROVE  /\ t(j) \in Tasks /\ t(j).calling = c(j) /\ t(j).stage = g(j)
             /\ t(j).input = tasks[j].input /\ t(j).outputs = tasks[j].outputs
             /\ t(j).left = tasks[j].left /\ t(j).mode = tasks[j].mode
             /\ t(j).missing = tasks[j].missing /\ t(j).last = tasks[j].last
  <2> DEFINE x == tasks[j]  cj == c(j)  gj == g(j)
             w == WithCall(x, cj, gj)
  <2>1. x \in Tasks /\ cj \in SUBSET Ports /\ gj \in Stages
    BY <1>2
  <2> HIDE DEF x, cj, gj
  <2>2. /\ w \in Tasks /\ w.calling = cj /\ w.stage = gj
        /\ w.input = x.input /\ w.outputs = x.outputs
        /\ w.left = x.left /\ w.mode = x.mode /\ w.missing = x.missing /\ w.last = x.last
    BY <2>1, TaskCall
  <2> QED BY <2>2 DEF x, cj, gj, WithCall
<1> HIDE DEF t
<1>4. tasks' \in [DOMAIN tasks -> Tasks] /\ \A j \in DOMAIN tasks : tasks'[j] = t(j)
  BY <1>1, <1>3
<1>5. tasks' \in Seq(Tasks) /\ Len(tasks') = Len(tasks) /\ DOMAIN tasks' = DOMAIN tasks
  BY <1>4, TableIsSeq
<1>6. \A j \in DOMAIN tasks :
        /\ tasks'[j].calling = c(j) /\ tasks'[j].stage = g(j)
        /\ tasks'[j].input = tasks[j].input /\ tasks'[j].outputs = tasks[j].outputs
        /\ tasks'[j].left = tasks[j].left /\ tasks'[j].mode = tasks[j].mode
        /\ tasks'[j].missing = tasks[j].missing /\ tasks'[j].last = tasks[j].last
  BY <1>3, <1>4
<1> USE DEF c, g
<1> QED BY <1>5, <1>6

\* PSysDAG::stop() drops what has not run, and what was dropped stays.
LEMMA DropType ==
  ASSUME tasks \in Seq(Tasks), StopDag
  PROVE  /\ tasks' \in Seq(Tasks) /\ Len(tasks') = Len(tasks) /\ DOMAIN tasks' = DOMAIN tasks
         /\ \A j \in DOMAIN tasks :
              /\ tasks[j].stage \in {"run", "dropped"} /\ tasks[j].calling = {}
              /\ tasks'[j].input = tasks[j].input /\ tasks'[j].outputs = tasks[j].outputs
              /\ tasks'[j].mode = tasks[j].mode /\ tasks'[j].calling = {}
              /\ tasks'[j].left = {} /\ tasks'[j].last = 0 /\ tasks'[j].stage = "dropped"
<1> DEFINE t(j) == [tasks[j] EXCEPT !.left = {}, !.last = 0, !.stage = "dropped"]
<1>1. tasks' = [j \in DOMAIN tasks |-> t(j)]
      /\ \A j \in DOMAIN tasks : tasks[j].stage \in {"run", "dropped"} /\ tasks[j].calling = {}
  BY DEF StopDag, Range
<1>2. ASSUME NEW j \in DOMAIN tasks
      PROVE  /\ t(j) \in Tasks /\ t(j).left = {} /\ t(j).last = 0 /\ t(j).stage = "dropped"
             /\ t(j).input = tasks[j].input /\ t(j).outputs = tasks[j].outputs
             /\ t(j).mode = tasks[j].mode /\ t(j).calling = tasks[j].calling
  <2> DEFINE x == tasks[j]
             w == WithDrop(x)
  <2>1. x \in Tasks
    BY ElementOfSeq
  <2> HIDE DEF x
  <2>2. /\ w \in Tasks /\ w.left = {} /\ w.last = 0 /\ w.stage = "dropped"
        /\ w.input = x.input /\ w.outputs = x.outputs
        /\ w.mode = x.mode /\ w.calling = x.calling
    BY <2>1, TaskDrop
  <2> QED BY <2>2 DEF x, WithDrop
<1> HIDE DEF t
<1>3. tasks' \in [DOMAIN tasks -> Tasks] /\ \A j \in DOMAIN tasks : tasks'[j] = t(j)
  BY <1>1, <1>2
<1>4. tasks' \in Seq(Tasks) /\ Len(tasks') = Len(tasks) /\ DOMAIN tasks' = DOMAIN tasks
  BY <1>3, TableIsSeq
<1> QED BY <1>1, <1>2, <1>3, <1>4

\* ForgetTask takes a task out; Before tells where a task was before it.
Before(i, j) == IF j < i THEN j ELSE j + 1

\* The tasks behind a forgotten one move up, the others stay.
LEMMA ForgetType ==
  ASSUME tasks \in Seq(Tasks), NEW i \in DOMAIN tasks, ForgetTask(i)
  PROVE  /\ tasks' \in Seq(Tasks)
         /\ \A j \in DOMAIN tasks' : /\ Before(i, j) \in DOMAIN tasks /\ Before(i, j) # i
                                     /\ tasks'[j] = tasks[Before(i, j)]
         /\ \A j, k \in DOMAIN tasks' : j < k => Before(i, j) < Before(i, k)
         /\ \A j \in DOMAIN tasks : j = i \/ \E k \in DOMAIN tasks' : j = Before(i, k)
<1> DEFINE L == Len(tasks)
<1>1. L \in Nat /\ DOMAIN tasks = 1..L
  OBVIOUS
<1>2. /\ tasks' \in Seq(Tasks) /\ Len(tasks') = L - 1
      /\ \A k \in 1..L - 1 : tasks'[k] = IF k < i THEN tasks[k] ELSE tasks[k + 1]
  BY RemoveAtShifts DEF ForgetTask
<1>3. DOMAIN tasks' = 1..L - 1
  BY <1>2
<1> HIDE DEF L
<1>4. ASSUME NEW j \in DOMAIN tasks'
      PROVE  /\ Before(i, j) \in DOMAIN tasks /\ Before(i, j) # i
             /\ tasks'[j] = tasks[Before(i, j)]
  BY <1>1, <1>2, <1>3, <1>4 DEF Before
<1>5. ASSUME NEW j \in DOMAIN tasks', NEW k \in DOMAIN tasks', j < k
      PROVE  Before(i, j) < Before(i, k)
  BY <1>1, <1>3, <1>5 DEF Before
<1>6. ASSUME NEW j \in DOMAIN tasks, j # i PROVE \E k \in DOMAIN tasks' : j = Before(i, k)
  <2>1. CASE j < i
    <3>1. j \in DOMAIN tasks' /\ Before(i, j) = j
      BY <1>1, <1>3, <2>1 DEF Before
    <3> QED BY <3>1
  <2>2. CASE ~ (j < i)
    <3>1. j - 1 \in DOMAIN tasks' /\ Before(i, j - 1) = j
      BY <1>1, <1>3, <1>6, <2>2 DEF Before
    <3> QED BY <3>1
  <2> QED BY <2>1, <2>2
<1> QED BY <1>2, <1>4, <1>5, <1>6

\* AddTask puts the task of the thread behind the others.
LEMMA AddType ==
  ASSUME tasks \in Seq(Tasks), NEW t \in Tasks, tasks' = Append(tasks, t)
  PROVE  /\ tasks' \in Seq(Tasks) /\ Len(tasks') = Len(tasks) + 1
         /\ Len(tasks) + 1 \in DOMAIN tasks' /\ tasks'[Len(tasks) + 1] = t
         /\ \A j \in DOMAIN tasks : j \in DOMAIN tasks' /\ tasks'[j] = tasks[j]
         /\ \A j \in DOMAIN tasks' : j \in DOMAIN tasks \/ j = Len(tasks) + 1
         /\ \A j \in DOMAIN tasks : j < Len(tasks) + 1
  BY AppendProperties

\* Deliver gives each stream its buffer.
LEMMA DeliverType ==
  ASSUME delivered \in [Ports -> Seq(Nat)], NEW b \in [Ports -> Nat], Deliver(b)
  PROVE  /\ delivered' \in [Ports -> Seq(Nat)]
         /\ \A p \in Ports : delivered'[p] = IF b[p] = 0 THEN delivered[p]
                                             ELSE Append(delivered[p], b[p])
<1>1. \A p \in Ports : Append(delivered[p], b[p]) \in Seq(Nat)
  OBVIOUS
<1> QED BY <1>1 DEF Deliver

\* GiveBack takes frames from the ones that are out.
LEMMA GiveBackType ==
  ASSUME RawType, NEW frames, IsFiniteSet(frames), GiveBack(frames)
  PROVE  /\ captured' = captured \ frames /\ captured' \in SUBSET Nat /\ IsFiniteSet(captured')
         /\ rawWithProducer' = rawWithProducer + Cardinality(frames) /\ rawWithProducer' \in Int
<1>1. captured' = captured \ frames /\ rawWithProducer' = rawWithProducer + Cardinality(frames)
  BY DEF GiveBack
<1>2. IsFiniteSet(captured \ frames)
  BY FS_Subset DEF RawType
<1>3. Cardinality(frames) \in Nat
  BY FS_CardinalityType
<1>4. captured' \in SUBSET Nat /\ IsFiniteSet(captured')
  BY <1>1, <1>2, Zenon DEF RawType
<1>5. rawWithProducer' \in Int
  BY <1>1, <1>3 DEF RawType
<1> QED BY <1>1, <1>4, <1>5

\* A frame goes back unless one of its sequence is kept.
LEMMA UnlessHeldType ==
  ASSUME RawType, NEW f \in Int, GiveBackUnlessHeld(f)
  PROVE  /\ captured' \in SUBSET Nat /\ IsFiniteSet(captured') /\ rawWithProducer' \in Int
         /\ isBufferHoldForRawReprocess(f) =>
              captured' = captured /\ rawWithProducer' = rawWithProducer
         /\ ~ isBufferHoldForRawReprocess(f) =>
              captured' = captured \ {f} /\ rawWithProducer' = rawWithProducer + 1
<1> DEFINE back == {g \in {f} : ~ isBufferHoldForRawReprocess(g)}
<1>0. GiveBack(back)
  BY DEF GiveBackUnlessHeld
<1>1. CASE isBufferHoldForRawReprocess(f)
  <2>1. back = {} /\ IsFiniteSet(back) /\ Cardinality(back) = 0
    BY <1>1, FS_EmptySet
  <2> HIDE DEF back
  <2>2. /\ captured' = captured \ back /\ captured' \in SUBSET Nat /\ IsFiniteSet(captured')
        /\ rawWithProducer' = rawWithProducer + 0 /\ rawWithProducer' \in Int
    BY <1>0, <2>1, GiveBackType
  <2> QED BY <1>1, <2>1, <2>2 DEF RawType
<1>2. CASE ~ isBufferHoldForRawReprocess(f)
  <2>1. back = {f} /\ IsFiniteSet(back) /\ Cardinality(back) = 1
    BY <1>2, FS_Singleton
  <2> HIDE DEF back
  <2>2. /\ captured' = captured \ back /\ captured' \in SUBSET Nat /\ IsFiniteSet(captured')
        /\ rawWithProducer' = rawWithProducer + 1 /\ rawWithProducer' \in Int
    BY <1>0, <2>1, GiveBackType
  <2> QED BY <1>2, <2>1, <2>2
<1> QED BY <1>1, <1>2

\* returnRawBuffer gives back what it keeps no longer.
LEMMA ReturnType ==
  ASSUME RawType, ReturnRaw
  PROVE  /\ RawType' /\ mRawBufferMap' \subseteq mRawBufferMap
         /\ captured' = captured \ (mRawBufferMap \ mRawBufferMap')
         /\ mRawBufferMap = {} => UNCHANGED rawVars
<1>1. CASE Cardinality(mRawBufferMap) > RawLimit /\ Unused(Min(mRawBufferMap))
  <2> DEFINE f == Min(mRawBufferMap)
  <2>1. mRawBufferMap # {}
    <3>1. SUFFICES ASSUME mRawBufferMap = {} PROVE FALSE
      OBVIOUS
    <3>2. Cardinality(mRawBufferMap) = 0
      BY <3>1, FS_EmptySet
    <3> QED BY <1>1, <3>2, Constants
  <2>2. f \in mRawBufferMap
    BY <2>1, MinIn DEF RawType
  <2>3. GiveBack({f}) /\ mRawBufferMap' = mRawBufferMap \ {f} /\ IsFiniteSet({f})
    BY <1>1, FS_Singleton DEF ReturnRaw
  <2> HIDE DEF f
  <2>4. /\ captured' = captured \ {f} /\ captured' \in SUBSET Nat /\ IsFiniteSet(captured')
        /\ rawWithProducer' \in Int
    BY <2>3, GiveBackType
  <2>5. mRawBufferMap' \in SUBSET Nat
    BY <2>3 DEF RawType
  <2>6. RawType'
    BY <2>4, <2>5 DEF RawType
  <2> QED BY <2>1, <2>2, <2>3, <2>4, <2>6
<1>2. CASE ~ (Cardinality(mRawBufferMap) > RawLimit /\ Unused(Min(mRawBufferMap)))
  <2>1. UNCHANGED rawVars
    BY <1>2 DEF ReturnRaw
  <2>2. mRawBufferMap' = mRawBufferMap /\ captured' = captured /\ rawWithProducer' = rawWithProducer
    BY <2>1 DEF rawVars
  <2> QED BY <2>1, <2>2 DEF RawType
<1> QED BY <1>1, <1>2

\* waitFreeBuffersInQueue looks at the fronts of the queues.
LEMMA WaitType ==
  ASSUME TypeInv, waitFreeBuffersInQueue
  PROVE  /\ th' \in Threads /\ th'.pc = IF mOpaqueRawPort = 0 THEN "pop" ELSE "raw"
         /\ th'.src = Head(mInputQueue) /\ th'.src \in Nat /\ mInputQueue # <<>>
         /\ ~ th'.hasRawInput
         /\ \A p \in Ports : mOutputQueue[p] # <<>> /\ th'.dst[p] = Head(mOutputQueue[p])
<1>1. \A p \in Ports : mOutputQueue[p] # <<>> /\ Head(mOutputQueue[p]) \in Nat
  BY HeadTailProperties DEF waitFreeBuffersInQueue, TypeInv, QueueType
<1>2. mInputQueue # <<>> /\ Head(mInputQueue) \in Nat
  BY HeadTailProperties DEF waitFreeBuffersInQueue, TypeInv, QueueType
<1>3. [p \in Ports |-> Head(mOutputQueue[p])] \in [Ports -> Nat]
  BY <1>1
<1> DEFINE point == IF mOpaqueRawPort = 0 THEN "pop" ELSE "raw"
           d == [p \in Ports |-> Head(mOutputQueue[p])]
           s == Head(mInputQueue)
<1>4. th' = [pc |-> point, src |-> s, dst |-> d, hasRawInput |-> FALSE]
  BY DEF waitFreeBuffersInQueue
<1>5. point \in Points /\ s \in Int /\ \A p \in Ports : d[p] = Head(mOutputQueue[p])
  BY <1>2 DEF Points
<1> HIDE DEF point, d, s
<1>6. d \in [Ports -> Nat]
  BY <1>3 DEF d
<1>7. th' \in Threads /\ th'.pc = point /\ th'.src = s /\ th'.dst = d /\ ~ th'.hasRawInput
  BY <1>4, <1>5, <1>6 DEF Threads
<1> QED BY <1>1, <1>2, <1>5, <1>7 DEF point, s

\* What handleRawReprocessing returns to the raw stream
RawOutput == [NoBuffers EXCEPT ![mOpaqueRawPort] = th.dst[mOpaqueRawPort]]

\* The raw output has a buffer for the opaque raw stream only.
LEMMA RawOutputType ==
  ASSUME TypeInv
  PROVE  /\ RawOutput \in [Ports -> Nat]
         /\ \A p \in Ports : RawOutput[p] = IF p = mOpaqueRawPort THEN th.dst[p] ELSE 0
         /\ RawOutput # NoBuffers => mOpaqueRawPort \in Ports /\ th.dst[mOpaqueRawPort] # 0
         /\ mOpaqueRawPort \in Ports /\ th.dst[mOpaqueRawPort] # 0 => RawOutput # NoBuffers
<1>1. th.dst \in [Ports -> Nat] /\ NoBuffers \in [Ports -> Nat] /\ \A p \in Ports : NoBuffers[p] = 0
  BY DEF TypeInv, Threads, NoBuffers
<1>2. mOpaqueRawPort \in Ports \/ RawOutput = NoBuffers
  BY <1>1 DEF RawOutput
<1>3. RawOutput \in [Ports -> Nat]
  BY <1>1, <1>2 DEF RawOutput
<1>4. \A p \in Ports : RawOutput[p] = IF p = mOpaqueRawPort THEN th.dst[p] ELSE 0
  BY <1>1 DEF RawOutput
<1>5. ASSUME \A p \in Ports : RawOutput[p] = 0 PROVE RawOutput = NoBuffers
  BY <1>1, <1>3, <1>5
<1> QED BY <1>1, <1>2, <1>3, <1>4, <1>5

\* handleRawReprocessing goes on with the frame, or with one that is kept.
LEMMA RawStepType ==
  ASSUME TypeInv, handleRawReprocessing
  PROVE  /\ th' \in Threads /\ th'.dst = th.dst /\ th'.pc \in {"save", "pop"} /\ ThAt("raw")
         /\ \/ th'.src = th.src /\ th'.hasRawInput = th.hasRawInput
            \/ /\ th'.src \in mRawBufferMap /\ th'.hasRawInput /\ th'.pc = "pop"
               /\ SequenceOf(th'.src) = Setting /\ RawOutput = NoBuffers
         /\ \/ /\ RawOutput # NoBuffers /\ needExecutePipe(Setting, Seq0) /\ Deliver(RawOutput)
               /\ th'.pc = "save"
            \/ /\ UNCHANGED delivered /\ th'.pc = "pop"
               /\ RawOutput = NoBuffers \/ ~ needExecutePipe(Setting, Seq0)
<1> DEFINE kept == {f \in mRawBufferMap : SequenceOf(f) = Setting}
<1>0. th \in Threads /\ mRawBufferMap \in SUBSET Nat /\ "save" \in Points /\ "pop" \in Points
  BY DEF TypeInv, RawType, Points
<1>1. ThAt("raw")
  BY DEF handleRawReprocessing
<1>2. CASE RawOutput # NoBuffers
  <2>1. CASE needExecutePipe(Setting, Seq0)
    <3>1. Deliver(RawOutput) /\ Goto("save")
      BY <1>2, <2>1 DEF handleRawReprocessing, RawOutput
    <3> QED BY <1>0, <1>1, <1>2, <2>1, <3>1, GotoType
  <2>2. CASE ~ needExecutePipe(Setting, Seq0)
    <3>1. Goto("pop") /\ UNCHANGED delivered
      BY <1>2, <2>2 DEF handleRawReprocessing, RawOutput
    <3> QED BY <1>0, <1>1, <2>2, <3>1, GotoType
  <2> QED BY <2>1, <2>2
<1>3. CASE RawOutput = NoBuffers
  <2>0. UNCHANGED delivered
    BY <1>3 DEF handleRawReprocessing, RawOutput
  <2>1. CASE needHoldOnInputFrame(Setting, Seq0) /\ kept # {}
    <3> DEFINE m == Min(kept)
    <3>1. m \in kept
      BY <1>0, <2>1, MinIn
    <3>2. th' = [th EXCEPT !.pc = "pop", !.src = m, !.hasRawInput = TRUE]
      BY <1>3, <2>1 DEF handleRawReprocessing, RawOutput
    <3> HIDE DEF m
    <3>3. m \in mRawBufferMap /\ SequenceOf(m) = Setting /\ m \in Int
      BY <1>0, <3>1
    <3> HIDE DEF kept
    <3>4. th' \in Threads /\ th'.dst = th.dst /\ th'.pc = "pop" /\ th'.src = m /\ th'.hasRawInput
      BY <1>0, <3>2, <3>3 DEF Threads, Points
    <3> QED BY <1>1, <1>3, <2>0, <3>3, <3>4
  <2>2. CASE ~ (needHoldOnInputFrame(Setting, Seq0) /\ kept # {})
    <3>1. Goto("pop")
      BY <1>3, <2>2 DEF handleRawReprocessing, RawOutput
    <3> QED BY <1>0, <1>1, <1>3, <2>0, <3>1, GotoType
  <2> QED BY <2>1, <2>2
<1> QED BY <1>2, <1>3

\* The raw frame is saved: its output is the thread's no longer.
LEMMA SavedType ==
  ASSUME TypeInv, SavedRaw
  PROVE  /\ th' \in Threads /\ th'.src = th.src /\ th'.hasRawInput = th.hasRawInput /\ ThAt("saved")
         /\ \/ /\ th'.pc = "allDone" /\ th'.dst = th.dst
               /\ \A p \in Ports : p # mOpaqueRawPort => th.dst[p] = 0
            \/ /\ th'.pc = "pop"
               /\ \A p \in Ports : th'.dst[p] = IF p = mOpaqueRawPort THEN 0 ELSE th.dst[p]
               /\ \E p \in Ports : th'.dst[p] # 0
<1> DEFINE rest == [th.dst EXCEPT ![mOpaqueRawPort] = 0]
<1>1. th \in Threads /\ th.dst \in [Ports -> Nat]
  BY DEF TypeInv, Threads
<1>2. rest \in [Ports -> Nat] /\ \A p \in Ports : rest[p] = IF p = mOpaqueRawPort THEN 0 ELSE th.dst[p]
  BY <1>1
<1>3. th' = [th EXCEPT !.dst = IF rest = NoBuffers THEN th.dst ELSE rest,
                       !.pc = IF rest = NoBuffers THEN "allDone" ELSE "pop"]
  BY DEF SavedRaw
<1>4. ThAt("saved")
  BY DEF SavedRaw
<1> HIDE DEF rest
<1>5. CASE rest = NoBuffers
  <2>1. th' \in Threads /\ th'.src = th.src /\ th'.hasRawInput = th.hasRawInput
        /\ th'.pc = "allDone" /\ th'.dst = th.dst
    BY <1>1, <1>3, <1>5 DEF Threads, Points
  <2>2. \A p \in Ports : p # mOpaqueRawPort => th.dst[p] = 0
    BY <1>2, <1>5 DEF NoBuffers
  <2> QED BY <1>4, <2>1, <2>2
<1>6. CASE rest # NoBuffers
  <2>1. th' \in Threads /\ th'.src = th.src /\ th'.hasRawInput = th.hasRawInput
        /\ th'.pc = "pop" /\ th'.dst = rest
    BY <1>1, <1>2, <1>3, <1>6 DEF Threads, Points
  <2>2. \E p \in Ports : rest[p] # 0
    BY <1>2, <1>6 DEF NoBuffers
  <2> QED BY <1>2, <1>4, <2>1, <2>2
<1> QED BY <1>5, <1>6

\* NewTask is what the thread has in its hands.
LEMMA NewTaskType ==
  ASSUME TypeInv, ThAt("queue")
  PROVE  /\ NewTask \in Tasks /\ NewTask.input = th.src /\ NewTask.outputs = th.dst
         /\ NewTask.left = ValidPorts(th.dst) /\ NewTask.calling = {}
         /\ NewTask.mode = mCurConfigMode /\ NewTask.stage = "run"
         /\ NewTask.missing = Cardinality(NewTask.left) /\ NewTask.missing \in Int
<1>1. ValidPorts(th.dst) \subseteq Ports
  BY DEF ValidPorts
<1>2. IsFiniteSet(Ports)
  BY FS_Interval, Constants DEF Ports
<1>3. Cardinality(ValidPorts(th.dst)) \in Int
  BY <1>1, <1>2, FS_Subset, FS_CardinalityType
<1> QED BY <1>1, <1>3 DEF NewTask, Tasks, TypeInv, Threads, Stages, HasFrame, ThAt

\* The requests stay requests when one begins ...
LEMMA NextRequestType ==
  ASSUME TypeInv, NextRequest
  PROVE  /\ requests' \in Requests /\ requests.port = 0 /\ requests'.port = 1
         /\ Len(requests'.list) = Len(requests.list) + 1
         /\ \A n \in DOMAIN requests.list : requests'.list[n] = requests.list[n]
<1>1. requests \in Requests /\ requests.port = 0
  BY DEF TypeInv, NextRequest
<1>a. PICK kind \in RequestKinds : \E setting \in Settings(kind) :
        requests' = [list |-> Append(requests.list, [ports |-> kind, setting |-> setting]),
                     port |-> 1, last |-> Max({requests.last, setting})]
  BY DEF NextRequest
<1>2. PICK setting \in Settings(kind) :
        requests' = [list |-> Append(requests.list, [ports |-> kind, setting |-> setting]),
                     port |-> 1, last |-> Max({requests.last, setting})]
  BY <1>a
<1>3. kind \in SUBSET Ports /\ setting \in Sequences0 /\ setting \in Int
  BY ProcessorAssumption DEF Settings, Sequences0
<1> DEFINE r == [ports |-> kind, setting |-> setting]
           l == Append(requests.list, r)
           m == Max({requests.last, setting})
<1>4. r \in [ports : SUBSET Ports, setting : Sequences0]
  BY <1>3
<1>5. m \in Int
  BY <1>1, <1>3, MaxOfTwo DEF Requests
<1> HIDE DEF r
<1>6. requests.list \in Seq([ports : SUBSET Ports, setting : Sequences0])
  BY <1>1 DEF Requests
<1>7. /\ l \in Seq([ports : SUBSET Ports, setting : Sequences0])
      /\ Len(l) = Len(requests.list) + 1
      /\ \A n \in DOMAIN requests.list : l[n] = requests.list[n]
  BY <1>4, <1>6, AppendProperties
<1>8. requests' = [list |-> l, port |-> 1, last |-> m]
  BY <1>2 DEF r
<1> HIDE DEF l, m
<1>9. 1 \in 0..NumPorts
  BY Constants
<1> QED BY <1>1, <1>5, <1>7, <1>8, <1>9 DEF Requests

\* ... and when a buffer of the last one is queued.
LEMMA QueueOutputType ==
  ASSUME TypeInv, QueueOutput
  PROVE  /\ requests' \in Requests /\ requests.port \in Ports /\ requests'.list = requests.list
         /\ requests'.port = IF requests.port = NumPorts THEN 0 ELSE requests.port + 1
         /\ mOutputQueue' \in [Ports -> Seq(Nat)]
         /\ \E buffer \in {0, Len(requests.list)} :
              mOutputQueue'[requests.port] = Append(mOutputQueue[requests.port], buffer)
         /\ \A p \in Ports : p # requests.port => mOutputQueue'[p] = mOutputQueue[p]
<1> DEFINE n == Len(requests.list)
           port == requests.port
           buffer == IF port \in requests.list[n].ports THEN n ELSE 0
           next == IF port = NumPorts THEN 0 ELSE port + 1
<1>1. requests \in Requests /\ port # 0 /\ port \in 0..NumPorts /\ NumPorts \in Nat
  BY Constants DEF TypeInv, QueueOutput, Requests
<1>2. port \in Ports /\ next \in 0..NumPorts
  BY <1>1 DEF Ports
<1>3. n \in Nat
  BY <1>1 DEF Requests
<1>4. buffer \in Nat /\ buffer \in {0, n}
  BY <1>3
<1>5. mOutputQueue' = [mOutputQueue EXCEPT ![port] = Append(@, buffer)]
  BY DEF QueueOutput
<1>6. requests' = [requests EXCEPT !.port = next]
  BY DEF QueueOutput
<1>7. mOutputQueue \in [Ports -> Seq(Nat)]
  BY DEF TypeInv, QueueType
<1> HIDE DEF n, buffer, next
<1>8. mOutputQueue' \in [Ports -> Seq(Nat)]
  BY <1>2, <1>4, <1>5, <1>7, AppendAt
<1>9. requests' \in Requests /\ requests'.list = requests.list /\ requests'.port = next
  BY <1>1, <1>2, <1>6 DEF Requests
<1>10. /\ mOutputQueue'[port] = Append(mOutputQueue[port], buffer)
       /\ \A p \in Ports : p # port => mOutputQueue'[p] = mOutputQueue[p]
  BY <1>2, <1>5, <1>7
<1> QED BY <1>2, <1>4, <1>8, <1>9, <1>10 DEF n, next

\* The variables that make up the groups.
LEMMA Groups ==
  /\ UNCHANGED queueVars <=> mInputQueue' = mInputQueue /\ mOutputQueue' = mOutputQueue
  /\ UNCHANGED rawVars <=> /\ mRawBufferMap' = mRawBufferMap /\ captured' = captured
                           /\ rawWithProducer' = rawWithProducer
  /\ UNCHANGED envVars <=> requests' = requests /\ cam' = cam
  BY DEF queueVars, rawVars, envVars

-----------------------------------------------------------------------------
(* The types, action by action.                                            *)

\* A frame is a natural number.
LEMMA FrameType ==
  ASSUME NEW session \in Nat, NEW seq \in Nat
  PROVE  Frame(session, seq) \in Nat
<1>1. session * MaxFrames \in Nat
  BY Constants
<1> QED BY <1>1 DEF Frame

\* A table of counters with one more, or one less.
LEMMA CountersType ==
  ASSUME NEW D, NEW f \in [D -> Nat], NEW x \in D
  PROVE  /\ [f EXCEPT ![x] = @ + 1] \in [D -> Nat]
         /\ [f EXCEPT ![x] = IF @ > 0 THEN @ - 1 ELSE 0] \in [D -> Nat]
<1>1. f[x] + 1 \in Nat /\ (IF f[x] > 0 THEN f[x] - 1 ELSE 0) \in Nat
  OBVIOUS
<1> QED BY <1>1

\* The steps of the process thread keep the types ...
LEMMA ThreadTypes ==
  ASSUME TypeInv, ControlInv, ProcessThread
  PROVE  TypeInv'
<1> USE Groups
<1>0. /\ "loop" \in Points /\ "exited" \in Points /\ "saved" \in Points /\ "skip" \in Points
      /\ "dispatch" \in Points /\ "switch" \in Points /\ "add" \in Points /\ "queue" \in Points
  BY DEF Points
<1>idle. ASSUME NEW point \in {"loop", "exited"}, th' = IdleThread(point)
         PROVE  th' \in Threads /\ (HasFrame => th.src \in Nat)'
  BY <1>idle, <1>0, IdleType DEF HasFrame
<1>goto. ASSUME NEW point \in Points, Goto(point), HasFrame
         PROVE  th' \in Threads /\ (HasFrame => th.src \in Nat)'
  BY <1>goto, GotoType DEF HasFrame, TypeInv
<1>pop. ASSUME Taking, PopOutputs PROVE mOutputQueue' \in [Ports -> Seq(Nat)]
  BY <1>pop, TailAll DEF TypeInv, QueueType, ControlInv, Fronts, PopOutputs
<1>popIn. ASSUME Taking PROVE Tail(mInputQueue) \in Seq(Nat)
  BY <1>popIn, HeadTailProperties DEF TypeInv, QueueType, ControlInv, Fronts
<1>insert. ASSUME HasFrame, InsertInflight PROVE mSequencesInflight' \in [Sequences0 -> Nat]
  BY <1>insert, SequenceType, CountersType, ZenonT(30) DEF TypeInv, Threads, QueueType, InsertInflight, HasFrame
<1>1. CASE waitFreeBuffersInQueue
  BY <1>1, WaitType DEF waitFreeBuffersInQueue, TypeInv, QueueType, RawType, HasFrame
<1>2. CASE ThreadExits
  BY <1>2, <1>idle DEF ThreadExits, TypeInv, QueueType, RawType
<1>3. CASE handleRawReprocessing
  <2>1. delivered' \in [Ports -> Seq(Nat)]
    BY <1>3, RawStepType, RawOutputType, DeliverType DEF TypeInv, QueueType
  <2>2. th' \in Threads /\ th'.src \in Nat
    BY <1>3, RawStepType DEF TypeInv, RawType, HasFrame, ThAt
  <2> QED BY <1>3, <2>1, <2>2 DEF handleRawReprocessing, TypeInv, QueueType, RawType
<1>4. CASE SaveRaw
  <2>1. th' \in Threads /\ (HasFrame => th.src \in Nat)'
    BY <1>4, <1>0, <1>goto DEF SaveRaw, HasFrame, ThAt
  <2>2. RawType'
    BY <1>4 DEF SaveRaw, TypeInv, RawType, HasFrame, ThAt
  <2> QED BY <1>4, <2>1, <2>2 DEF SaveRaw, TypeInv, QueueType
<1>5. CASE SavedRaw
  <2>1. th' \in Threads /\ th'.src \in Nat
    BY <1>5, SavedType DEF TypeInv, HasFrame, ThAt
  <2>2. RawType'
    BY <1>5, ReturnType DEF SavedRaw, TypeInv
  <2> QED BY <1>5, <2>1, <2>2 DEF SavedRaw, TypeInv, QueueType
<1>6. CASE AllBufDone
  <2>1. Taking
    BY <1>6 DEF AllBufDone, ThAt, Taking
  <2> QED BY <1>6, <2>1, <1>pop, <1>popIn, <1>idle DEF AllBufDone, TypeInv, QueueType, RawType
<1>7. CASE PopQueues
  <2>1. Taking /\ HasFrame
    BY <1>7 DEF PopQueues, ThAt, Taking, HasFrame
  <2>2. mOutputQueue' \in [Ports -> Seq(Nat)] /\ mInputQueue' \in Seq(Nat)
    BY <1>7, <2>1, <1>pop, <1>popIn DEF PopQueues, TypeInv, QueueType
  <2>3. th' \in Threads /\ (HasFrame => th.src \in Nat)'
    BY <1>7, <2>1, <1>0, <1>goto DEF PopQueues
  <2> QED BY <1>7, <2>2, <2>3 DEF PopQueues, TypeInv, QueueType, RawType
<1>8. CASE SkipInput
  <2>1. captured' \in SUBSET Nat /\ IsFiniteSet(captured') /\ rawWithProducer' \in Int
    BY <1>8, UnlessHeldType DEF SkipInput, TypeInv, Threads
  <2> QED BY <1>8, <2>1, <1>idle DEF SkipInput, TypeInv, QueueType, RawType
<1>9. CASE Dispatch
  <2>1. HasFrame /\ Seq0 \in Sequences0
    BY <1>9, SequenceType DEF Dispatch, ThAt, HasFrame, Seq0, TypeInv, Threads
  <2>2. mCurConfigMode' \in Modes
    BY <1>9, <2>1, ProcessorAssumption DEF Dispatch, Modes, Range
  <2>3. mSequencesInflight' \in [Sequences0 -> Nat]
    BY <1>9, <2>1, <1>insert DEF Dispatch, TypeInv, QueueType
  <2>4. th' \in Threads /\ (HasFrame => th.src \in Nat)'
    BY <1>9, <2>1, <1>0, <1>goto DEF Dispatch
  <2> QED BY <1>9, <2>2, <2>3, <2>4 DEF Dispatch, TypeInv, QueueType, RawType
<1>10. CASE SwitchPipe
  <2>1. HasFrame
    BY <1>10 DEF SwitchPipe, ThAt, HasFrame
  <2>2. th' \in Threads /\ (HasFrame => th.src \in Nat)'
    BY <1>10, <2>1, <1>0, <1>goto DEF SwitchPipe
  <2> QED BY <1>10, <2>1, <2>2, <1>insert DEF SwitchPipe, TypeInv, QueueType, RawType
<1>11. CASE SwitchFails
  BY <1>11, <1>idle DEF SwitchFails, TypeInv, QueueType, RawType
<1>12. CASE CheckRunning
  <2>1. th' \in Threads /\ (HasFrame => th.src \in Nat)'
    <3>1. CASE mThreadRunning
      BY <1>12, <3>1, <1>0, <1>goto DEF CheckRunning, Goto, HasFrame, ThAt
    <3>2. CASE ~ mThreadRunning
      BY <1>12, <3>2, <1>idle DEF CheckRunning
    <3> QED BY <3>1, <3>2
  <2> QED BY <1>12, <2>1 DEF CheckRunning, TypeInv, QueueType, RawType
<1>13. CASE AddTask
  <2>1. tasks' \in Seq(Tasks)
    BY <1>13, NewTaskType, AddType DEF AddTask, TypeInv
  <2> QED BY <1>13, <2>1, <1>idle DEF AddTask, TypeInv, QueueType, RawType
<1> QED BY <1>1, <1>2, <1>3, <1>4, <1>5, <1>6, <1>7, <1>8, <1>9, <1>10, <1>11, <1>12, <1>13
        DEF ProcessThread

\* ... and so do those of the threads of the PSysDAG ...
LEMMA DagTypes ==
  ASSUME TypeInv, NEW i \in DOMAIN tasks, TaskStep(i)
  PROVE  TypeInv'
<1> USE Groups
<1>a. tasks \in Seq(Tasks) /\ tasks[i] \in Tasks
  BY ElementOfSeq DEF TypeInv
<1>0. /\ tasks \in Seq(Tasks) /\ tasks[i].input \in Nat /\ tasks[i].outputs \in [Ports -> Nat]
      /\ "erase" \in Stages /\ "raw" \in Stages /\ "done" \in Stages
  BY <1>a DEF Tasks, Stages
<1>1. ASSUME NEW p \in Ports, CountOutput(i, p) PROVE TypeInv'
  <2>1. tasks' \in Seq(Tasks) /\ \E b \in BOOLEAN : cam' = [cam EXCEPT !.stale = b]
    BY <1>0, <1>1, CountType DEF Cameras, TypeInv
  <2>2. cam' \in Cameras
    BY <2>1 DEF Cameras, TypeInv
  <2> QED BY <1>1, <2>1, <2>2 DEF CountOutput, TypeInv, QueueType, RawType, HasFrame
<1>2. ASSUME NEW p \in Ports, onBufferDone(i, p) PROVE TypeInv'
  <2>1. tasks' \in Seq(Tasks)
    BY <1>0, <1>2, DoneType
  <2> DEFINE b == [NoBuffers EXCEPT ![p] = tasks[i].outputs[p]]
  <2>2. b \in [Ports -> Nat]
    BY <1>0 DEF NoBuffers
  <2>3. UNCHANGED delivered \/ Deliver(b)
    BY <1>2 DEF onBufferDone
  <2> HIDE DEF b
  <2>4. delivered' \in [Ports -> Seq(Nat)]
    BY <2>2, <2>3, DeliverType DEF TypeInv, QueueType
  <2> QED BY <1>2, <2>1, <2>4 DEF onBufferDone, TypeInv, QueueType, RawType, HasFrame
<1>3. CASE FrameDone(i)
  <2>1. tasks' \in Seq(Tasks)
    BY <1>0, <1>3, StageType DEF FrameDone
  <2>2. RawType'
    <3>1. CASE UNCHANGED <<captured, rawWithProducer>>
      BY <1>3, <3>1 DEF FrameDone, TypeInv, RawType
    <3>2. CASE GiveBackUnlessHeld(tasks[i].input)
      BY <1>0, <1>3, <3>2, UnlessHeldType DEF FrameDone, TypeInv, RawType
    <3> QED BY <1>3, <3>1, <3>2 DEF FrameDone
  <2> QED BY <1>3, <2>1, <2>2 DEF FrameDone, TypeInv, QueueType, HasFrame
<1>4. CASE EraseInflight(i)
  <2>1. tasks' \in Seq(Tasks)
    BY <1>0, <1>4, StageType DEF EraseInflight
  <2>2. mSequencesInflight' \in [Sequences0 -> Nat]
    <3> DEFINE x == SequenceOf(tasks[i].input)
    <3>1. x \in Sequences0 /\ mSequencesInflight \in [Sequences0 -> Nat]
      BY <1>0, SequenceType, SMTT(30) DEF TypeInv, QueueType
    <3>2. mSequencesInflight' = [mSequencesInflight EXCEPT ![x] = IF @ > 0 THEN @ - 1 ELSE 0]
      BY <1>4 DEF EraseInflight
    <3> HIDE DEF x
    <3> QED BY <3>1, <3>2, CountersType
  <2> QED BY <1>4, <2>1, <2>2 DEF EraseInflight, TypeInv, QueueType, RawType, HasFrame
<1>5. CASE FinishTask(i)
  <2>1. tasks' \in Seq(Tasks)
    BY <1>0, <1>5, StageType DEF FinishTask
  <2>2. RawType'
    BY <1>5, ReturnType DEF FinishTask, TypeInv
  <2> QED BY <1>5, <2>1, <2>2 DEF FinishTask, TypeInv, QueueType, HasFrame
<1>6. CASE ForgetTask(i)
  <2>1. tasks' \in Seq(Tasks)
    BY <1>0, <1>6, ForgetType
  <2> QED BY <1>6, <2>1 DEF ForgetTask, TypeInv, QueueType, RawType, HasFrame
<1> QED BY <1>1, <1>2, <1>3, <1>4, <1>5, <1>6 DEF TaskStep

\* ... and those of the environment.
LEMMA EnvironmentTypes ==
  ASSUME TypeInv, Environment
  PROVE  TypeInv'
<1> USE Groups
<1>1. CASE NextRequest
  BY <1>1, NextRequestType DEF NextRequest, TypeInv, QueueType, RawType, HasFrame
<1>2. CASE QueueOutput
  BY <1>2, QueueOutputType DEF QueueOutput, TypeInv, QueueType, RawType, HasFrame
<1>3. CASE onFrameAvailable
  <2> DEFINE f == Frame(cam.session, cam.frames)
  <2>1. cam \in Cameras /\ cam.session \in Nat /\ cam.frames \in Nat
    BY Constants DEF TypeInv, Cameras
  <2>2. f \in Nat
    BY <2>1, FrameType
  <2>3. /\ mInputQueue' = Append(mInputQueue, f) /\ captured' = captured \cup {f}
        /\ rawWithProducer' = rawWithProducer - 1 /\ mRawBufferMap' = mRawBufferMap
    BY <1>3 DEF onFrameAvailable
  <2> HIDE DEF f
  <2>4. RawType'
    BY <2>2, <2>3, FS_AddElement DEF RawType, TypeInv
  <2>5. mInputQueue' \in Seq(Nat)
    BY <2>2, <2>3 DEF TypeInv, QueueType
  <2>6. cam' \in Cameras
    BY <1>3, <2>1, Constants, SMTT(30) DEF onFrameAvailable, Restarts, Cameras
  <2> QED BY <1>3, <2>4, <2>5, <2>6 DEF onFrameAvailable, TypeInv, QueueType, HasFrame
<1>4. CASE LoseFrame
  <2>1. cam' \in Cameras
    BY <1>4, Constants DEF LoseFrame, Restarts, Cameras, TypeInv
  <2> QED BY <1>4, <2>1 DEF LoseFrame, TypeInv, QueueType, RawType, HasFrame
<1>5. CASE start
  <2>1. cam' \in Cameras
    <3> DEFINE late == \E t \in Range(tasks) : t.stage # "dropped"
    <3>1. late \in BOOLEAN /\ cam \in Cameras /\ 0 \in 0..MaxFrames
      BY Constants DEF TypeInv
    <3>2. cam' = [cam EXCEPT !.state = "started", !.session = @ + 1, !.frames = 0, !.late = late]
      BY <1>5 DEF start
    <3> HIDE DEF late
    <3>3. cam.session + 1 \in Nat
      BY <3>1 DEF Cameras
    <3> QED BY <3>1, <3>2, <3>3 DEF Cameras, States
  <2>2. th' \in Threads /\ ~ HasFrame'
    BY <1>5, IdleType DEF start, HasFrame, Points
  <2>3. RawType'
    BY <1>5, FS_EmptySet, Constants DEF start, RawType
  <2> QED BY <1>5, <2>1, <2>2, <2>3 DEF start, TypeInv, QueueType
<1>6. CASE StopProducer
  <2>0. cam \in Cameras /\ requests \in Requests
    BY DEF TypeInv
  <2>1. cam' \in Cameras
    BY <1>6, <2>0, SMTT(30) DEF StopProducer, Cameras, States
  <2>2. requests' \in Requests
    BY <1>6, <2>0, SMTT(30) DEF StopProducer, Requests
  <2> QED BY <1>6, <2>1, <2>2 DEF StopProducer, TypeInv, QueueType, RawType, HasFrame
<1>7. CASE StopDag
  <2>1. cam' \in Cameras /\ tasks' \in Seq(Tasks)
    BY <1>7, DropType DEF StopDag, Cameras, TypeInv, States
  <2> QED BY <1>7, <2>1 DEF StopDag, TypeInv, QueueType, RawType, HasFrame
<1>8. CASE StopThread
  <2>1. cam' \in Cameras
    BY <1>8 DEF StopThread, Cameras, TypeInv, States
  <2> QED BY <1>8, <2>1 DEF StopThread, TypeInv, QueueType, RawType, HasFrame
<1>9. CASE clearBufferQueues
  <2>1. cam' \in Cameras
    BY <1>9 DEF clearBufferQueues, Cameras, TypeInv, States
  <2>2. mInputQueue' \in Seq(Nat) /\ mOutputQueue' \in [Ports -> Seq(Nat)]
    BY <1>9 DEF clearBufferQueues
  <2> QED BY <1>9, <2>1, <2>2 DEF clearBufferQueues, TypeInv, QueueType, RawType, HasFrame
<1> QED BY <1>1, <1>2, <1>3, <1>4, <1>5, <1>6, <1>7, <1>8, <1>9 DEF Environment, Stopping

-----------------------------------------------------------------------------
(* The control points, action by action.                                   *)

\* PopOutputs takes the front of every queue.
LEMMA PopType ==
  ASSUME TypeInv, Fronts, Taking, PopOutputs
  PROVE  /\ mOutputQueue' \in [Ports -> Seq(Nat)]
         /\ \A p \in Ports : /\ Len(mOutputQueue'[p]) = Len(mOutputQueue[p]) - 1
                             /\ \A n \in DOMAIN mOutputQueue'[p] :
                                  /\ n + 1 \in DOMAIN mOutputQueue[p]
                                  /\ mOutputQueue'[p][n] = mOutputQueue[p][n + 1]
<1>1. ASSUME NEW p \in Ports PROVE mOutputQueue[p] \in Seq(Nat) /\ mOutputQueue[p] # <<>>
  BY DEF TypeInv, QueueType, Fronts
<1>2. mOutputQueue' = [p \in Ports |-> Tail(mOutputQueue[p])]
  BY DEF PopOutputs
<1>3. ASSUME NEW p \in Ports PROVE mOutputQueue'[p] = Tail(mOutputQueue[p])
  BY <1>2
<1>4. mOutputQueue' \in [Ports -> Seq(Nat)]
  BY <1>1, <1>2, TailPlaces
<1>5. ASSUME NEW p \in Ports
      PROVE  /\ Len(mOutputQueue'[p]) = Len(mOutputQueue[p]) - 1
             /\ \A n \in DOMAIN mOutputQueue'[p] : /\ n + 1 \in DOMAIN mOutputQueue[p]
                                                  /\ mOutputQueue'[p][n] = mOutputQueue[p][n + 1]
  <2> DEFINE q == mOutputQueue[p]
  <2>1. q \in Seq(Nat) /\ q # <<>>
    BY <1>1
  <2>2. mOutputQueue'[p] = Tail(q)
    BY <1>3
  <2> HIDE DEF q
  <2>3. /\ Len(Tail(q)) = Len(q) - 1
        /\ \A n \in DOMAIN Tail(q) : n + 1 \in DOMAIN q /\ Tail(q)[n] = q[n + 1]
    BY <2>1, TailPlaces
  <2> QED BY <2>2, <2>3 DEF q
<1> QED BY <1>4, <1>5

\* QueueOutput adds to one queue.
LEMMA QueueOutputPlaces ==
  ASSUME TypeInv, QueueOutput, NEW p \in Ports
  PROVE  /\ \A n \in DOMAIN mOutputQueue[p] : /\ n \in DOMAIN mOutputQueue'[p]
                                              /\ mOutputQueue'[p][n] = mOutputQueue[p][n]
         /\ \A n \in DOMAIN mOutputQueue'[p] :
              \/ n \in DOMAIN mOutputQueue[p]
              \/ /\ p = requests.port /\ n = Len(mOutputQueue[p]) + 1
                 /\ mOutputQueue'[p][n] \in {0, Len(requests.list)}
         /\ \A n \in DOMAIN mOutputQueue[p] : n < Len(mOutputQueue[p]) + 1
         /\ Len(mOutputQueue'[p]) = IF p = requests.port THEN Len(mOutputQueue[p]) + 1
                                    ELSE Len(mOutputQueue[p])
         /\ mOutputQueue[p] # <<>> =>
              mOutputQueue'[p] # <<>> /\ Head(mOutputQueue'[p]) = Head(mOutputQueue[p])
<1>1. mOutputQueue[p] \in Seq(Nat) /\ Len(requests.list) \in Nat
  BY DEF TypeInv, QueueType, Requests
<1>2. CASE p = requests.port
  <2>1. PICK buffer \in {0, Len(requests.list)} : mOutputQueue'[p] = Append(mOutputQueue[p], buffer)
    BY <1>2, QueueOutputType
  <2>2. buffer \in Nat
    BY <1>1
  <2> QED BY <1>1, <1>2, <2>1, <2>2, AppendPlaces
<1>3. CASE p # requests.port
  <2>1. mOutputQueue'[p] = mOutputQueue[p]
    BY <1>3, QueueOutputType
  <2>2. \A n \in DOMAIN mOutputQueue[p] : n < Len(mOutputQueue[p]) + 1
    BY <1>1
  <2> QED BY <1>3, <2>1, <2>2
<1> QED BY <1>2, <1>3

\* The camera's state and the process thread go together.
LEMMA LifecycleStep ==
  ASSUME TypeInv, ControlInv, Next
  PROVE  Lifecycle'
<1> USE Groups DEF Lifecycle, ThAt
<1>0. Lifecycle
  BY DEF ControlInv
<1>1. CASE ProcessThread
  <2>1. th.pc # "exited" /\ mThreadRunning' = mThreadRunning /\ cam' = cam
    BY <1>1 DEF ProcessThread, waitFreeBuffersInQueue, ThreadExits, handleRawReprocessing, SaveRaw,
                SavedRaw, AllBufDone, PopQueues, SkipInput, Dispatch, SwitchPipe, SwitchFails,
                CheckRunning, AddTask
  <2> QED BY <1>0, <2>1
<1>2. CASE DagThreads
  <2>1. /\ th' = th /\ mThreadRunning' = mThreadRunning /\ cam'.state = cam.state
        /\ mInputQueue' = mInputQueue
    BY <1>2 DEF DagThreads, TaskStep, CountOutput, onBufferDone, FrameDone, EraseInflight,
                FinishTask, ForgetTask, TypeInv, Cameras
  <2> QED BY <1>0, <2>1
<1>3. CASE Environment
  <2> USE DEF Environment, TypeInv, Cameras, States
  <2>1. CASE NextRequest \/ QueueOutput
    BY <1>0, <2>1 DEF NextRequest, QueueOutput
  <2>2. CASE onFrameAvailable \/ LoseFrame
    BY <1>0, <2>2 DEF onFrameAvailable, LoseFrame
  <2>3. CASE start
    BY <1>0, <2>3 DEF start
  <2>4. CASE StopProducer \/ StopDag
    BY <1>0, <2>4 DEF StopProducer, StopDag
  <2>5. CASE StopThread \/ clearBufferQueues
    BY <1>0, <2>5 DEF StopThread, clearBufferQueues
  <2> QED BY <1>3, <2>1, <2>2, <2>3, <2>4, <2>5 DEF Stopping
<1> QED BY <1>1, <1>2, <1>3 DEF Next

\* The process thread works at the fronts of the queues.
LEMMA FrontsStep ==
  ASSUME TypeInv, ControlInv, Next
  PROVE  Fronts'
<1> USE Groups DEF Taking
<1>0. Fronts /\ Lifecycle
  BY DEF ControlInv
<1>1. CASE ProcessThread
  <2>1. CASE waitFreeBuffersInQueue
    <3>1. mInputQueue' = mInputQueue /\ mOutputQueue' = mOutputQueue
      BY <2>1 DEF waitFreeBuffersInQueue
    <3> QED BY <2>1, <3>1, WaitType DEF Fronts
  <2>2. CASE handleRawReprocessing
    <3>1. mInputQueue' = mInputQueue /\ mOutputQueue' = mOutputQueue
      BY <2>2 DEF handleRawReprocessing
    <3> QED BY <1>0, <2>2, <3>1, RawStepType DEF Fronts, ThAt
  <2>3. CASE SaveRaw
    <3>1. mInputQueue' = mInputQueue /\ mOutputQueue' = mOutputQueue
      BY <2>3 DEF SaveRaw
    <3>2. th'.src = th.src /\ th'.dst = th.dst /\ th'.hasRawInput = th.hasRawInput /\ th.pc = "save"
      BY <2>3, GotoType DEF SaveRaw, Points, ThAt, TypeInv
    <3> QED BY <1>0, <3>1, <3>2 DEF Fronts
  <2>4. CASE SavedRaw
    <3>1. mInputQueue' = mInputQueue /\ mOutputQueue' = mOutputQueue
      BY <2>4 DEF SavedRaw
    <3> QED BY <1>0, <2>4, <3>1, SavedType DEF Fronts, ThAt
  <2>5. CASE \/ ThreadExits \/ AllBufDone \/ PopQueues \/ SkipInput \/ Dispatch \/ SwitchPipe
             \/ SwitchFails \/ CheckRunning \/ AddTask
    <3>0. /\ "loop" \in Points /\ "exited" \in Points /\ "skip" \in Points
          /\ "dispatch" \in Points /\ "switch" \in Points /\ "add" \in Points /\ "queue" \in Points
          /\ th \in Threads
      BY DEF Points, TypeInv
    <3>1. CASE ThreadExits \/ AllBufDone \/ SkipInput \/ SwitchFails \/ AddTask
      BY <3>0, <3>1, IdleType DEF ThreadExits, AllBufDone, SkipInput, SwitchFails, AddTask, Fronts
    <3>2. CASE PopQueues \/ Dispatch \/ SwitchPipe
      BY <3>0, <3>2, GotoType DEF PopQueues, Dispatch, SwitchPipe, Fronts
    <3>3. CASE CheckRunning
      BY <3>0, <3>3, IdleType, GotoType DEF CheckRunning, Goto, Fronts
    <3> QED BY <2>5, <3>1, <3>2, <3>3
  <2> QED BY <1>1, <2>1, <2>2, <2>3, <2>4, <2>5 DEF ProcessThread
<1>2. CASE DagThreads
  <2>1. th' = th /\ mInputQueue' = mInputQueue /\ mOutputQueue' = mOutputQueue
    BY <1>2, ZenonT(30) DEF DagThreads, TaskStep, CountOutput, onBufferDone, FrameDone, EraseInflight,
         FinishTask,
                ForgetTask
  <2> QED BY <1>0, <2>1 DEF Fronts
<1>3. CASE Environment
  <2>1. CASE QueueOutput
    <3>1. th' = th /\ mInputQueue' = mInputQueue
      BY <2>1 DEF QueueOutput
    <3> QED BY <1>0, <2>1, <3>1, QueueOutputPlaces DEF Fronts
  <2>2. CASE onFrameAvailable
    <3>1. th' = th /\ mOutputQueue' = mOutputQueue
          /\ mInputQueue' = Append(mInputQueue, Frame(cam.session, cam.frames))
      BY <2>2 DEF onFrameAvailable
    <3>2. Frame(cam.session, cam.frames) \in Nat /\ mInputQueue \in Seq(Nat)
      BY FrameType, Constants, SMTT(30) DEF TypeInv, Cameras, QueueType
    <3>3. /\ mInputQueue' # <<>>
          /\ mInputQueue # <<>> => Head(mInputQueue') = Head(mInputQueue)
      BY <3>1, <3>2, AppendPlaces
    <3> QED BY <1>0, <3>1, <3>3 DEF Fronts
  <2>3. CASE NextRequest \/ LoseFrame \/ StopProducer \/ StopDag \/ StopThread
    BY <1>0, <2>3 DEF NextRequest, LoseFrame, StopProducer, StopDag, StopThread, Fronts
  <2>4. CASE start
    BY <2>4, IdleType DEF start, Fronts, Points
  <2>5. CASE clearBufferQueues
    BY <2>5 DEF clearBufferQueues, Fronts, ThAt
  <2> QED BY <1>3, <2>1, <2>2, <2>3, <2>4, <2>5 DEF Environment, Stopping
<1> QED BY <1>1, <1>2, <1>3 DEF Next

\* Only a camera with a raw stream reprocesses.
LEMMA RawControlStep ==
  ASSUME TypeInv, ControlInv, Next
  PROVE  RawControl'
<1> USE Groups
<1>0. RawControl /\ th \in Threads /\ RawType
  BY DEF ControlInv, TypeInv
<1>1. CASE ProcessThread
  <2>0. /\ "loop" \in Points /\ "exited" \in Points /\ "skip" \in Points /\ "saved" \in Points
        /\ "dispatch" \in Points /\ "switch" \in Points /\ "add" \in Points /\ "queue" \in Points
    BY DEF Points
  <2>idle. ASSUME NEW point \in {"loop", "exited"}, th' = IdleThread(point),
                  mOpaqueRawPort' = mOpaqueRawPort, mRawBufferMap' = mRawBufferMap
           PROVE  RawControl'
    BY <1>0, <2>idle, <2>0, IdleType DEF RawControl
  <2>goto. ASSUME NEW point \in Points, Goto(point), point \notin {"loop", "exited", "raw", "save", "saved", "allDone"},
                  mOpaqueRawPort' = mOpaqueRawPort, mRawBufferMap' = mRawBufferMap
           PROVE  RawControl'
    BY <1>0, <2>goto, GotoType DEF RawControl
  <2>1. CASE waitFreeBuffersInQueue
    BY <1>0, <2>1, WaitType DEF waitFreeBuffersInQueue, RawControl
  <2>2. CASE handleRawReprocessing
    BY <1>0, <2>2, RawStepType DEF handleRawReprocessing, RawControl, ThAt
  <2>3. CASE SaveRaw
    <3>1. th'.pc = "saved" /\ th'.hasRawInput = th.hasRawInput /\ th.pc = "save"
      BY <1>0, <2>0, <2>3, GotoType DEF SaveRaw, ThAt
    <3> QED BY <1>0, <2>3, <3>1 DEF SaveRaw, RawControl
  <2>4. CASE SavedRaw
    BY <1>0, <2>4, SavedType, ReturnType DEF SavedRaw, RawControl, ThAt
  <2>5. CASE ThreadExits \/ AllBufDone \/ SkipInput \/ SwitchFails \/ AddTask
    BY <2>5, <2>idle DEF ThreadExits, AllBufDone, SkipInput, SwitchFails, AddTask
  <2>6. CASE PopQueues \/ Dispatch \/ SwitchPipe
    BY <2>0, <2>6, <2>goto DEF PopQueues, Dispatch, SwitchPipe
  <2>7. CASE CheckRunning
    BY <2>0, <2>7, <2>idle, <2>goto DEF CheckRunning, Goto
  <2> QED BY <1>1, <2>1, <2>2, <2>3, <2>4, <2>5, <2>6, <2>7 DEF ProcessThread
<1>2. CASE DagThreads
  <2>1. PICK i \in DOMAIN tasks : TaskStep(i)
    BY <1>2 DEF DagThreads
  <2>2. CASE FinishTask(i)
    BY <1>0, <2>2, ReturnType DEF FinishTask, RawControl
  <2>3. CASE ~ FinishTask(i)
    BY <1>0, <2>1, <2>3 DEF TaskStep, CountOutput, onBufferDone, FrameDone, EraseInflight,
         ForgetTask,
                             RawControl
  <2> QED BY <2>2, <2>3
<1>3. CASE Environment
  <2>1. CASE start
    BY <1>0, <2>1, IdleType DEF start, RawControl, Points
  <2>2. CASE ~ start
    <3>1. th' = th /\ mOpaqueRawPort' = mOpaqueRawPort /\ mRawBufferMap' = mRawBufferMap
      BY <1>3, <2>2 DEF Environment, Stopping, NextRequest, QueueOutput, onFrameAvailable,
           LoseFrame,
                        StopProducer, StopDag, StopThread, clearBufferQueues
    <3> QED BY <1>0, <3>1 DEF RawControl
  <2> QED BY <2>1, <2>2
<1> QED BY <1>1, <1>2, <1>3 DEF Next

\* What is in the queues, in the thread's hands and in the tasks is of requests that were
\* handed over.
LEMMA KnownStep ==
  ASSUME TypeInv, ControlInv, Next
  PROVE  AllKnown'
<1> USE Groups
<1>0. /\ AllKnown /\ th \in Threads /\ tasks \in Seq(Tasks) /\ Len(requests.list) \in Nat
      /\ mOutputQueue \in [Ports -> Seq(Nat)] /\ th.dst \in [Ports -> Nat]
  BY DEF ControlInv, TypeInv, QueueType, Threads, Requests
<1>1. CASE ProcessThread
  <2>0. /\ "loop" \in Points /\ "exited" \in Points /\ "skip" \in Points /\ "saved" \in Points
        /\ "dispatch" \in Points /\ "switch" \in Points /\ "add" \in Points /\ "queue" \in Points
    BY DEF Points
  <2>1. requests' = requests
    BY <1>1 DEF ProcessThread, waitFreeBuffersInQueue, ThreadExits, handleRawReprocessing, SaveRaw,
                SavedRaw, AllBufDone, PopQueues, SkipInput, Dispatch, SwitchPipe, SwitchFails,
                CheckRunning, AddTask
  <2>2. \A p \in Ports : th'.dst[p] <= Len(requests.list)
    <3>idle. ASSUME NEW point \in {"loop", "exited"}, th' = IdleThread(point)
             PROVE  \A p \in Ports : th'.dst[p] <= Len(requests.list)
      BY <1>0, <3>idle, <2>0, IdleType
    <3>same. ASSUME th'.dst = th.dst
             PROVE  \A p \in Ports : th'.dst[p] <= Len(requests.list)
      BY <1>0, <3>same DEF AllKnown, Known
    <3>1. CASE waitFreeBuffersInQueue
      <4> SUFFICES ASSUME NEW p \in Ports PROVE th'.dst[p] <= Len(requests.list)
        OBVIOUS
      <4>1. mOutputQueue[p] # <<>> /\ th'.dst[p] = Head(mOutputQueue[p])
        BY <3>1, WaitType
      <4>2. 1 \in DOMAIN mOutputQueue[p] /\ Head(mOutputQueue[p]) = mOutputQueue[p][1]
        BY <1>0, <4>1, TailPlaces
      <4> QED BY <1>0, <4>1, <4>2 DEF AllKnown
    <3>2. CASE handleRawReprocessing
      BY <3>2, <3>same, RawStepType
    <3>3. CASE SaveRaw \/ PopQueues \/ Dispatch \/ SwitchPipe
      BY <1>0, <2>0, <3>3, <3>same, GotoType DEF SaveRaw, PopQueues, Dispatch, SwitchPipe
    <3>4. CASE SavedRaw
      <4>1. \A p \in Ports : th'.dst[p] = th.dst[p] \/ th'.dst[p] = 0
        BY <1>0, <3>4, SavedType
      <4>2. 0 <= Len(requests.list) /\ \A p \in Ports : th.dst[p] <= Len(requests.list)
        BY <1>0 DEF AllKnown, Known
      <4> QED BY <4>1, <4>2
    <3>5. CASE ThreadExits \/ AllBufDone \/ SkipInput \/ SwitchFails \/ AddTask
      BY <3>5, <3>idle DEF ThreadExits, AllBufDone, SkipInput, SwitchFails, AddTask
    <3>6. CASE CheckRunning
      BY <1>0, <2>0, <3>6, <3>idle, <3>same, GotoType DEF CheckRunning, Goto
    <3> QED BY <1>1, <3>1, <3>2, <3>3, <3>4, <3>5, <3>6 DEF ProcessThread
  <2>3. ASSUME NEW p \in Ports, NEW n \in DOMAIN mOutputQueue'[p]
        PROVE  mOutputQueue'[p][n] <= Len(requests.list)
    <3>1. mOutputQueue' = mOutputQueue \/ (Taking /\ PopOutputs)
      BY <1>1 DEF ProcessThread, waitFreeBuffersInQueue, ThreadExits, handleRawReprocessing,
           SaveRaw,
                  SavedRaw, AllBufDone, PopQueues, SkipInput, Dispatch, SwitchPipe, SwitchFails,
                  CheckRunning, AddTask, Taking, ThAt
    <3>2. CASE Taking /\ PopOutputs
      BY <1>0, <3>2, PopType DEF AllKnown, ControlInv
    <3> QED BY <1>0, <3>1, <3>2 DEF AllKnown
  <2>4. ASSUME NEW i \in DOMAIN tasks', NEW p \in Ports
        PROVE  tasks'[i].outputs[p] <= Len(requests.list)
    <3>1. CASE AddTask
      <4>1. NewTask \in Tasks /\ NewTask.outputs = th.dst
        BY <3>1, NewTaskType DEF AddTask
      <4>2. (i \in DOMAIN tasks /\ tasks'[i] = tasks[i]) \/ tasks'[i] = NewTask
        BY <1>0, <3>1, <4>1, AddType DEF AddTask
      <4> QED BY <1>0, <4>1, <4>2 DEF AllKnown, Known
    <3>2. CASE ~ AddTask
      <4>1. tasks' = tasks
        BY <1>1, <3>2 DEF ProcessThread, waitFreeBuffersInQueue, ThreadExits, handleRawReprocessing,
                  SaveRaw, SavedRaw, AllBufDone, PopQueues, SkipInput, Dispatch, SwitchPipe,
                  SwitchFails, CheckRunning
      <4> QED BY <1>0, <4>1 DEF AllKnown, Known
    <3> QED BY <3>1, <3>2
  <2> QED BY <2>1, <2>2, <2>3, <2>4 DEF AllKnown, Known
<1>2. CASE DagThreads
  <2>1. PICK i \in DOMAIN tasks : TaskStep(i)
    BY <1>2 DEF DagThreads
  <2>2. th' = th /\ mOutputQueue' = mOutputQueue /\ requests' = requests
    BY <2>1 DEF TaskStep, CountOutput, onBufferDone, FrameDone, EraseInflight, FinishTask,
         ForgetTask
  <2>3. ASSUME NEW j \in DOMAIN tasks'
        PROVE  \E k \in DOMAIN tasks : tasks'[j].outputs = tasks[k].outputs
    <3>1. CASE ForgetTask(i)
      BY <1>0, <3>1, ForgetType
    <3>2. CASE \E p \in Ports : CountOutput(i, p)
      BY <1>0, <3>2, CountType
    <3>3. CASE \E p \in Ports : onBufferDone(i, p)
      BY <1>0, <3>3, DoneType
    <3>4. CASE FrameDone(i) \/ EraseInflight(i) \/ FinishTask(i)
      <4>1. \E s \in Stages : SetStage(i, s)
        BY <3>4 DEF FrameDone, EraseInflight, FinishTask, Stages
      <4> QED BY <1>0, <4>1, StageType
    <3> QED BY <2>1, <3>1, <3>2, <3>3, <3>4 DEF TaskStep
  <2> QED BY <1>0, <2>2, <2>3 DEF AllKnown, Known
<1>3. CASE Environment
  <2>1. CASE NextRequest
    <3>1. Len(requests'.list) = Len(requests.list) + 1
      BY <2>1, NextRequestType
    <3>2. th' = th /\ tasks' = tasks /\ mOutputQueue' = mOutputQueue
      BY <2>1 DEF NextRequest
    <3>3. ASSUME NEW x \in Nat, x <= Len(requests.list) PROVE x <= Len(requests'.list)
      BY <1>0, <3>1, <3>3
    <3>4. ASSUME NEW p \in Ports, NEW n \in DOMAIN mOutputQueue[p]
          PROVE  mOutputQueue[p][n] <= Len(requests'.list)
      <4>1. mOutputQueue[p][n] \in Nat /\ mOutputQueue[p][n] <= Len(requests.list)
        BY <1>0, ElementOfSeq DEF AllKnown
      <4> QED BY <3>3, <4>1
    <3>5. ASSUME NEW i \in DOMAIN tasks, NEW p \in Ports
          PROVE  tasks[i].outputs[p] <= Len(requests'.list)
      <4>1. tasks[i] \in Tasks
        BY <1>0, ElementOfSeq
      <4>2. tasks[i].outputs[p] \in Nat /\ tasks[i].outputs[p] <= Len(requests.list)
        BY <1>0, <4>1 DEF AllKnown, Known, Tasks
      <4> QED BY <3>3, <4>2
    <3>6. \A p \in Ports : th.dst[p] <= Len(requests'.list)
      BY <1>0, <3>3 DEF AllKnown, Known
    <3> QED BY <3>2, <3>4, <3>5, <3>6 DEF AllKnown, Known
  <2>2. CASE QueueOutput
    <3>1. th' = th /\ tasks' = tasks /\ requests'.list = requests.list
      BY <2>2, QueueOutputType DEF QueueOutput
    <3>2. ASSUME NEW p \in Ports, NEW n \in DOMAIN mOutputQueue'[p]
          PROVE  mOutputQueue'[p][n] <= Len(requests.list)
      <4>1. CASE n \in DOMAIN mOutputQueue[p]
        BY <1>0, <2>2, <4>1, QueueOutputPlaces DEF AllKnown
      <4>2. CASE n \notin DOMAIN mOutputQueue[p]
        <5>1. mOutputQueue'[p][n] \in {0, Len(requests.list)}
          BY <2>2, <4>2, QueueOutputPlaces
        <5> QED BY <1>0, <5>1
      <4> QED BY <4>1, <4>2
    <3> QED BY <1>0, <3>1, <3>2 DEF AllKnown, Known
  <2>3. CASE start
    <3>1. tasks' = tasks /\ mOutputQueue' = mOutputQueue /\ requests' = requests
          /\ th' = IdleThread("loop") /\ "loop" \in Points
      BY <2>3 DEF start, Points
    <3>2. \A p \in Ports : th'.dst[p] <= Len(requests.list)
      BY <1>0, <3>1, IdleType
    <3> QED BY <1>0, <3>1, <3>2 DEF AllKnown, Known
  <2>4. CASE clearBufferQueues
    <3>1. tasks' = tasks /\ th' = th /\ requests' = requests
          /\ \A p \in Ports : mOutputQueue'[p] = <<>>
      BY <2>4 DEF clearBufferQueues
    <3> QED BY <1>0, <3>1 DEF AllKnown, Known
  <2>5. CASE StopDag
    <3>1. th' = th /\ requests' = requests /\ mOutputQueue' = mOutputQueue
      BY <2>5 DEF StopDag
    <3> QED BY <1>0, <2>5, <3>1, DropType DEF AllKnown, Known
  <2>6. CASE onFrameAvailable \/ LoseFrame \/ StopProducer \/ StopThread
    <3>1. tasks' = tasks /\ th' = th /\ requests'.list = requests.list /\ mOutputQueue' = mOutputQueue
      <4>1. CASE StopProducer
        BY <1>0, <4>1 DEF StopProducer, TypeInv, Requests
      <4> QED BY <2>6, <4>1 DEF onFrameAvailable, LoseFrame, StopThread
    <3> QED BY <1>0, <3>1 DEF AllKnown, Known
  <2> QED BY <1>3, <2>1, <2>2, <2>3, <2>4, <2>5, <2>6 DEF Environment, Stopping
<1> QED BY <1>1, <1>2, <1>3 DEF Next

\* A task goes on once.
LEMMA StagesStep ==
  ASSUME TypeInv, ControlInv, Next
  PROVE  StagesInv'
<1>0. StagesInv /\ tasks \in Seq(Tasks)
  BY DEF ControlInv, TypeInv
<1>n. ASSUME NEW j \in DOMAIN tasks
      PROVE  /\ IsFiniteSet(tasks[j].left) /\ Cardinality(tasks[j].left) \in Nat
             /\ tasks[j].missing \in Int
  <2>1. tasks[j] \in Tasks
    BY <1>0, ElementOfSeq
  <2>2. IsFiniteSet(Ports)
    BY FS_Interval, Constants DEF Ports
  <2>3. tasks[j].left \subseteq Ports /\ tasks[j].missing \in Int
    BY <2>1 DEF Tasks
  <2> QED BY <2>2, <2>3, FS_Subset, FS_CardinalityType
<1>1. CASE AddTask
  <2>1. /\ NewTask \in Tasks /\ NewTask.stage = "run"
        /\ NewTask.missing = Cardinality(NewTask.left) /\ NewTask.missing \in Int
    BY <1>1, NewTaskType DEF AddTask
  <2>2. \A j \in DOMAIN tasks' : (j \in DOMAIN tasks /\ tasks'[j] = tasks[j]) \/ tasks'[j] = NewTask
    BY <1>0, <1>1, <2>1, AddType DEF AddTask
  <2> QED BY <1>0, <2>1, <2>2 DEF StagesInv
<1>2. ASSUME NEW i \in DOMAIN tasks, TaskStep(i)
      PROVE  StagesInv'
  <2>1. ASSUME NEW p \in Ports, CountOutput(i, p) PROVE StagesInv'
    <3>1. tasks[i].stage = "run" /\ p \in tasks[i].left
      BY <1>0, <2>1 DEF CountOutput, StagesInv
    <3>2. PICK k \in CountedFor(i, p) : \A j \in DOMAIN tasks :
            /\ tasks'[j].missing = IF j = k THEN tasks[j].missing - 1 ELSE tasks[j].missing
            /\ tasks'[j].last = IF j = k THEN p ELSE tasks[j].last
      BY <1>0, <2>1, CountType
    <3>3. k = i \/ tasks[k].stage = "dropped"
      BY DEF CountedFor
    <3>4. /\ DOMAIN tasks' = DOMAIN tasks /\ tasks'[i].left = tasks[i].left \ {p}
          /\ \A j \in DOMAIN tasks : j # i =>
               tasks'[j].left = tasks[j].left /\ tasks'[j].calling = tasks[j].calling
          /\ \A j \in DOMAIN tasks : tasks'[j].stage = tasks[j].stage
      BY <1>0, <2>1, CountType
    <3>5. ASSUME NEW j \in DOMAIN tasks, tasks[j].stage # "run"
          PROVE  /\ tasks'[j].left = {} /\ tasks'[j].last \notin tasks'[j].calling
                 /\ tasks[j].stage = "dropped" => tasks'[j].calling = {}
      BY <1>0, <3>1, <3>2, <3>3, <3>4, <3>5 DEF StagesInv
    <3>6. ASSUME NEW j \in DOMAIN tasks, tasks[j].stage = "run"
          PROVE  Cardinality(tasks'[j].left) <= tasks'[j].missing
      <4>1. Cardinality(tasks[j].left) <= tasks[j].missing
        BY <1>0, <3>6 DEF StagesInv
      <4>2. CASE j # i
        <5>1. j # k
          BY <3>3, <3>6, <4>2
        <5> QED BY <3>2, <3>4, <4>1, <4>2, <5>1
      <4>3. CASE j = i
        <5>1. Cardinality(tasks'[j].left) = Cardinality(tasks[j].left) - 1
          BY <1>n, <3>1, <3>4, <4>3, FS_RemoveElement
        <5>2. tasks'[j].missing >= tasks[j].missing - 1
          BY <1>n, <3>2
        <5>3. tasks'[j].missing \in Int
          BY <1>n, <3>2
        <5> QED BY <1>n, <4>1, <5>1, <5>2, <5>3
      <4> QED BY <4>2, <4>3
    <3> QED BY <3>4, <3>5, <3>6 DEF StagesInv
  <2>2. ASSUME NEW p \in Ports, onBufferDone(i, p) PROVE StagesInv'
    <3>1. /\ DOMAIN tasks' = DOMAIN tasks /\ tasks'[i].calling = tasks[i].calling \ {p}
          /\ \A j \in DOMAIN tasks : j # i => tasks'[j].calling = tasks[j].calling
          /\ \A j \in DOMAIN tasks :
               /\ tasks'[j].left = tasks[j].left
               /\ tasks'[j].missing = tasks[j].missing /\ tasks'[j].last = tasks[j].last
               /\ tasks'[j].stage = IF CountedLast(j, i, p) THEN "inputs" ELSE tasks[j].stage
      BY <1>0, <2>2, DoneType
    <3>2. ASSUME NEW j \in DOMAIN tasks, CountedLast(j, i, p)
          PROVE  tasks'[j].left = {} /\ tasks'[j].last \notin tasks'[j].calling
      <4>1. CASE j = i
        <5>1. Cardinality(tasks[j].left) <= 0 /\ tasks[j].last = p
          BY <1>0, <3>2, <4>1 DEF CountedLast, StagesInv
        <5>2. Cardinality(tasks[j].left) = 0
          BY <1>n, <5>1
        <5>3. tasks[j].left = {}
          BY <1>n, <5>2, FS_EmptySet
        <5> QED BY <3>1, <4>1, <5>1, <5>3
      <4>2. CASE j # i
        BY <1>0, <3>1, <3>2, <4>2 DEF CountedLast, StagesInv
      <4> QED BY <4>1, <4>2
    <3>3. ASSUME NEW j \in DOMAIN tasks, ~ CountedLast(j, i, p)
          PROVE  /\ tasks[j].stage # "run" =>
                      tasks'[j].left = {} /\ tasks'[j].last \notin tasks'[j].calling
                 /\ tasks[j].stage = "dropped" => tasks'[j].calling = {}
      <4>1. tasks'[j].calling \subseteq tasks[j].calling
        BY <3>1
      <4> QED BY <1>0, <3>1, <4>1 DEF StagesInv
    <3>4. \A j \in DOMAIN tasks : tasks'[j].stage = "run" =>
             Cardinality(tasks'[j].left) <= tasks'[j].missing
      BY <1>0, <3>1 DEF StagesInv
    <3> QED BY <3>1, <3>2, <3>3, <3>4 DEF StagesInv
  <2>3. CASE FrameDone(i) \/ EraseInflight(i) \/ FinishTask(i)
    <3>1. \E s \in Stages : SetStage(i, s) /\ tasks[i].stage # "run" /\ s \notin {"run", "dropped"}
      BY <2>3 DEF FrameDone, EraseInflight, FinishTask, Stages
    <3> QED BY <1>0, <3>1, StageType DEF StagesInv
  <2>4. CASE ForgetTask(i)
    BY <1>0, <2>4, ForgetType DEF StagesInv
  <2> QED BY <1>2, <2>1, <2>2, <2>3, <2>4 DEF TaskStep
<1>3. CASE StopDag
  BY <1>0, <1>3, DropType DEF StagesInv
<1>4. CASE ~ (AddTask \/ DagThreads \/ StopDag)
  <2>1. tasks' = tasks
    BY <1>4 DEF Next, ProcessThread, waitFreeBuffersInQueue, ThreadExits, handleRawReprocessing,
         SaveRaw, SavedRaw, AllBufDone, PopQueues, SkipInput, Dispatch, SwitchPipe, SwitchFails,
         CheckRunning, Environment, Stopping, NextRequest, QueueOutput, onFrameAvailable,
         LoseFrame, start, StopProducer, StopThread, clearBufferQueues
  <2> QED BY <1>0, <2>1 DEF StagesInv
<1> QED BY <1>1, <1>2, <1>3, <1>4 DEF DagThreads

\* The types and the control points.
BaseInv == TypeInv /\ ControlInv

\* What the process thread has in its hands, in every step.
LEMMA BaseStep ==
  ASSUME BaseInv, [Next]_vars
  PROVE  BaseInv'
<1>1. CASE Next
  <2>1. TypeInv'
    BY <1>1, ThreadTypes, DagTypes, EnvironmentTypes DEF BaseInv, Next, DagThreads
  <2>2. ControlInv'
    BY <1>1, LifecycleStep, FrontsStep, RawControlStep, KnownStep, StagesStep DEF BaseInv,
         ControlInv
  <2> QED BY <2>1, <2>2 DEF BaseInv
<1>2. CASE UNCHANGED vars
  BY <1>2 DEF BaseInv, TypeInv, QueueType, RawType, HasFrame, ControlInv, Lifecycle, Fronts,
       RawControl,
              AllKnown, Known, StagesInv, Taking, ThAt, vars, queueVars, rawVars, envVars
<1> QED BY <1>1, <1>2

\* At first nothing is there.
LEMMA BaseInit ==
  ASSUME Init
  PROVE  BaseInv
<1>1. /\ mThreadRunning = FALSE /\ mInputQueue = <<>> /\ mOutputQueue = [p \in Ports |-> <<>>]
      /\ mSequencesInflight = [seq \in Sequences0 |-> 0] /\ mRawBufferMap = {}
      /\ mOpaqueRawPort \in RawPorts /\ mCurConfigMode = DefaultMode
      /\ th = IdleThread("exited") /\ tasks = <<>>
      /\ requests = [list |-> <<>>, port |-> 0, last |-> -1]
      /\ cam = [state |-> "stopped", session |-> 0, frames |-> 0, late |-> FALSE,
                 stale |-> FALSE, torn |-> FALSE]
      /\ captured = {} /\ rawWithProducer = NumRaw /\ delivered = [p \in Ports |-> <<>>]
  BY DEF Init
<1>2. QueueType
  BY <1>1 DEF QueueType
<1>3. RawType
  BY <1>1, FS_EmptySet, Constants DEF RawType
<1>4. /\ th \in Threads /\ th.pc = "exited" /\ ~ th.hasRawInput /\ \A p \in Ports : th.dst[p] = 0
  BY <1>1, IdleType DEF Points
<1>5. requests \in Requests /\ cam \in Cameras /\ tasks \in Seq(Tasks) /\ Len(requests.list) = 0
  BY <1>1, Constants DEF Requests, Cameras, States
<1>6. mCurConfigMode \in Modes
  BY <1>1, ProcessorAssumption DEF Modes
<1>7. TypeInv
  BY <1>1, <1>2, <1>3, <1>4, <1>5, <1>6 DEF TypeInv, HasFrame
<1>8. Lifecycle /\ Fronts /\ RawControl
  BY <1>1, <1>4 DEF Lifecycle, Fronts, RawControl, Taking, ThAt
<1>9. AllKnown
  BY <1>1, <1>4, <1>5 DEF AllKnown, Known
<1>10. StagesInv
  BY <1>1 DEF StagesInv
<1> QED BY <1>7, <1>8, <1>9, <1>10 DEF BaseInv, ControlInv

-----------------------------------------------------------------------------
(* The outputs of a task are of one request.                               *)

\* The queues were torn apart once and for all.
LEMMA TornStays ==
  ASSUME TypeInv, [Next]_vars, ~ cam.torn'
  PROVE  ~ cam.torn /\ (clearBufferQueues => requests.port <= 1)
<1>0. cam \in Cameras /\ requests.port \in Int
  BY DEF TypeInv, Requests
<1>1. CASE clearBufferQueues
  <2> DEFINE b == requests.port > 1
  <2>1. cam'.torn = (cam.torn \/ b)
    BY <1>0, <1>1 DEF clearBufferQueues, Cameras
  <2>2. cam.torn \in BOOLEAN /\ b \in BOOLEAN
    BY <1>0 DEF Cameras
  <2> HIDE DEF b
  <2>3. ~ cam.torn /\ ~ b
    BY <2>1, <2>2, Zenon
  <2>4. ~ (requests.port > 1)
    BY <2>3 DEF b
  <2> QED BY <1>0, <2>3, <2>4
<1>2. CASE ~ clearBufferQueues
  <2>1. cam'.torn = cam.torn
    BY <1>0, <1>2, Groups, ZenonT(30) DEF Next, vars, ProcessThread, waitFreeBuffersInQueue, ThreadExits,
         handleRawReprocessing, SaveRaw, SavedRaw, AllBufDone, PopQueues, SkipInput, Dispatch,
         SwitchPipe,
         SwitchFails, CheckRunning, AddTask, DagThreads, TaskStep, CountOutput, onBufferDone,
         FrameDone,
         EraseInflight, FinishTask, ForgetTask, Environment, Stopping, NextRequest, QueueOutput,
         onFrameAvailable, LoseFrame, start, StopProducer, StopDag, StopThread, Cameras
  <2> QED BY <1>2, <2>1
<1> QED BY <1>1, <1>2

\* The sequences of numbers of the two kinds of queue.
LEMMA QueueNumbers ==
  ASSUME TypeInv, NEW p \in Ports
  PROVE  /\ mOutputQueue[p] \in Seq(Nat) /\ Len(mOutputQueue[p]) \in Nat
         /\ Len(requests.list) \in Nat /\ requests.port \in 0..NumPorts /\ NumPorts \in Nat
         /\ p \in Nat /\ p # 0 /\ p <= NumPorts /\ Top(p) \in Int /\ Gone(p) \in Int
<1>1. /\ mOutputQueue[p] \in Seq(Nat) /\ Len(requests.list) \in Nat /\ requests.port \in 0..NumPorts
      /\ NumPorts \in Nat /\ p \in 1..NumPorts
  BY Constants DEF TypeInv, QueueType, Requests, Ports
<1>2. Len(mOutputQueue[p]) \in Nat
  BY <1>1
<1>3. Top(p) \in Int
  BY <1>1 DEF Top
<1> QED BY <1>1, <1>2, <1>3 DEF Gone

\* All the queues lose their fronts together, and get the buffers of one request after
\* the other.
LEMMA InStepStep ==
  ASSUME BaseInv, StepInv, [Next]_vars, ~ cam.torn'
  PROVE  InStep'
<1> USE Groups
<1>0. TypeInv /\ Fronts /\ InStep
  BY TornStays DEF BaseInv, ControlInv, StepInv
<1>same. ASSUME requests'.list = requests.list, requests'.port = requests.port,
                mOutputQueue' = mOutputQueue
         PROVE  InStep'
  BY <1>0, <1>same, ZenonT(30) DEF InStep, Gone, Top
<1>1. CASE Taking /\ PopOutputs /\ UNCHANGED requests
  <2>1. ASSUME NEW p \in Ports PROVE Gone(p)' = Gone(p) + 1 /\ Gone(p) \in Int
    <3>1. Len(mOutputQueue'[p]) = Len(mOutputQueue[p]) - 1
      BY <1>0, <1>1, PopType
    <3>2. Top(p)' = Top(p)
      BY <1>1 DEF Top
    <3>3. Len(mOutputQueue[p]) \in Nat /\ Top(p) \in Int /\ Gone(p) \in Int
      BY <1>0, QueueNumbers
    <3> QED BY <3>1, <3>2, <3>3 DEF Gone
  <2>2. ASSUME NEW p \in Ports, NEW n \in DOMAIN mOutputQueue'[p]
        PROVE  mOutputQueue'[p][n] \in {0, Gone(p)' + n}
    <3>1. n + 1 \in DOMAIN mOutputQueue[p] /\ mOutputQueue'[p][n] = mOutputQueue[p][n + 1]
      BY <1>0, <1>1, PopType
    <3>2. mOutputQueue[p][n + 1] \in {0, Gone(p) + (n + 1)}
      BY <1>0, <3>1 DEF InStep
    <3>3. n \in Int
      <4>1. mOutputQueue'[p] \in Seq(Nat)
        BY <1>0, <1>1, PopType
      <4> QED BY <4>1
    <3>4. Gone(p) + (n + 1) = Gone(p)' + n
      BY <2>1, <3>3
    <3> QED BY <3>1, <3>2, <3>4
  <2> QED BY <1>0, <2>1, <2>2 DEF InStep
<1>2. CASE NextRequest
  <2>1. /\ requests.port = 0 /\ requests'.port = 1
        /\ Len(requests'.list) = Len(requests.list) + 1 /\ mOutputQueue' = mOutputQueue
    BY <1>0, <1>2, NextRequestType DEF NextRequest
  <2>2. ASSUME NEW p \in Ports PROVE Gone(p)' = Gone(p)
    BY <1>0, <2>1, QueueNumbers DEF Gone, Top
  <2> QED BY <1>0, <2>1, <2>2 DEF InStep
<1>3. CASE QueueOutput
  <2> DEFINE k == requests.port
  <2>1. /\ k \in Ports /\ requests'.list = requests.list
        /\ requests'.port = IF k = NumPorts THEN 0 ELSE k + 1
    BY <1>0, <1>3, QueueOutputType
  <2> HIDE DEF k
  <2>2. ASSUME NEW p \in Ports
        PROVE  /\ Gone(p)' = Gone(p)
               /\ p = k => Gone(p) + (Len(mOutputQueue[p]) + 1) = Len(requests.list)
    <3>1. Len(mOutputQueue'[p]) = IF p = k THEN Len(mOutputQueue[p]) + 1 ELSE Len(mOutputQueue[p])
      BY <1>0, <1>3, QueueOutputPlaces DEF k
    <3>2. CASE p = k
      <4>1. Top(p) = Len(requests.list) - 1 /\ Top(p)' = Len(requests.list)
        BY <1>0, <2>1, <3>2, QueueNumbers DEF Top, k
      <4>2. Len(mOutputQueue[p]) \in Nat /\ Len(requests.list) \in Nat
        BY <1>0, QueueNumbers
      <4>3. Gone(p) = Len(requests.list) - 1 - Len(mOutputQueue[p])
        BY <4>1 DEF Gone
      <4>4. Gone(p)' = Len(requests.list) - (Len(mOutputQueue[p]) + 1)
        BY <3>1, <3>2, <4>1 DEF Gone
      <4>5. \A a, b \in Nat : /\ a - 1 - b = a - (b + 1)
                              /\ (a - 1 - b) + (b + 1) = a
        OBVIOUS
      <4> DEFINE a == Len(requests.list)
                 b == Len(mOutputQueue[p])
      <4>6. a - 1 - b = a - (b + 1) /\ (a - 1 - b) + (b + 1) = a
        BY <4>2, <4>5
      <4> QED BY <4>3, <4>4, <4>6
    <3>3. CASE p # k
      <4>1. Top(p)' = Top(p)
        BY <1>0, <2>1, <3>3, QueueNumbers DEF Top, k
      <4> QED BY <1>0, <3>1, <3>3, <4>1, QueueNumbers DEF Gone
    <3> QED BY <3>2, <3>3
  <2>3. ASSUME NEW p \in Ports, NEW n \in DOMAIN mOutputQueue'[p]
        PROVE  mOutputQueue'[p][n] \in {0, Gone(p)' + n}
    <3>1. CASE n \in DOMAIN mOutputQueue[p]
      BY <1>0, <1>3, <2>2, <3>1, QueueOutputPlaces DEF InStep
    <3>2. CASE n \notin DOMAIN mOutputQueue[p]
      <4>1. p = k /\ n = Len(mOutputQueue[p]) + 1 /\ mOutputQueue'[p][n] \in {0, Len(requests.list)}
        BY <1>0, <1>3, <3>2, QueueOutputPlaces DEF k
      <4> QED BY <2>2, <4>1
    <3> QED BY <3>1, <3>2
  <2> QED BY <1>0, <2>2, <2>3 DEF InStep
<1>4. CASE clearBufferQueues
  <2>1. requests.port <= 1 /\ requests' = requests /\ \A p \in Ports : mOutputQueue'[p] = <<>>
    BY <1>0, <1>4, TornStays DEF clearBufferQueues
  <2>2. ASSUME NEW p \in Ports
        PROVE  Gone(p)' = IF requests.port = 0 THEN Len(requests.list) ELSE Len(requests.list) - 1
    <3>1. /\ Len(requests.list) \in Nat /\ requests.port \in {0, 1} /\ p \in Nat /\ p # 0
      BY <1>0, <2>1, QueueNumbers
    <3>2. Top(p)' = IF requests.port = 0 THEN Len(requests.list) ELSE Len(requests.list) - 1
      BY <2>1, <3>1 DEF Top
    <3>3. Len(mOutputQueue'[p]) = 0
      BY <2>1
    <3> QED BY <3>1, <3>2, <3>3 DEF Gone
  <2> QED BY <2>1, <2>2 DEF InStep
<1>5. CASE StopProducer
  BY <1>0, <1>5, <1>same DEF StopProducer, TypeInv, Requests
<1>6. CASE ~ (NextRequest \/ QueueOutput \/ clearBufferQueues \/ StopProducer)
  <2>1. requests' = requests /\ (mOutputQueue' = mOutputQueue \/ (Taking /\ PopOutputs))
    BY <1>6, ZenonT(30) DEF Next, vars, ProcessThread, waitFreeBuffersInQueue, ThreadExits,
         handleRawReprocessing,
         SaveRaw, SavedRaw, AllBufDone, PopQueues, SkipInput, Dispatch, SwitchPipe, SwitchFails,
         CheckRunning, AddTask, DagThreads, TaskStep, CountOutput, onBufferDone, FrameDone,
         EraseInflight, FinishTask, ForgetTask, Environment, Stopping, onFrameAvailable, LoseFrame,
         start, StopDag, StopThread, Taking, ThAt
  <2> QED BY <1>1, <1>same, <2>1
<1> QED BY <1>2, <1>3, <1>4, <1>5, <1>6

\* What the thread takes from the fronts of the queues is of one request, and so is the
\* task that it makes of it.
LEMMA TogetherStep ==
  ASSUME BaseInv, StepInv, [Next]_vars, ~ cam.torn'
  PROVE  Together'
<1> USE Groups
<1>0. /\ TypeInv /\ Fronts /\ InStep /\ Together /\ th \in Threads /\ tasks \in Seq(Tasks)
      /\ th.dst \in [Ports -> Nat]
  BY TornStays DEF BaseInv, ControlInv, StepInv, TypeInv, Threads
<1>1. OneRequest(th.dst)'
  <2>idle. ASSUME NEW point \in {"loop", "exited"}, th' = IdleThread(point)
           PROVE  OneRequest(th.dst)'
    <3>1. point \in Points
      BY DEF Points
    <3> QED BY <2>idle, <3>1, IdleType DEF OneRequest
  <2>same. ASSUME th'.dst = th.dst
           PROVE  OneRequest(th.dst)'
    BY <1>0, <2>same DEF Together, OneRequest
  <2>1. CASE waitFreeBuffersInQueue
    <3> SUFFICES ASSUME NEW p \in Ports, NEW q \in Ports, th'.dst[p] # 0, th'.dst[q] # 0
                 PROVE  th'.dst[p] = th'.dst[q]
      BY DEF OneRequest
    <3>1. ASSUME NEW r \in Ports, th'.dst[r] # 0 PROVE th'.dst[r] = Gone(r) + 1
      <4>1. mOutputQueue[r] # <<>> /\ th'.dst[r] = Head(mOutputQueue[r])
        BY <1>0, <2>1, WaitType
      <4>2. 1 \in DOMAIN mOutputQueue[r] /\ Head(mOutputQueue[r]) = mOutputQueue[r][1]
        BY <1>0, <4>1, QueueNumbers, TailPlaces
      <4> QED BY <1>0, <3>1, <4>1, <4>2 DEF InStep
    <3> QED BY <1>0, <3>1 DEF InStep
  <2>2. CASE handleRawReprocessing
    BY <1>0, <2>2, <2>same, RawStepType
  <2>3. CASE SaveRaw \/ PopQueues \/ Dispatch \/ SwitchPipe
    BY <1>0, <2>3, <2>same, GotoType DEF SaveRaw, PopQueues, Dispatch, SwitchPipe, Points
  <2>4. CASE SavedRaw
    BY <1>0, <2>4, <2>same, SavedType DEF Together, OneRequest
  <2>5. CASE ThreadExits \/ AllBufDone \/ SkipInput \/ SwitchFails \/ AddTask \/ start
    BY <2>5, <2>idle DEF ThreadExits, AllBufDone, SkipInput, SwitchFails, AddTask, start
  <2>6. CASE CheckRunning
    BY <1>0, <2>6, <2>idle, <2>same, GotoType DEF CheckRunning, Goto, Points
  <2>7. CASE ~ (ProcessThread \/ start)
    <3>1. th' = th
      BY <2>7 DEF Next, vars, DagThreads, TaskStep, CountOutput, onBufferDone, FrameDone,
           EraseInflight,
           FinishTask, ForgetTask, Environment, Stopping, NextRequest, QueueOutput,
           onFrameAvailable,
           LoseFrame, StopProducer, StopDag, StopThread, clearBufferQueues
    <3> QED BY <2>same, <3>1
  <2> QED BY <2>1, <2>2, <2>3, <2>4, <2>5, <2>6, <2>7 DEF ProcessThread
<1>2. ASSUME NEW j \in DOMAIN tasks'
      PROVE  OneRequest(tasks[j].outputs)'
  <2>old. ASSUME \E k \in DOMAIN tasks : tasks'[j].outputs = tasks[k].outputs
          PROVE  OneRequest(tasks[j].outputs)'
    BY <1>0, <2>old DEF Together, OneRequest
  <2>1. CASE AddTask
    <3>1. NewTask \in Tasks /\ NewTask.outputs = th.dst
      BY <1>0, <2>1, NewTaskType DEF AddTask
    <3>2. (j \in DOMAIN tasks /\ tasks'[j] = tasks[j]) \/ tasks'[j] = NewTask
      BY <1>0, <2>1, <3>1, AddType DEF AddTask
    <3>3. CASE tasks'[j] = NewTask
      BY <1>0, <3>1, <3>3 DEF Together, OneRequest
    <3> QED BY <2>old, <3>2, <3>3
  <2>2. CASE \E i \in DOMAIN tasks : TaskStep(i)
    <3>0. PICK i \in DOMAIN tasks : TaskStep(i)
      BY <2>2
    <3>1. CASE ForgetTask(i)
      BY <1>0, <3>1, <2>old, ForgetType
    <3>2. CASE \E p \in Ports : CountOutput(i, p)
      BY <1>0, <3>2, <2>old, CountType
    <3>3. CASE \E p \in Ports : onBufferDone(i, p)
      BY <1>0, <3>3, <2>old, DoneType
    <3>4. CASE FrameDone(i) \/ EraseInflight(i) \/ FinishTask(i)
      <4>1. \E s \in Stages : SetStage(i, s)
        BY <3>4 DEF FrameDone, EraseInflight, FinishTask, Stages
      <4> QED BY <1>0, <4>1, <2>old, StageType
    <3> QED BY <3>0, <3>1, <3>2, <3>3, <3>4 DEF TaskStep
  <2>3. CASE StopDag
    BY <1>0, <2>3, <2>old, DropType
  <2>4. CASE ~ (AddTask \/ DagThreads \/ StopDag)
    <3>1. tasks' = tasks
      BY <2>4 DEF Next, vars, ProcessThread, waitFreeBuffersInQueue, ThreadExits,
           handleRawReprocessing,
           SaveRaw, SavedRaw, AllBufDone, PopQueues, SkipInput, Dispatch, SwitchPipe, SwitchFails,
           CheckRunning, Environment, Stopping, NextRequest, QueueOutput, onFrameAvailable,
           LoseFrame, start, StopProducer, StopThread, clearBufferQueues
    <3> QED BY <2>old, <3>1
  <2> QED BY <2>1, <2>2, <2>3, <2>4 DEF DagThreads
<1> QED BY <1>1, <1>2 DEF Together

\* The queues and the tasks, in every step.
LEMMA StepInvStep ==
  ASSUME BaseInv, StepInv, [Next]_vars
  PROVE  StepInv'
  BY InStepStep, TogetherStep DEF StepInv

\* At the start nothing is queued, and nothing has left the queues.
LEMMA StepInit == Init => StepInv
<1> SUFFICES ASSUME Init PROVE StepInv
  OBVIOUS
<1>1. /\ th = IdleThread("exited") /\ tasks = <<>> /\ "exited" \in Points
      /\ requests = [list |-> <<>>, port |-> 0, last |-> -1]
      /\ \A p \in Ports : mOutputQueue[p] = <<>>
  BY DEF Init, Points
<1>2. InStep
  BY <1>1 DEF InStep, Gone, Top
<1>3. Together
  BY <1>1, IdleType DEF Together, OneRequest
<1> QED BY <1>2, <1>3 DEF StepInv

\* The outputs of a task belong to one request (PSysProcessor.cpp, prepareTask), although
\* the request thread fills the queues of the streams one after the other.
THEOREM OutputsBelongTogether == Spec => []OneRequestPerTask
<1>1. Init => BaseInv /\ StepInv
  BY BaseInit, StepInit
<1>2. (BaseInv /\ StepInv) /\ [Next]_vars => (BaseInv /\ StepInv)'
  BY BaseStep, StepInvStep
<1>3. BaseInv /\ StepInv => OneRequestPerTask
  <2> SUFFICES ASSUME BaseInv, StepInv, ~ cam.torn, NEW t \in Range(tasks),
                      NEW p \in ValidPorts(t.outputs), NEW q \in ValidPorts(t.outputs)
               PROVE  t.outputs[p] = t.outputs[q]
    BY DEF OneRequestPerTask
  <2>1. PICK i \in DOMAIN tasks : t = tasks[i]
    BY DEF Range
  <2> QED BY <2>1 DEF StepInv, Together, OneRequest, ValidPorts
<1> QED BY <1>1, <1>2, <1>3, PTL DEF Spec

-----------------------------------------------------------------------------
(* The frames of a session.                                                *)

\* Frames come one after the other, until the camera is started again.
LEMMA CurrentGrows ==
  ASSUME TypeInv, [Next]_vars, ~ start
  PROVE  /\ Base' = Base /\ Base \in Nat /\ Current \subseteq Current' /\ Current \subseteq Nat
         /\ onFrameAvailable => Frame(cam.session, cam.frames) \in Current'
<1>0. cam \in Cameras /\ cam.session \in Nat /\ cam.frames \in Nat
  BY Constants DEF TypeInv, Cameras
<1>1. Base \in Nat
  <2>1. \A x, y \in Nat : x * y \in Nat
    OBVIOUS
  <2> QED BY <1>0, <2>1, Constants DEF Base
<1>2. /\ cam'.session = cam.session /\ cam'.frames \in {cam.frames, cam.frames + 1}
      /\ onFrameAvailable => cam'.frames = cam.frames + 1
  <2>1. CASE onFrameAvailable \/ LoseFrame
    BY <1>0, <2>1 DEF onFrameAvailable, LoseFrame, Cameras
  <2>2. CASE ~ (onFrameAvailable \/ LoseFrame)
    BY <1>0, <2>2, Groups DEF Next, vars, ProcessThread, waitFreeBuffersInQueue, ThreadExits,
         handleRawReprocessing, SaveRaw, SavedRaw, AllBufDone, PopQueues, SkipInput, Dispatch,
         SwitchPipe,
         SwitchFails, CheckRunning, AddTask, DagThreads, TaskStep, CountOutput, onBufferDone,
         FrameDone,
         EraseInflight, FinishTask, ForgetTask, Environment, Stopping, NextRequest, QueueOutput,
         StopProducer, StopDag, StopThread, clearBufferQueues, Cameras
  <2> QED BY <2>1, <2>2
<1>3. Base' = Base
  BY <1>2 DEF Base
<1>4. Current \subseteq Current' /\ Current \subseteq Nat
  BY <1>0, <1>1, <1>2, <1>3 DEF Current
<1>5. ASSUME onFrameAvailable PROVE Frame(cam.session, cam.frames) \in Current'
  <2>1. Frame(cam.session, cam.frames) = Base + cam.frames /\ cam'.frames = cam.frames + 1
    BY <1>2, <1>5 DEF Frame, Base
  <2> QED BY <1>0, <1>1, <1>3, <2>1 DEF Current
<1> QED BY <1>1, <1>3, <1>4, <1>5

\* Where the frame of the thread comes from.
LEMMA SourceOfFrame ==
  ASSUME BaseInv, [Next]_vars, HasFrame'
  PROVE  \/ HasFrame /\ th'.src = th.src
         \/ /\ mInputQueue # <<>> /\ th'.src = Head(mInputQueue) /\ th'.src = mInputQueue[1]
            /\ 1 \in DOMAIN mInputQueue /\ waitFreeBuffersInQueue
         \/ /\ th'.src \in mRawBufferMap /\ handleRawReprocessing /\ th'.hasRawInput
            /\ SequenceOf(th'.src) = Setting
<1>0. TypeInv /\ th \in Threads /\ mInputQueue \in Seq(Nat)
  BY DEF BaseInv, TypeInv, QueueType
<1>idle. ASSUME NEW point \in {"loop", "exited"}, th' = IdleThread(point) PROVE FALSE
  <2>1. point \in Points
    BY DEF Points
  <2> QED BY <1>idle, <2>1, IdleType DEF HasFrame
<1>1. CASE waitFreeBuffersInQueue
  <2>1. mInputQueue # <<>> /\ th'.src = Head(mInputQueue)
    BY <1>0, <1>1, WaitType
  <2> QED BY <1>0, <1>1, <2>1, TailPlaces
<1>2. CASE handleRawReprocessing
  BY <1>0, <1>2, RawStepType DEF HasFrame, ThAt
<1>3. CASE SavedRaw
  BY <1>0, <1>3, SavedType DEF HasFrame, ThAt
<1>4. CASE SaveRaw \/ PopQueues \/ Dispatch \/ SwitchPipe
  BY <1>0, <1>4, GotoType DEF SaveRaw, PopQueues, Dispatch, SwitchPipe, Points, HasFrame, ThAt
<1>5. CASE ThreadExits \/ AllBufDone \/ SkipInput \/ SwitchFails \/ AddTask \/ start
  BY <1>5, <1>idle DEF ThreadExits, AllBufDone, SkipInput, SwitchFails, AddTask, start
<1>6. CASE CheckRunning
  BY <1>0, <1>6, <1>idle, GotoType DEF CheckRunning, Goto, Points, HasFrame, ThAt
<1>7. CASE ~ (ProcessThread \/ start)
  <2>1. th' = th
    BY <1>7, ZenonT(30) DEF Next, vars, DagThreads, TaskStep, CountOutput, onBufferDone, FrameDone,
         EraseInflight,
         FinishTask, ForgetTask, Environment, Stopping, NextRequest, QueueOutput, onFrameAvailable,
         LoseFrame, StopProducer, StopDag, StopThread, clearBufferQueues
  <2> QED BY <2>1 DEF HasFrame
<1> QED BY <1>1, <1>2, <1>3, <1>4, <1>5, <1>6, <1>7 DEF ProcessThread

\* What a step does with the queue of frames.
LEMMA InputMoves ==
  ASSUME BaseInv, [Next]_vars
  PROVE  /\ mInputQueue' \in Seq(Nat)
         /\ \/ mInputQueue' = mInputQueue
            \/ /\ AllBufDone \/ PopQueues
               /\ mInputQueue # <<>> /\ 1 \in DOMAIN mInputQueue
               /\ mInputQueue[1] = Head(mInputQueue)
               /\ \A n \in DOMAIN mInputQueue' :
                    n + 1 \in DOMAIN mInputQueue /\ mInputQueue'[n] = mInputQueue[n + 1]
               /\ \A n \in DOMAIN mInputQueue :
                    n = 1 \/ \E m \in DOMAIN mInputQueue' : mInputQueue'[m] = mInputQueue[n]
            \/ /\ onFrameAvailable
               /\ \A n \in DOMAIN mInputQueue :
                    n \in DOMAIN mInputQueue' /\ mInputQueue'[n] = mInputQueue[n]
               /\ Len(mInputQueue) + 1 \in DOMAIN mInputQueue'
               /\ mInputQueue'[Len(mInputQueue) + 1] = Frame(cam.session, cam.frames)
               /\ \A n \in DOMAIN mInputQueue' :
                    n \in DOMAIN mInputQueue \/ n = Len(mInputQueue) + 1
               /\ \A n \in DOMAIN mInputQueue : n # Len(mInputQueue) + 1
            \/ clearBufferQueues /\ mInputQueue' = <<>>
<1>0. TypeInv /\ mInputQueue \in Seq(Nat)
  BY DEF BaseInv, TypeInv, QueueType
<1>1. CASE (AllBufDone \/ PopQueues) /\ mInputQueue' = Tail(mInputQueue)
  <2>1. mInputQueue # <<>>
    BY <1>1 DEF AllBufDone, PopQueues, BaseInv, ControlInv, Fronts, Taking, ThAt
  <2>2. /\ Tail(mInputQueue) \in Seq(Nat) /\ Len(Tail(mInputQueue)) = Len(mInputQueue) - 1
        /\ \A n \in DOMAIN Tail(mInputQueue) :
             n + 1 \in DOMAIN mInputQueue /\ Tail(mInputQueue)[n] = mInputQueue[n + 1]
        /\ 1 \in DOMAIN mInputQueue /\ Head(mInputQueue) = mInputQueue[1]
    BY <1>0, <2>1, TailPlaces
  <2>3. ASSUME NEW n \in DOMAIN mInputQueue, n # 1
        PROVE  \E m \in DOMAIN Tail(mInputQueue) : Tail(mInputQueue)[m] = mInputQueue[n]
    <3>1. n - 1 \in DOMAIN Tail(mInputQueue) /\ (n - 1) + 1 = n
      BY <1>0, <2>2, <2>3
    <3> QED BY <2>2, <3>1
  <2> QED BY <1>1, <2>1, <2>2, <2>3
<1>2. CASE onFrameAvailable
  <2> DEFINE f == Frame(cam.session, cam.frames)
  <2>1. f \in Nat
    BY <1>0, FrameType, Constants, SMTT(30) DEF TypeInv, Cameras
  <2>2. mInputQueue' = Append(mInputQueue, f)
    BY <1>2 DEF onFrameAvailable
  <2> HIDE DEF f
  <2>3. /\ mInputQueue' \in Seq(Nat)
        /\ \A n \in DOMAIN mInputQueue :
             n \in DOMAIN mInputQueue' /\ mInputQueue'[n] = mInputQueue[n]
        /\ mInputQueue'[Len(mInputQueue) + 1] = f /\ Len(mInputQueue) + 1 \in DOMAIN mInputQueue'
        /\ \A n \in DOMAIN mInputQueue' : n \in DOMAIN mInputQueue \/ n = Len(mInputQueue) + 1
    BY <1>0, <2>1, <2>2, AppendPlaces
  <2>4. \A n \in DOMAIN mInputQueue : n # Len(mInputQueue) + 1
    BY <1>0
  <2> QED BY <1>2, <2>3, <2>4 DEF f
<1>3. CASE clearBufferQueues
  BY <1>3 DEF clearBufferQueues
<1>4. CASE mInputQueue' = mInputQueue
  BY <1>0, <1>4
<1>5. \/ mInputQueue' = mInputQueue \/ onFrameAvailable \/ clearBufferQueues
      \/ (AllBufDone \/ PopQueues) /\ mInputQueue' = Tail(mInputQueue)
  BY Groups DEF Next, vars, ProcessThread, waitFreeBuffersInQueue, ThreadExits,
       handleRawReprocessing, SaveRaw, SavedRaw, AllBufDone, PopQueues, SkipInput, Dispatch,
       SwitchPipe,
       SwitchFails, CheckRunning, AddTask, DagThreads, TaskStep, CountOutput, onBufferDone,
       FrameDone,
       EraseInflight, FinishTask, ForgetTask, Environment, Stopping, NextRequest, QueueOutput,
       LoseFrame, start, StopProducer, StopDag, StopThread
<1> QED BY <1>1, <1>2, <1>3, <1>4, <1>5

\* What a step does with the raw frames that are out, and with the ones that are kept.
LEMMA RawMoves ==
  ASSUME BaseInv, [Next]_vars, ~ start
  PROVE  /\ captured' \subseteq captured \cup {f \in {Frame(cam.session, cam.frames)} : onFrameAvailable}
         /\ mRawBufferMap' \subseteq mRawBufferMap \cup {f \in {th.src} : SaveRaw}
<1> USE Groups
<1>0. TypeInv /\ RawType /\ th \in Threads
  BY DEF BaseInv, TypeInv
<1>1. CASE SaveRaw
  BY <1>1 DEF SaveRaw
<1>2. CASE onFrameAvailable
  BY <1>2 DEF onFrameAvailable
<1>3. CASE SavedRaw \/ \E i \in DOMAIN tasks : FinishTask(i)
  <2>1. ReturnRaw
    BY <1>3 DEF SavedRaw, FinishTask
  <2> QED BY <1>0, <2>1, ReturnType
<1>4. CASE SkipInput
  <2>1. mRawBufferMap' = mRawBufferMap /\ GiveBackUnlessHeld(th.src)
    BY <1>4 DEF SkipInput
  <2>2. captured' \subseteq captured
    BY <1>0, <2>1, UnlessHeldType DEF Threads
  <2> QED BY <2>1, <2>2
<1>5. ASSUME NEW i \in DOMAIN tasks, FrameDone(i)
      PROVE  captured' \subseteq captured /\ mRawBufferMap' = mRawBufferMap
  <2>0. tasks[i] \in Tasks
    BY <1>0, ElementOfSeq DEF TypeInv
  <2>1. tasks[i].input \in Int
    BY <2>0 DEF Tasks
  <2>2. captured' = captured \/ GiveBackUnlessHeld(tasks[i].input)
    BY <1>5 DEF FrameDone
  <2>3. captured' \subseteq captured
    BY <1>0, <2>1, <2>2, UnlessHeldType
  <2> QED BY <1>5, <2>3 DEF FrameDone
<1>6. CASE ~ (SaveRaw \/ onFrameAvailable \/ SavedRaw \/ SkipInput
              \/ \E i \in DOMAIN tasks : FinishTask(i) \/ FrameDone(i))
  BY <1>6 DEF Next, vars, ProcessThread, waitFreeBuffersInQueue, ThreadExits,
       handleRawReprocessing, AllBufDone, PopQueues, Dispatch, SwitchPipe,
       SwitchFails, CheckRunning, AddTask, DagThreads, TaskStep, CountOutput, onBufferDone,
       EraseInflight, ForgetTask, Environment, Stopping, NextRequest, QueueOutput,
       LoseFrame, StopProducer, StopDag, StopThread, clearBufferQueues
<1> QED BY <1>1, <1>2, <1>3, <1>4, <1>5, <1>6

\* The frames that are anywhere are of this session.
LEMMA FrameStep ==
  ASSUME BaseInv, FrameInv, [Next]_vars
  PROVE  FrameInv'
<1>0. TypeInv /\ Lifecycle
  BY DEF BaseInv, ControlInv
<1>1. CASE start
  <2>1. mInputQueue' = <<>> /\ captured' = {} /\ mRawBufferMap' = {} /\ th' = IdleThread("loop")
    BY <1>0, <1>1, Groups DEF start, Lifecycle
  <2>2. ~ HasFrame'
    BY <2>1, IdleType DEF HasFrame, Points
  <2> QED BY <2>1, <2>2 DEF FrameInv
<1>2. CASE ~ start
  <2>1. Current \subseteq Current' /\ (onFrameAvailable => Frame(cam.session, cam.frames) \in Current')
    BY <1>0, <1>2, CurrentGrows
  <2>2. ASSUME HasFrame' PROVE th'.src \in Current'
    BY <2>1, <2>2, SourceOfFrame DEF FrameInv
  <2>3. captured' \subseteq Current'
    BY <1>2, <2>1, RawMoves DEF FrameInv
  <2>4. mRawBufferMap' \subseteq Current'
    <3>1. SaveRaw => HasFrame
      BY DEF SaveRaw, ThAt, HasFrame
    <3> QED BY <1>2, <2>1, <3>1, RawMoves DEF FrameInv
  <2>5. ASSUME NEW n \in DOMAIN mInputQueue' PROVE mInputQueue'[n] \in Current'
    BY <2>1, InputMoves DEF FrameInv
  <2> QED BY <2>2, <2>3, <2>4, <2>5 DEF FrameInv
<1> QED BY <1>1, <1>2

\* At the start there is no frame.
LEMMA FrameInit ==
  ASSUME Init
  PROVE  FrameInv
<1>1. /\ mInputQueue = <<>> /\ captured = {} /\ mRawBufferMap = {} /\ th = IdleThread("exited")
      /\ "exited" \in Points
  BY DEF Init, Points
<1> QED BY <1>1, IdleType DEF FrameInv, HasFrame

-----------------------------------------------------------------------------
(* What a step does with the tasks.                                        *)

\* Task k of the next state is task j of this one, maybe further on.
Same(j, k) ==
    /\ tasks'[k].input = tasks[j].input /\ tasks'[k].outputs = tasks[j].outputs
    /\ tasks'[k].mode = tasks[j].mode
    /\ tasks'[k].left \cup tasks'[k].calling \subseteq tasks[j].left \cup tasks[j].calling
    /\ tasks'[k].stage = "run" => tasks[j].stage = "run"
    /\ tasks'[k].stage \in {"run", "inputs"} =>
         \/ tasks[j].stage \in {"run", "inputs"}
         \/ tasks[j].stage = "dropped" /\ tasks[j].last # 0
    /\ tasks'[k].stage \in Counted => tasks[j].stage \in Counted

\* A task that is taken on is the same task.
LEMMA StageSame ==
  ASSUME tasks \in Seq(Tasks), NEW i \in DOMAIN tasks, NEW j \in DOMAIN tasks,
         FrameDone(i) \/ EraseInflight(i) \/ FinishTask(i)
  PROVE  Same(j, j) /\ DOMAIN tasks' = DOMAIN tasks
<1>1. CASE FrameDone(i)
  <2>1. tasks[i].stage = "inputs" /\ SetStage(i, "erase") /\ "erase" \in Stages
    BY <1>1 DEF FrameDone, Stages
  <2> QED BY <2>1, StageType DEF Same, Counted
<1>2. CASE EraseInflight(i)
  <2>1. tasks[i].stage = "erase" /\ SetStage(i, "raw") /\ "raw" \in Stages
    BY <1>2 DEF EraseInflight, Stages
  <2> QED BY <2>1, StageType DEF Same, Counted
<1>3. CASE FinishTask(i)
  <2>1. tasks[i].stage = "raw" /\ SetStage(i, "done") /\ "done" \in Stages
    BY <1>3 DEF FinishTask, Stages
  <2> QED BY <2>1, StageType DEF Same, Counted
<1> QED BY <1>1, <1>2, <1>3

\* The tasks of the next state are tasks of this one, in the same order, or the new one.
LEMMA TaskMoves ==
  ASSUME BaseInv, [Next]_vars, ~ AddTask
  PROVE  \E o \in [DOMAIN tasks' -> DOMAIN tasks] :
           /\ \A k \in DOMAIN tasks' : Same(o[k], k)
           /\ \A j, k \in DOMAIN tasks' : j < k => o[j] < o[k]
<1>0. tasks \in Seq(Tasks) /\ StagesInv
  BY DEF BaseInv, TypeInv, ControlInv
<1>id. ASSUME DOMAIN tasks' = DOMAIN tasks, \A j \in DOMAIN tasks : Same(j, j)
       PROVE  \E o \in [DOMAIN tasks' -> DOMAIN tasks] :
                /\ \A k \in DOMAIN tasks' : Same(o[k], k)
                /\ \A j, k \in DOMAIN tasks' : j < k => o[j] < o[k]
  <2> DEFINE o == [k \in DOMAIN tasks' |-> k]
  <2>1. o \in [DOMAIN tasks' -> DOMAIN tasks] /\ \A k \in DOMAIN tasks' : o[k] = k
    BY <1>id
  <2> HIDE DEF o
  <2> QED BY <1>id, <2>1
<1>1. CASE \E i \in DOMAIN tasks : TaskStep(i)
  <2>0. PICK i \in DOMAIN tasks : TaskStep(i)
    BY <1>1
  <2>1. CASE \E p \in Ports : CountOutput(i, p)
    <3>1. PICK p \in Ports : CountOutput(i, p)
      BY <2>1
    <3>2. ASSUME NEW j \in DOMAIN tasks PROVE Same(j, j)
      <4>1. tasks'[j].left \cup tasks'[j].calling \subseteq tasks[j].left \cup tasks[j].calling
        <5>1. p \in tasks[i].left
          BY <3>1 DEF CountOutput
        <5> QED BY <1>0, <3>1, <5>1, CountType
      <4> QED BY <1>0, <3>1, <4>1, CountType DEF Same
    <3> QED BY <1>0, <1>id, <3>1, <3>2, CountType
  <2>2. CASE \E p \in Ports : onBufferDone(i, p)
    <3>1. PICK p \in Ports : onBufferDone(i, p)
      BY <2>2
    <3>2. ASSUME NEW j \in DOMAIN tasks PROVE Same(j, j)
      <4>1. tasks'[j].left \cup tasks'[j].calling \subseteq tasks[j].left \cup tasks[j].calling
        BY <1>0, <3>1, DoneType
      <4>2. \/ tasks'[j].stage = tasks[j].stage
            \/ tasks'[j].stage = "inputs" /\ tasks[j].stage = "run"
            \/ tasks'[j].stage = "inputs" /\ tasks[j].stage = "dropped" /\ tasks[j].last = p
        BY <1>0, <3>1, DoneType DEF CountedLast
      <4>3. p # 0
        BY DEF Ports
      <4> QED BY <1>0, <3>1, <4>1, <4>2, <4>3, DoneType DEF Same, Counted
    <3> QED BY <1>0, <1>id, <3>1, <3>2, DoneType
  <2>3. CASE FrameDone(i) \/ EraseInflight(i) \/ FinishTask(i)
    BY <1>0, <1>id, <2>3, StageSame
  <2>4. CASE ForgetTask(i)
    <3> DEFINE o == [k \in DOMAIN tasks' |-> Before(i, k)]
    <3>1. o \in [DOMAIN tasks' -> DOMAIN tasks] /\ \A k \in DOMAIN tasks' : o[k] = Before(i, k)
      BY <1>0, <2>4, ForgetType
    <3> HIDE DEF o
    <3>2. \A k \in DOMAIN tasks' : Same(o[k], k)
      BY <1>0, <2>4, <3>1, ForgetType DEF Same
    <3>3. \A j, k \in DOMAIN tasks' : j < k => o[j] < o[k]
      BY <1>0, <2>4, <3>1, ForgetType
    <3> QED BY <3>1, <3>2, <3>3
  <2> QED BY <2>0, <2>1, <2>2, <2>3, <2>4 DEF TaskStep
<1>2. CASE StopDag
  <2>1. ASSUME NEW j \in DOMAIN tasks PROVE Same(j, j)
    BY <1>0, <1>2, DropType DEF Same, Counted
  <2> QED BY <1>0, <1>id, <1>2, <2>1, DropType
<1>3. CASE ~ (DagThreads \/ StopDag)
  <2>1. tasks' = tasks
    BY <1>3 DEF Next, vars, ProcessThread, waitFreeBuffersInQueue, ThreadExits,
         handleRawReprocessing,
         SaveRaw, SavedRaw, AllBufDone, PopQueues, SkipInput, Dispatch, SwitchPipe, SwitchFails,
         CheckRunning, Environment, Stopping, NextRequest, QueueOutput, onFrameAvailable,
         LoseFrame, start, StopProducer, StopThread, clearBufferQueues
  <2> QED BY <1>id, <2>1 DEF Same
<1> QED BY <1>1, <1>2, <1>3 DEF DagThreads

-----------------------------------------------------------------------------
(* The pipe is switched when nothing is in flight.                         *)

\* The tasks of a sequence can be counted.
LEMMA InflightType ==
  ASSUME TypeInv, NEW seq
  PROVE  IsFiniteSet(Inflight(seq)) /\ Cardinality(Inflight(seq)) \in Nat
<1>1. Inflight(seq) \subseteq 1..Len(tasks)
  BY DEF Inflight, TypeInv
<1>2. IsFiniteSet(1..Len(tasks))
  BY FS_Interval DEF TypeInv
<1> QED BY <1>1, <1>2, FS_Subset, FS_CardinalityType

\* No step but AddTask adds to the tasks in flight.
LEMMA InflightShrinks ==
  ASSUME BaseInv, [Next]_vars, ~ AddTask, NEW seq
  PROVE  Cardinality(Inflight(seq)') <= Cardinality(Inflight(seq))
<1> DEFINE S == Inflight(seq)
           T == Inflight(seq)'
<1>1. PICK o \in [DOMAIN tasks' -> DOMAIN tasks] :
        /\ \A k \in DOMAIN tasks' : Same(o[k], k)
        /\ \A j, k \in DOMAIN tasks' : j < k => o[j] < o[k]
  BY TaskMoves
<1>2. IsFiniteSet(S) /\ Cardinality(S) \in Nat
  BY InflightType DEF BaseInv
<1>3. \A k \in T : k \in DOMAIN tasks' /\ o[k] \in S
  BY <1>1 DEF Same, Inflight
<1>4. \A j, k \in T : j # k => o[j] # o[k]
  <2>1. T \subseteq Nat
    <3>1. tasks' \in Seq(Tasks)
      BY BaseStep DEF BaseInv, TypeInv
    <3> QED BY <3>1 DEF Inflight
  <2>2. ASSUME NEW j \in T, NEW k \in T, j < k PROVE o[j] # o[k]
    <3>1. o[j] < o[k] /\ o[j] \in Nat /\ o[k] \in Nat
      <4>1. \A x \in DOMAIN tasks : x \in Nat
        BY DEF BaseInv, TypeInv
      <4> QED BY <1>1, <1>3, <2>2, <4>1
    <3> QED BY <3>1
  <2> QED BY <2>1, <2>2
<1> DEFINE f == [k \in T |-> o[k]]
<1> HIDE DEF S, T
<1>5. f \in [T -> S] /\ \A k \in T : f[k] = o[k]
  BY <1>3
<1> HIDE DEF f
<1>6. f \in Injection(T, S)
  BY <1>4, <1>5 DEF Injection, IsInjective
<1>7. Cardinality(T) <= Cardinality(S)
  BY <1>2, <1>6, FS_Injection DEF ExistsInjection
<1> QED BY <1>7 DEF S, T

\* The thread counts its task in before it adds it.
LEMMA AddingType ==
  ASSUME TypeInv, NEW seq \in Sequences0
  PROVE  Adding(seq) \in {0, 1} /\ mSequencesInflight[seq] \in Nat
  BY DEF Adding, TypeInv, QueueType

\* What changes mSequencesInflight, and what the thread is about to add.
LEMMA AddingMoves ==
  ASSUME BaseInv, [Next]_vars, NEW seq \in Sequences0
  PROVE  \/ /\ ~ AddTask /\ mSequencesInflight'[seq] = mSequencesInflight[seq]
            /\ Adding(seq)' <= Adding(seq)
         \/ /\ ~ AddTask /\ mSequencesInflight'[seq] = mSequencesInflight[seq] + 1
            /\ Adding(seq) = 0
         \/ /\ AddTask /\ mSequencesInflight'[seq] = mSequencesInflight[seq]
            /\ Adding(seq)' = 0 /\ (Seq0 = seq => Adding(seq) = 1)
         \/ /\ ~ AddTask /\ Adding(seq)' = Adding(seq)
            /\ \E i \in Inflight(seq) : EraseInflight(i) /\ tasks[i].stage = "erase"
<1> USE Groups
<1>0. /\ TypeInv /\ th \in Threads /\ mSequencesInflight \in [Sequences0 -> Nat]
      /\ Adding(seq) \in {0, 1} /\ mSequencesInflight[seq] \in Nat
  BY AddingType DEF BaseInv, TypeInv, QueueType
<1>p. /\ "loop" \in Points /\ "exited" \in Points /\ "saved" \in Points /\ "skip" \in Points
      /\ "dispatch" \in Points /\ "switch" \in Points /\ "add" \in Points /\ "queue" \in Points
  BY DEF Points
<1>away. ASSUME th'.pc \notin {"add", "queue"} PROVE Adding(seq)' = 0
  BY <1>away DEF Adding
<1>le. ASSUME Adding(seq)' = 0 PROVE Adding(seq)' <= Adding(seq)
  BY <1>0, <1>le
<1>eq. ASSUME th'.pc = th.pc, th'.src = th.src PROVE Adding(seq)' = Adding(seq)
  BY <1>eq DEF Adding, Seq0
<1>1. CASE AddTask
  <2>1. th' = IdleThread("loop") /\ mSequencesInflight' = mSequencesInflight /\ th.pc = "queue"
    BY <1>1 DEF AddTask, ThAt
  <2>2. th'.pc = "loop"
    BY <1>p, <2>1, IdleType
  <2> QED BY <1>1, <1>away, <2>1, <2>2 DEF Adding
<1>2. CASE (Dispatch /\ ~ MustDrain) \/ SwitchPipe
  <2>1. InsertInflight /\ Goto("add") /\ th.pc \in {"dispatch", "switch"} /\ th.pc # "queue"
    BY <1>2 DEF Dispatch, SwitchPipe, ThAt
  <2>2. th'.pc = "add" /\ th'.src = th.src
    BY <1>0, <1>p, <2>1, GotoType
  <2>3. Adding(seq) = 0 /\ ~ AddTask
    BY <2>1 DEF Adding, AddTask, ThAt
  <2>4. Seq0 \in Sequences0
    BY <1>0, SequenceType DEF Seq0, Threads
  <2>5. CASE Seq0 = seq
    BY <1>0, <2>1, <2>3, <2>4, <2>5 DEF InsertInflight
  <2>6. CASE Seq0 # seq
    <3>1. Adding(seq)' = 0
      BY <2>2, <2>6 DEF Adding, Seq0
    <3>2. mSequencesInflight'[seq] = mSequencesInflight[seq]
      BY <1>0, <2>1, <2>4, <2>6 DEF InsertInflight
    <3> QED BY <1>le, <2>3, <3>1, <3>2
  <2> QED BY <2>5, <2>6
<1>3. ASSUME NEW i \in DOMAIN tasks, EraseInflight(i)
      PROVE  \/ /\ ~ AddTask /\ mSequencesInflight'[seq] = mSequencesInflight[seq]
                /\ Adding(seq)' <= Adding(seq)
             \/ /\ ~ AddTask /\ Adding(seq)' = Adding(seq)
                /\ \E j \in Inflight(seq) : EraseInflight(j) /\ tasks[j].stage = "erase"
  <2>1. th' = th /\ Adding(seq)' = Adding(seq) /\ tasks[i].stage = "erase"
    BY <1>3, <1>eq DEF EraseInflight
  <2>2. ~ AddTask
    <3>1. ASSUME AddTask PROVE FALSE
      <4>1. th' = IdleThread("loop") /\ th.pc = "queue"
        BY <3>1 DEF AddTask, ThAt
      <4>2. th'.pc = "loop"
        BY <1>p, <4>1, IdleType
      <4> QED BY <2>1, <4>1, <4>2
    <3> QED BY <3>1
  <2>3. CASE SequenceOf(tasks[i].input) = seq
    <3>1. i \in Inflight(seq)
      BY <2>1, <2>3 DEF Inflight, Counted
    <3> QED BY <1>3, <2>1, <2>2, <3>1
  <2>4. CASE SequenceOf(tasks[i].input) # seq
    <3> DEFINE x == SequenceOf(tasks[i].input)
    <3>1. mSequencesInflight' = [mSequencesInflight EXCEPT ![x] = IF @ > 0 THEN @ - 1 ELSE 0]
      BY <1>3 DEF EraseInflight
    <3>2. x # seq
      BY <2>4
    <3> HIDE DEF x
    <3>3. mSequencesInflight'[seq] = mSequencesInflight[seq]
      BY <1>0, <3>1, <3>2
    <3> QED BY <1>0, <2>1, <2>2, <3>3
  <2> QED BY <2>3, <2>4
<1>4. CASE ThreadExits \/ AllBufDone \/ SkipInput \/ SwitchFails \/ start
  <2>1. \E point \in {"loop", "exited"} : th' = IdleThread(point)
    BY <1>4 DEF ThreadExits, AllBufDone, SkipInput, SwitchFails, start
  <2>2. th'.pc \notin {"add", "queue"}
    BY <1>p, <2>1, IdleType
  <2>3. mSequencesInflight' = mSequencesInflight
    BY <1>4 DEF ThreadExits, AllBufDone, SkipInput, SwitchFails, start
  <2> QED BY <1>1, <1>away, <1>le, <2>2, <2>3
<1>5. CASE waitFreeBuffersInQueue \/ handleRawReprocessing \/ SavedRaw
  <2>1. th'.pc \notin {"add", "queue"}
    BY <1>0, <1>5, WaitType, RawStepType, SavedType
  <2>2. mSequencesInflight' = mSequencesInflight
    BY <1>5 DEF waitFreeBuffersInQueue, handleRawReprocessing, SavedRaw
  <2> QED BY <1>1, <1>away, <1>le, <2>1, <2>2
<1>6. CASE SaveRaw \/ PopQueues \/ (Dispatch /\ MustDrain)
  <2>1. \E point \in {"saved", "skip", "dispatch", "switch"} : Goto(point)
    BY <1>6 DEF SaveRaw, PopQueues, Dispatch
  <2>2. th'.pc \notin {"add", "queue"}
    BY <1>0, <1>p, <2>1, GotoType
  <2>3. mSequencesInflight' = mSequencesInflight
    BY <1>6 DEF SaveRaw, PopQueues, Dispatch
  <2> QED BY <1>1, <1>away, <1>le, <2>2, <2>3
<1>7. CASE CheckRunning
  <2>1. mSequencesInflight' = mSequencesInflight /\ th.pc = "add"
    BY <1>7 DEF CheckRunning, ThAt
  <2>2. Adding(seq)' <= Adding(seq)
    <3>1. CASE mThreadRunning
      <4>1. th'.src = th.src /\ th'.pc = "queue"
        BY <1>0, <1>7, <3>1 DEF CheckRunning, Threads
      <4> QED BY <1>0, <2>1, <4>1 DEF Adding, Seq0
    <3>2. CASE ~ mThreadRunning
      <4>1. th'.pc = "loop"
        BY <1>7, <1>p, <3>2, IdleType DEF CheckRunning
      <4> QED BY <1>away, <1>le, <4>1
    <3> QED BY <3>1, <3>2
  <2> QED BY <1>1, <2>1, <2>2
<1>8. CASE ~ (ProcessThread \/ start \/ \E i \in DOMAIN tasks : EraseInflight(i))
  <2>1. th' = th /\ mSequencesInflight' = mSequencesInflight
    BY <1>8 DEF Next, vars, DagThreads, TaskStep, CountOutput, onBufferDone, FrameDone,
         FinishTask, ForgetTask, Environment, Stopping, NextRequest, QueueOutput, onFrameAvailable,
         LoseFrame, StopProducer, StopDag, StopThread, clearBufferQueues
  <2> QED BY <1>0, <1>1, <1>eq, <2>1
<1> QED BY <1>1, <1>2, <1>3, <1>4, <1>5, <1>6, <1>7, <1>8 DEF ProcessThread

\* mSequencesInflight counts every task until onFrameDone counts it out.
LEMMA CountStep ==
  ASSUME BaseInv, CountInv, [Next]_vars
  PROVE  CountInv'
<1>0. TypeInv /\ TypeInv'
  BY BaseStep DEF BaseInv
<1> SUFFICES ASSUME NEW seq \in Sequences0
             PROVE  Cardinality(Inflight(seq)') + Adding(seq)' <= mSequencesInflight'[seq]
  BY DEF CountInv
<1> DEFINE c == Cardinality(Inflight(seq))
           d == Cardinality(Inflight(seq)')
           a == Adding(seq)
           b == Adding(seq)'
           m == mSequencesInflight[seq]
           n == mSequencesInflight'[seq]
<1>1. /\ c \in Nat /\ d \in Nat /\ a \in {0, 1} /\ b \in {0, 1} /\ m \in Nat /\ n \in Nat
      /\ IsFiniteSet(Inflight(seq))
  <2>1. (TypeInv => IsFiniteSet(Inflight(seq)) /\ Cardinality(Inflight(seq)) \in Nat)'
    BY InflightType, PTL
  <2>2. b \in {0, 1} /\ n \in Nat
    BY <1>0 DEF Adding, TypeInv, QueueType
  <2> QED BY <1>0, <2>1, <2>2, InflightType, AddingType
<1>2. c + a <= m
  BY DEF CountInv
<1>3. ~ AddTask => d <= c
  BY InflightShrinks
<1>4. \/ ~ AddTask /\ n = m /\ b <= a
      \/ ~ AddTask /\ n = m + 1 /\ a = 0
      \/ AddTask /\ n = m /\ b = 0 /\ (Seq0 = seq => a = 1)
      \/ ~ AddTask /\ b = a /\ \E i \in Inflight(seq) : EraseInflight(i) /\ tasks[i].stage = "erase"
  BY AddingMoves
<1>5. ASSUME AddTask PROVE d <= IF Seq0 = seq THEN c + 1 ELSE c
  <2>1. /\ NewTask \in Tasks /\ NewTask.input = th.src /\ tasks' = Append(tasks, NewTask)
        /\ tasks \in Seq(Tasks)
    BY <1>0, <1>5, NewTaskType DEF AddTask, TypeInv
  <2>2. /\ \A j \in DOMAIN tasks : j \in DOMAIN tasks' /\ tasks'[j] = tasks[j]
        /\ \A j \in DOMAIN tasks' : j \in DOMAIN tasks \/ j = Len(tasks) + 1
        /\ tasks'[Len(tasks) + 1] = NewTask
    BY <2>1, AddType
  <2>3. CASE Seq0 = seq
    <3>1. Inflight(seq)' \subseteq Inflight(seq) \cup {Len(tasks) + 1}
      BY <2>2 DEF Inflight
    <3> DEFINE x == Len(tasks) + 1
               U == Inflight(seq) \cup {x}
    <3> HIDE DEF x
    <3>a. IsFiniteSet(U) /\ Cardinality(U) = IF x \in Inflight(seq) THEN c ELSE c + 1
      BY <1>1, FS_AddElement
    <3>2. IsFiniteSet(U) /\ Cardinality(U) <= c + 1
      BY <1>1, <3>a
    <3> USE DEF x
    <3> QED BY <1>1, <2>3, <3>1, <3>2, FS_Subset, FS_CardinalityType
  <2>4. CASE Seq0 # seq
    <3>1. Inflight(seq)' \subseteq Inflight(seq)
      BY <2>1, <2>2, <2>4 DEF Inflight, Seq0
    <3> QED BY <1>1, <2>4, <3>1, FS_Subset
  <2> QED BY <2>3, <2>4
<1>6. ASSUME NEW i \in Inflight(seq), EraseInflight(i), tasks[i].stage = "erase"
      PROVE  d <= c - 1 /\ n = m - 1
  <2>1. i \in DOMAIN tasks /\ SequenceOf(tasks[i].input) = seq /\ tasks \in Seq(Tasks)
        /\ SetStage(i, "raw") /\ "raw" \in Stages
    BY <1>0, <1>6 DEF Inflight, TypeInv, EraseInflight, Stages
  <2>2. Inflight(seq)' \subseteq Inflight(seq) \ {i}
    BY <2>1, StageType DEF Inflight, Counted
  <2>3. IsFiniteSet(Inflight(seq) \ {i}) /\ Cardinality(Inflight(seq) \ {i}) = c - 1
    BY <1>1, FS_RemoveElement
  <2>4. d <= c - 1
    BY <2>2, <2>3, FS_Subset
  <2>5. m > 0
    <3>1. c - 1 \in Nat
      BY <1>1, <2>4
    <3> QED BY <1>1, <1>2, <3>1
  <2>6. mSequencesInflight' = [mSequencesInflight EXCEPT ![seq] = IF @ > 0 THEN @ - 1 ELSE 0]
    BY <1>6, <2>1 DEF EraseInflight
  <2>7. n = m - 1
    BY <1>0, <2>5, <2>6 DEF TypeInv, QueueType
  <2> QED BY <2>4, <2>7
<1> HIDE DEF c, d, a, b, m, n
<1>7. d + b <= n
  <2>1. CASE AddTask
    BY <1>1, <1>2, <1>4, <1>5, <2>1
  <2>2. CASE ~ AddTask
    BY <1>1, <1>2, <1>3, <1>4, <1>6, <2>2
  <2> QED BY <2>1, <2>2
<1> QED BY <1>7 DEF d, b, n

\* When nothing is in flight no task runs.
LEMMA NothingRuns ==
  ASSUME TypeInv, CountInv, InflightIsEmpty, NEW i \in DOMAIN tasks
  PROVE  ~ Runs(i)
<1> SUFFICES ASSUME Runs(i) PROVE FALSE
  OBVIOUS
<1> DEFINE seq == SequenceOf(tasks[i].input)
<1>0. tasks[i] \in Tasks
  BY ElementOfSeq DEF TypeInv
<1>1. seq \in Sequences0
  BY <1>0, SequenceType DEF Tasks
<1>2. i \in Inflight(seq)
  BY DEF Inflight, Counted, Runs
<1> HIDE DEF seq
<1>3. Cardinality(Inflight(seq)) + Adding(seq) <= 0
  BY <1>1 DEF CountInv, InflightIsEmpty
<1>4. Adding(seq) \in {0, 1} /\ Cardinality(Inflight(seq)) \in Nat /\ IsFiniteSet(Inflight(seq))
  BY <1>1, AddingType, InflightType
<1>5. Cardinality(Inflight(seq)) = 0
  BY <1>3, <1>4
<1> QED BY <1>2, <1>4, <1>5, FS_EmptySet

\* A session that begins with tasks left over in the pipelines is known to.
LEMMA LateStays ==
  ASSUME TypeInv, [Next]_vars, ~ cam.late'
  PROVE  IF start THEN \A i \in DOMAIN tasks : tasks[i].stage = "dropped" ELSE ~ cam.late
<1>0. cam \in Cameras
  BY DEF TypeInv
<1>1. CASE start
  <2> DEFINE b == \E t \in Range(tasks) : t.stage # "dropped"
  <2>1. cam'.late = b
    BY <1>0, <1>1 DEF start, Cameras
  <2>2. ~ b
    BY <2>1
  <2> QED BY <1>1, <2>2 DEF Range
<1>2. CASE ~ start
  <2>1. cam'.late = cam.late
    BY <1>0, <1>2, Groups, ZenonT(30) DEF Next, vars, ProcessThread, waitFreeBuffersInQueue, ThreadExits,
         handleRawReprocessing, SaveRaw, SavedRaw, AllBufDone, PopQueues, SkipInput, Dispatch,
         SwitchPipe,
         SwitchFails, CheckRunning, AddTask, DagThreads, TaskStep, CountOutput, onBufferDone,
         FrameDone,
         EraseInflight, FinishTask, ForgetTask, Environment, Stopping, NextRequest, QueueOutput,
         onFrameAvailable, LoseFrame, StopProducer, StopDag, StopThread, clearBufferQueues, Cameras
  <2> QED BY <1>2, <2>1
<1> QED BY <1>1, <1>2

\* An output that is counted for a dropped task is remembered until the next stop().
LEMMA StaleStays ==
  ASSUME TypeInv, [Next]_vars, ~ StopDag, ~ cam'.stale
  PROVE  ~ cam.stale
<1>0. cam \in Cameras /\ tasks \in Seq(Tasks)
  BY DEF TypeInv
<1>1. CASE \E i \in DOMAIN tasks : \E p \in Ports : CountOutput(i, p)
  <2>1. PICK i \in DOMAIN tasks : \E p \in Ports : CountOutput(i, p)
    BY <1>1
  <2>2. PICK k : cam' = [cam EXCEPT !.stale = @ \/ k # i]
    BY <2>1 DEF CountOutput
  <2> DEFINE b == cam.stale \/ k # i
  <2>3. cam' = [cam EXCEPT !.stale = b]
    BY <2>2
  <2>4. cam'.stale = b
    <3> HIDE DEF b
    <3> QED BY <1>0, <2>3 DEF Cameras
  <2> QED BY <2>4
<1>2. CASE ~ \E i \in DOMAIN tasks : \E p \in Ports : CountOutput(i, p)
  <2>1. cam'.stale = cam.stale
    BY <1>0, <1>2, Groups, ZenonT(30) DEF Next, vars, ProcessThread, waitFreeBuffersInQueue, ThreadExits,
         handleRawReprocessing, SaveRaw, SavedRaw, AllBufDone, PopQueues, SkipInput, Dispatch,
         SwitchPipe, SwitchFails, CheckRunning, AddTask, DagThreads, TaskStep, onBufferDone,
         FrameDone, EraseInflight, FinishTask, ForgetTask, Environment, Stopping, NextRequest,
         QueueOutput, onFrameAvailable, LoseFrame, start, StopProducer, StopThread,
         clearBufferQueues, Cameras
  <2> QED BY <2>1
<1> QED BY <1>1, <1>2

\* The steps after which the thread may add a task in the mode of the pipe.
LEMMA ModeMoves ==
  ASSUME ~ SwitchMayTimeOut, BaseInv, [Next]_vars, ~ start, InMode'
  PROVE  \/ InMode /\ mCurConfigMode' = mCurConfigMode
         \/ InMode /\ mCurConfigMode' = TuningModeOf[Seq0] /\ Dispatch
            /\ (mCurConfigMode' = mCurConfigMode \/ InflightIsEmpty)
         \/ InflightIsEmpty /\ ~ AddTask
<1> USE Groups
<1>0. TypeInv /\ th \in Threads
  BY DEF BaseInv, TypeInv
<1>p. /\ "loop" \in Points /\ "exited" \in Points /\ "saved" \in Points /\ "skip" \in Points
      /\ "dispatch" \in Points /\ "switch" \in Points /\ "add" \in Points /\ "queue" \in Points
  BY DEF Points
<1>1. CASE waitFreeBuffersInQueue
  BY <1>1 DEF waitFreeBuffersInQueue, InMode, ThAt
<1>2. CASE ThreadExits
  <2>1. th'.pc = "exited"
    BY <1>2, <1>p, IdleType DEF ThreadExits
  <2> QED BY <2>1 DEF InMode, ThAt
<1>3. CASE handleRawReprocessing \/ SaveRaw \/ SavedRaw \/ PopQueues
  BY <1>3 DEF handleRawReprocessing, SaveRaw, SavedRaw, PopQueues, InMode, ThAt
<1>4. CASE AllBufDone \/ SkipInput \/ AddTask
  BY <1>4 DEF AllBufDone, SkipInput, AddTask, InMode, ThAt
<1>5. CASE Dispatch
  <2>1. InMode /\ mCurConfigMode' = TuningModeOf[Seq0]
    BY <1>5 DEF Dispatch, InMode, ThAt
  <2>2. ~ MustDrain
    <3>1. ASSUME MustDrain PROVE FALSE
      <4>1. th'.pc = "switch"
        BY <1>0, <1>5, <1>p, <3>1, GotoType DEF Dispatch
      <4> QED BY <4>1 DEF InMode, ThAt
    <3> QED BY <3>1
  <2> QED BY <1>5, <2>1, <2>2 DEF MustDrain
<1>6. CASE SwitchPipe
  BY <1>6 DEF SwitchPipe, AddTask, ThAt
<1>7. CASE SwitchFails
  <2>1. ~ mThreadRunning' /\ th'.pc = "loop"
    BY <1>7, <1>p, IdleType DEF SwitchFails
  <2> QED BY <2>1 DEF InMode, ThAt
<1>8. CASE CheckRunning
  BY <1>8 DEF CheckRunning, InMode, ThAt
<1>9. CASE ~ ProcessThread
  <2>1. th' = th /\ mCurConfigMode' = mCurConfigMode /\ (mThreadRunning' = mThreadRunning \/ StopThread)
    BY <1>9, ZenonT(30) DEF Next, vars, DagThreads, TaskStep, CountOutput, onBufferDone, FrameDone,
         EraseInflight,
         FinishTask, ForgetTask, Environment, Stopping, NextRequest, QueueOutput, onFrameAvailable,
         LoseFrame, StopProducer, StopDag, StopThread, clearBufferQueues
  <2>2. StopThread => mThreadRunning' = FALSE
    BY DEF StopThread
  <2> QED BY <2>1, <2>2 DEF InMode, ThAt
<1> QED BY <1>1, <1>2, <1>3, <1>4, <1>5, <1>6, <1>7, <1>8, <1>9 DEF ProcessThread

\* Whatever runs runs in one mode, which is the mode of the pipe unless the thread waits
\* for it to drain.
LEMMA ModeStep ==
  ASSUME ~ SwitchMayTimeOut, BaseInv, CountInv, ModeInv, [Next]_vars
  PROVE  ModeInv'
<1>0. TypeInv /\ tasks \in Seq(Tasks)
  BY DEF BaseInv, TypeInv
<1> SUFFICES ASSUME ~ cam.late'
             PROVE  /\ \A i, j \in DOMAIN tasks' :
                         Runs(i)' /\ Runs(j)' => tasks'[i].mode = tasks'[j].mode
                    /\ InMode' => \A i \in DOMAIN tasks' : Runs(i)' => tasks'[i].mode = mCurConfigMode'
  BY DEF ModeInv
<1>1. CASE start
  <2>1. tasks' = tasks /\ \A i \in DOMAIN tasks : tasks[i].stage = "dropped"
    BY <1>0, <1>1, LateStays DEF start
  <2> QED BY <2>1 DEF Runs
<1>2. CASE ~ start /\ AddTask
  <2>1. /\ NewTask \in Tasks /\ NewTask.mode = mCurConfigMode /\ tasks' = Append(tasks, NewTask)
        /\ InMode /\ mCurConfigMode' = mCurConfigMode
    BY <1>0, <1>2, NewTaskType DEF AddTask, InMode, ThAt
  <2>2. \A j \in DOMAIN tasks' : (j \in DOMAIN tasks /\ tasks'[j] = tasks[j]) \/ tasks'[j] = NewTask
    BY <1>0, <2>1, AddType
  <2>3. ~ cam.late
    BY <1>0, <1>2, LateStays
  <2>4. \A i \in DOMAIN tasks' : Runs(i)' => tasks'[i].mode = mCurConfigMode
    BY <2>1, <2>2, <2>3 DEF ModeInv, Runs
  <2> QED BY <2>1, <2>4
<1>3. CASE ~ start /\ ~ AddTask
  <2>0. ~ cam.late
    BY <1>0, <1>3, LateStays
  <2>1. PICK o \in [DOMAIN tasks' -> DOMAIN tasks] : \A k \in DOMAIN tasks' : Same(o[k], k)
    BY <1>3, TaskMoves
  <2>2. \A k \in DOMAIN tasks' : /\ o[k] \in DOMAIN tasks /\ tasks'[k].mode = tasks[o[k]].mode
                                 /\ Runs(k)' => Runs(o[k])
    BY <2>1 DEF Same, Runs
  <2>3. ASSUME InMode', NEW i \in DOMAIN tasks', Runs(i)' PROVE tasks'[i].mode = mCurConfigMode'
    <3>1. ~ InflightIsEmpty
      BY <1>0, <2>2, <2>3, NothingRuns
    <3> QED BY <1>3, <2>0, <2>2, <2>3, <3>1, ModeMoves DEF ModeInv
  <2> QED BY <2>0, <2>2, <2>3 DEF ModeInv
<1> QED BY <1>1, <1>2, <1>3

\* The counters of what is in flight hold, whatever times out.
LEMMA CountInit ==
  ASSUME Init
  PROVE  CountInv /\ ModeInv
<1>1. /\ mSequencesInflight = [seq \in Sequences0 |-> 0] /\ th = IdleThread("exited") /\ tasks = <<>>
      /\ "exited" \in Points
  BY DEF Init, Points
<1>2. th.pc = "exited"
  BY <1>1, IdleType
<1>3. ASSUME NEW seq \in Sequences0
      PROVE  Cardinality(Inflight(seq)) + Adding(seq) <= mSequencesInflight[seq]
  <2>1. Inflight(seq) = {} /\ Adding(seq) = 0 /\ mSequencesInflight[seq] = 0
    BY <1>1, <1>2 DEF Inflight, Adding
  <2>2. Cardinality({}) = 0
    BY FS_EmptySet
  <2> QED BY <2>1, <2>2
<1> QED BY <1>1, <1>3 DEF CountInv, ModeInv

\* dispatchTask waits until nothing is in flight before it switches the pipe (PSysProcessor.cpp):
\* tasks of two tuning modes are never in the pipelines together, as long as no wait times
\* out.
THEOREM ModesStayApart ==
  ASSUME ~ SwitchMayTimeOut
  PROVE  Spec => []ModesDoNotMix
<1>1. Init => BaseInv /\ CountInv /\ ModeInv
  BY BaseInit, CountInit
<1>2. (BaseInv /\ CountInv /\ ModeInv) /\ [Next]_vars => (BaseInv /\ CountInv /\ ModeInv)'
  BY BaseStep, CountStep, ModeStep
<1>3. BaseInv /\ CountInv /\ ModeInv => ModesDoNotMix
  <2> SUFFICES ASSUME ModeInv, ~ cam.late, NEW t \in Range(tasks), NEW u \in Range(tasks),
                      t.stage = "run", u.stage = "run"
               PROVE  t.mode = u.mode
    BY DEF ModesDoNotMix
  <2>1. PICK i \in DOMAIN tasks : t = tasks[i]
    BY DEF Range
  <2>2. PICK j \in DOMAIN tasks : u = tasks[j]
    BY DEF Range
  <2> QED BY <2>1, <2>2 DEF ModeInv, Runs
<1> QED BY <1>1, <1>2, <1>3, PTL DEF Spec

-----------------------------------------------------------------------------
(* No raw frame is lost.                                                   *)

\* The settings of a buffer do not change: requests are only added.
LEMMA SettingStays ==
  ASSUME TypeInv, [Next]_vars, NEW buffers \in [Ports -> Nat], Known(buffers)
  PROVE  SettingIn(requests'.list, buffers) = SettingIn(requests.list, buffers)
<1>0. requests \in Requests
  BY DEF TypeInv
<1>1. CASE NextRequest
  <2>1. \A n \in DOMAIN requests.list : requests'.list[n] = requests.list[n]
    BY <1>1, NextRequestType
  <2>2. CASE ValidPorts(buffers) = {}
    BY <2>2 DEF SettingIn
  <2>3. CASE ValidPorts(buffers) # {}
    <3> DEFINE p == Min(ValidPorts(buffers))
    <3>1. ValidPorts(buffers) \in SUBSET Nat
      BY DEF ValidPorts, Ports
    <3>2. p \in ValidPorts(buffers)
      BY <2>3, <3>1, MinIn
    <3> HIDE DEF p
    <3>3. p \in Ports /\ buffers[p] # 0 /\ buffers[p] \in Nat /\ buffers[p] <= Len(requests.list)
      BY <3>2 DEF ValidPorts, Known
    <3>4. buffers[p] \in DOMAIN requests.list
      BY <1>0, <3>3 DEF Requests
    <3> QED BY <2>1, <2>3, <3>4 DEF SettingIn, p
  <2> QED BY <2>2, <2>3
<1>2. CASE QueueOutput
  BY <1>2, QueueOutputType
<1>3. CASE StopProducer
  <2>1. requests'.list = requests.list
    BY <1>0, <1>3 DEF StopProducer, Requests
  <2> QED BY <2>1
<1>4. CASE ~ (NextRequest \/ QueueOutput \/ StopProducer)
  <2>1. requests' = requests
    BY <1>4, Groups DEF Next, vars, ProcessThread, waitFreeBuffersInQueue, ThreadExits,
         handleRawReprocessing, SaveRaw, SavedRaw, AllBufDone, PopQueues, SkipInput, Dispatch,
         SwitchPipe,
         SwitchFails, CheckRunning, AddTask, DagThreads, TaskStep, CountOutput, onBufferDone,
         FrameDone,
         EraseInflight, FinishTask, ForgetTask, Environment, Stopping,
         onFrameAvailable, LoseFrame, start, StopDag, StopThread, clearBufferQueues
  <2> QED BY <2>1
<1> QED BY <1>1, <1>2, <1>3, <1>4

\* Whether a frame is held for the next request does not change when requests are added.
LEMMA HeldStays ==
  ASSUME BaseInv, [Next]_vars
  PROVE  /\ \A f : HeldIn(requests'.list, th.dst, f) = HeldIn(requests.list, th.dst, f)
         /\ \A i \in DOMAIN tasks : \A f : HeldIn(requests'.list, tasks[i].outputs, f)
                                           = HeldIn(requests.list, tasks[i].outputs, f)
<1>0. TypeInv /\ AllKnown /\ th.dst \in [Ports -> Nat] /\ tasks \in Seq(Tasks)
  BY DEF BaseInv, TypeInv, ControlInv, Threads
<1>1. SettingIn(requests'.list, th.dst) = SettingIn(requests.list, th.dst)
  BY <1>0, SettingStays DEF AllKnown
<1>2. ASSUME NEW i \in DOMAIN tasks
      PROVE  SettingIn(requests'.list, tasks[i].outputs) = SettingIn(requests.list, tasks[i].outputs)
  <2>1. tasks[i] \in Tasks
    BY <1>0, ElementOfSeq
  <2>2. tasks[i].outputs \in [Ports -> Nat] /\ Known(tasks[i].outputs)
    BY <1>0, <2>1 DEF Tasks, AllKnown
  <2> QED BY <1>0, <2>2, SettingStays
<1> QED BY <1>1, <1>2 DEF HeldIn

\* Of one session, only a frame itself has its sequence.
LEMMA HeldIsKept ==
  ASSUME TypeInv, FrameInv, NEW f \in Current, isBufferHoldForRawReprocess(f)
  PROVE  f \in mRawBufferMap
<1>1. PICK g \in mRawBufferMap : SequenceOf(g) = SequenceOf(f)
  BY DEF isBufferHoldForRawReprocess
<1>2. g \in Current
  BY DEF FrameInv
<1>3. cam.frames \in 0..MaxFrames /\ Base \in Int /\ MaxFrames \in Nat
  <2>1. \A x, y \in Nat : x * y \in Nat
    OBVIOUS
  <2> QED BY <2>1, Constants DEF TypeInv, Cameras, Base
<1>4. /\ f \in Int /\ g \in Int /\ f >= Base /\ g >= Base
      /\ f < Base + MaxFrames /\ g < Base + MaxFrames
  BY <1>2, <1>3 DEF Current
<1>5. f = g
  BY <1>1, <1>3, <1>4, SameSequence
<1> QED BY <1>5

\* The camera stays started until the next stop().
LEMMA StaysStarted ==
  ASSUME BaseInv, [Next]_vars, ~ start, cam'.state = "started"
  PROVE  /\ cam.state = "started" /\ mThreadRunning
         /\ ~ ThreadExits /\ ~ StopDag /\ ~ clearBufferQueues /\ ~ StopProducer /\ ~ StopThread
<1>0. cam \in Cameras /\ Lifecycle
  BY DEF BaseInv, TypeInv, ControlInv
<1>1. CASE StopProducer \/ StopDag \/ StopThread \/ clearBufferQueues
  BY <1>0, <1>1 DEF StopProducer, StopDag, StopThread, clearBufferQueues, Cameras
<1>2. CASE ~ (StopProducer \/ StopDag \/ StopThread \/ clearBufferQueues)
  <2>1. cam'.state = cam.state
    BY <1>0, <1>2, Groups, ZenonT(30) DEF Next, vars, ProcessThread, waitFreeBuffersInQueue, ThreadExits,
         handleRawReprocessing, SaveRaw, SavedRaw, AllBufDone, PopQueues, SkipInput, Dispatch,
         SwitchPipe,
         SwitchFails, CheckRunning, AddTask, DagThreads, TaskStep, CountOutput, onBufferDone,
         FrameDone,
         EraseInflight, FinishTask, ForgetTask, Environment, Stopping, NextRequest, QueueOutput,
         onFrameAvailable, LoseFrame, Cameras
  <2>2. ~ ThreadExits
    BY <1>0, <2>1 DEF Lifecycle, ThreadExits
  <2> QED BY <1>0, <1>2, <2>1, <2>2 DEF Lifecycle
<1> QED BY <1>1, <1>2

\* A kept frame that is kept no longer is back with the producer.
LEMMA KeptMoves ==
  ASSUME BaseInv, [Next]_vars, ~ start, NEW f \in mRawBufferMap
  PROVE  f \in mRawBufferMap' \/ f \notin captured'
<1>0. RawType
  BY DEF BaseInv, TypeInv
<1>1. CASE SavedRaw \/ \E i \in DOMAIN tasks : FinishTask(i)
  <2>1. ReturnRaw
    BY <1>1 DEF SavedRaw, FinishTask
  <2> QED BY <1>0, <2>1, ReturnType
<1>2. CASE ~ (SavedRaw \/ \E i \in DOMAIN tasks : FinishTask(i))
  <2>1. mRawBufferMap \subseteq mRawBufferMap'
    BY <1>2, Groups DEF Next, vars, ProcessThread, waitFreeBuffersInQueue, ThreadExits,
         handleRawReprocessing, SaveRaw, AllBufDone, PopQueues, SkipInput, Dispatch, SwitchPipe,
         SwitchFails, CheckRunning, AddTask, DagThreads, TaskStep, CountOutput, onBufferDone,
         FrameDone,
         EraseInflight, ForgetTask, Environment, Stopping, NextRequest, QueueOutput,
         onFrameAvailable, LoseFrame, StopProducer, StopDag, StopThread, clearBufferQueues
  <2> QED BY <2>1
<1> QED BY <1>1, <1>2

\* A task stays until onFrameDone has dealt with its frame.
LEMMA TaskStays ==
  ASSUME BaseInv, [Next]_vars, ~ StopDag, NEW i \in DOMAIN tasks, tasks[i].stage \in {"run", "inputs"}
  PROVE  \/ FrameDone(i)
         \/ \E j \in DOMAIN tasks' :
              /\ tasks'[j].input = tasks[i].input /\ tasks'[j].outputs = tasks[i].outputs
              /\ tasks'[j].stage \in {"run", "inputs"}
<1>0. tasks \in Seq(Tasks)
  BY DEF BaseInv, TypeInv
<1>1. CASE AddTask
  <2>1. NewTask \in Tasks
    BY <1>1, NewTaskType DEF AddTask, BaseInv
  <2> QED BY <1>0, <1>1, <2>1, AddType DEF AddTask
<1>2. ASSUME NEW k \in DOMAIN tasks, TaskStep(k), ~ FrameDone(i)
      PROVE  \E j \in DOMAIN tasks' :
               /\ tasks'[j].input = tasks[i].input /\ tasks'[j].outputs = tasks[i].outputs
               /\ tasks'[j].stage \in {"run", "inputs"}
  <2>1. CASE \E p \in Ports : CountOutput(k, p)
    BY <1>0, <2>1, CountType
  <2>2. CASE \E p \in Ports : onBufferDone(k, p)
    <3>1. PICK p \in Ports : onBufferDone(k, p)
      BY <2>2
    <3>2. i \in DOMAIN tasks' /\ tasks'[i].input = tasks[i].input /\ tasks'[i].outputs = tasks[i].outputs
      BY <1>0, <3>1, DoneType
    <3>3. tasks'[i].stage \in {"run", "inputs"}
      BY <1>0, <3>1, DoneType
    <3> QED BY <3>2, <3>3
  <2>3. CASE FrameDone(k) \/ EraseInflight(k) \/ FinishTask(k)
    <3>1. k # i /\ \E s \in Stages : SetStage(k, s)
      BY <1>2, <2>3 DEF FrameDone, EraseInflight, FinishTask, Stages
    <3> QED BY <1>0, <3>1, StageType
  <2>4. CASE ForgetTask(k)
    <3>1. k # i
      BY <2>4 DEF ForgetTask
    <3>2. PICK j \in DOMAIN tasks' : i = Before(k, j)
      BY <1>0, <2>4, <3>1, ForgetType
    <3>3. tasks'[j] = tasks[i]
      BY <1>0, <2>4, <3>2, ForgetType
    <3> QED BY <3>3
  <2> QED BY <1>2, <2>1, <2>2, <2>3, <2>4 DEF TaskStep
<1>3. CASE ~ (AddTask \/ DagThreads)
  <2>1. tasks' = tasks
    BY <1>3 DEF Next, vars, ProcessThread, waitFreeBuffersInQueue, ThreadExits,
         handleRawReprocessing,
         SaveRaw, SavedRaw, AllBufDone, PopQueues, SkipInput, Dispatch, SwitchPipe, SwitchFails,
         CheckRunning, Environment, Stopping, NextRequest, QueueOutput, onFrameAvailable,
         LoseFrame, start, StopProducer, StopThread, clearBufferQueues
  <2> QED BY <2>1
<1> QED BY <1>1, <1>2, <1>3 DEF DagThreads

\* The thread gives its frame to a task, or back.
LEMMA OwnerMoves ==
  ASSUME ~ SwitchMayTimeOut, BaseInv, [Next]_vars, ~ start, cam'.state = "started", ThreadOwns
  PROVE  \/ ThreadOwns' /\ th'.src = th.src
         \/ SkipInput
         \/ AddTask /\ \E j \in DOMAIN tasks' : Owns(j)' /\ tasks'[j].input = th.src
<1>0. /\ TypeInv /\ th \in Threads /\ tasks \in Seq(Tasks) /\ mThreadRunning
      /\ th.pc \in {"skip", "dispatch", "switch", "add", "queue"} /\ ~ th.hasRawInput
      /\ ~ HeldIn(requests'.list, th.dst, th.src)
  BY StaysStarted, HeldStays DEF BaseInv, TypeInv, ThreadOwns, HeldFor
<1>same. ASSUME th'.pc \in {"skip", "dispatch", "switch", "add", "queue"}, th'.src = th.src,
                th'.dst = th.dst, th'.hasRawInput = th.hasRawInput
         PROVE  ThreadOwns' /\ th'.src = th.src
  BY <1>0, <1>same DEF ThreadOwns, HeldFor
<1>1. CASE Dispatch \/ SwitchPipe
  <2>1. \E point \in {"switch", "add"} : Goto(point)
    BY <1>1 DEF Dispatch, SwitchPipe
  <2> QED BY <1>0, <1>same, <2>1, GotoType DEF Points
<1>2. CASE CheckRunning
  <2>1. Goto("queue")
    BY <1>0, <1>2 DEF CheckRunning, Goto
  <2> QED BY <1>0, <1>same, <2>1, GotoType DEF Points
<1>3. CASE AddTask
  <2>1. /\ NewTask \in Tasks /\ NewTask.input = th.src /\ NewTask.outputs = th.dst
        /\ NewTask.stage = "run" /\ tasks' = Append(tasks, NewTask)
    BY <1>0, <1>3, NewTaskType DEF AddTask
  <2>2. PICK j \in DOMAIN tasks' : tasks'[j] = NewTask
    BY <1>0, <2>1, AddType
  <2>3. Owns(j)'
    BY <1>0, <2>1, <2>2 DEF Owns, HeldFor
  <2> QED BY <1>3, <2>1, <2>2, <2>3
<1>4. CASE ~ ProcessThread
  <2>1. th' = th
    BY <1>4, ZenonT(30) DEF Next, vars, DagThreads, TaskStep, CountOutput, onBufferDone, FrameDone,
         EraseInflight,
         FinishTask, ForgetTask, Environment, Stopping, NextRequest, QueueOutput, onFrameAvailable,
         LoseFrame, StopProducer, StopDag, StopThread, clearBufferQueues
  <2> QED BY <1>0, <1>same, <2>1
<1>5. CASE ProcessThread /\ ~ (Dispatch \/ SwitchPipe \/ CheckRunning \/ AddTask)
  <2>1. SkipInput
    BY <1>0, <1>5 DEF ProcessThread, waitFreeBuffersInQueue, ThreadExits, handleRawReprocessing,
         SaveRaw, SavedRaw, AllBufDone, PopQueues, SwitchFails, ThAt
  <2> QED BY <2>1
<1> QED BY <1>1, <1>2, <1>3, <1>4, <1>5

\* The front of the queue goes to the thread, or is kept.
LEMMA FrontMoves ==
  ASSUME BaseInv, KeptInv, [Next]_vars, cam.state = "started", mInputQueue # <<>>,
         AllBufDone \/ PopQueues, mInputQueue' # mInputQueue,
         NEW f \in captured', f = Head(mInputQueue)
  PROVE  Place(f)'
<1> USE Groups
<1>0. TypeInv /\ Fronts /\ RawControl /\ th \in Threads
  BY DEF BaseInv, TypeInv, ControlInv
<1>1. CASE AllBufDone
  <2>1. th.src = Head(mInputQueue) /\ th.pc = "allDone"
    BY <1>0, <1>1 DEF AllBufDone, ThAt, Fronts, RawControl, Taking
  <2>2. captured' = captured /\ mRawBufferMap' = mRawBufferMap
    BY <1>1 DEF AllBufDone
  <2>3. f \in mRawBufferMap'
    BY <2>1, <2>2 DEF KeptInv
  <2> QED BY <2>3 DEF Place
<1>2. CASE PopQueues
  <2>1. PopsInput
    BY <1>2 DEF PopQueues
  <2>2. th.src = Head(mInputQueue) /\ ~ th.hasRawInput
    BY <1>0, <1>2, <2>1 DEF PopQueues, PopsInput, ThAt, Fronts, Taking
  <2>3. ~ HeldIn(requests.list, th.dst, th.src)
    BY <2>1 DEF PopsInput, needHoldOnInputFrame, HeldIn, SettingIn, Setting, getSettingSequence,
         Seq0
  <2>4. \E point \in {"dispatch", "skip"} : Goto(point)
    BY <1>2 DEF PopQueues
  <2>5. /\ th'.pc \in {"dispatch", "skip"} /\ th'.src = th.src /\ th'.dst = th.dst
        /\ th'.hasRawInput = th.hasRawInput
    BY <1>0, <2>4, GotoType DEF Points
  <2>6. requests' = requests
    BY <1>2 DEF PopQueues
  <2>7. ThreadOwns'
    BY <2>2, <2>3, <2>5, <2>6 DEF ThreadOwns, HeldFor
  <2> QED BY <2>2, <2>5, <2>7 DEF Place
<1> QED BY <1>1, <1>2

\* A frame goes back, or stays because it is kept.
LEMMA BackOrKept ==
  ASSUME BaseInv, FrameInv, NEW f \in Current, GiveBackUnlessHeld(f), f \in captured',
         mRawBufferMap' = mRawBufferMap
  PROVE  f \in mRawBufferMap'
<1>0. TypeInv /\ RawType /\ f \in Int
  BY DEF BaseInv, TypeInv, Current
<1>1. isBufferHoldForRawReprocess(f)
  BY <1>0, UnlessHeldType
<1> QED BY <1>0, <1>1, HeldIsKept

\* Every raw frame that is out stays in one of its four places.
LEMMA PlaceStep ==
  ASSUME ~ SwitchMayTimeOut, BaseInv, FrameInv, KeptInv, [Next]_vars, ~ start, cam'.state = "started",
         NEW f \in captured'
  PROVE  Place(f)'
<1>0. /\ TypeInv /\ cam.state = "started" /\ mInputQueue \in Seq(Nat) /\ tasks \in Seq(Tasks)
      /\ ~ StopDag /\ ~ clearBufferQueues
  BY StaysStarted DEF BaseInv, TypeInv, QueueType
<1>1. CASE f \notin captured
  <2>1. onFrameAvailable /\ f = Frame(cam.session, cam.frames)
    BY <1>1, RawMoves
  <2>2. mInputQueue' = Append(mInputQueue, f) /\ f \in Nat
    BY <1>0, <2>1, FrameType, Constants DEF onFrameAvailable, TypeInv, Cameras
  <2>3. \E n \in DOMAIN mInputQueue' : f = mInputQueue'[n]
    BY <1>0, <2>2, AppendPlaces
  <2> QED BY <2>3 DEF Place
<1>2. ASSUME NEW n \in DOMAIN mInputQueue, f = mInputQueue[n]
      PROVE  Place(f)'
  <2>1. CASE \E m \in DOMAIN mInputQueue' : f = mInputQueue'[m]
    BY <2>1 DEF Place
  <2>2. CASE ~ \E m \in DOMAIN mInputQueue' : f = mInputQueue'[m]
    <3>1. /\ mInputQueue' # mInputQueue /\ (AllBufDone \/ PopQueues) /\ mInputQueue # <<>>
          /\ f = Head(mInputQueue)
      BY <1>0, <1>2, <2>2, InputMoves
    <3> QED BY <1>0, <3>1, FrontMoves
  <2> QED BY <2>1, <2>2
<1>3. CASE f \in mRawBufferMap
  BY <1>3, KeptMoves DEF Place
<1>4. CASE ThreadOwns /\ f = th.src
  <2>1. CASE SkipInput
    <3>1. GiveBackUnlessHeld(f) /\ mRawBufferMap' = mRawBufferMap /\ f \in Current
      BY <1>4, <2>1 DEF SkipInput, FrameInv, HasFrame, ThreadOwns
    <3> QED BY <3>1, BackOrKept DEF Place
  <2>2. CASE ~ SkipInput
    BY <1>4, <2>2, OwnerMoves DEF Place
  <2> QED BY <2>1, <2>2
<1>5. ASSUME NEW i \in DOMAIN tasks, Owns(i), f = tasks[i].input, f \in captured
      PROVE  Place(f)'
  <2>1. CASE FrameDone(i)
    <3>1. ~ needHoldOnInputFrame(getSettingSequence(tasks[i].outputs), SequenceOf(tasks[i].input))
      BY <1>5 DEF Owns, HeldFor, HeldIn, SettingIn, needHoldOnInputFrame, getSettingSequence
    <3>2. GiveBackUnlessHeld(f) /\ mRawBufferMap' = mRawBufferMap /\ f \in Current
      BY <1>5, <2>1, <3>1 DEF FrameDone, FrameInv
    <3> QED BY <3>2, BackOrKept DEF Place
  <2>2. CASE ~ FrameDone(i)
    <3>1. PICK j \in DOMAIN tasks' :
            /\ tasks'[j].input = tasks[i].input /\ tasks'[j].outputs = tasks[i].outputs
            /\ tasks'[j].stage \in {"run", "inputs"}
      BY <1>0, <1>5, <2>2, TaskStays DEF Owns
    <3>2. ~ HeldIn(requests'.list, tasks'[j].outputs, tasks'[j].input)
      BY <1>5, <3>1, HeldStays DEF Owns, HeldFor
    <3>3. Owns(j)'
      BY <3>1, <3>2 DEF Owns, HeldFor
    <3> QED BY <1>5, <3>1, <3>3 DEF Place
  <2> QED BY <2>1, <2>2
<1>6. CASE f \in captured
  <2>1. Place(f)
    BY <1>0, <1>6 DEF KeptInv
  <2> QED BY <1>2, <1>3, <1>4, <1>5, <1>6, <2>1 DEF Place
<1> QED BY <1>1, <1>6

\* The frame that is saved stays kept until its output is through.
LEMMA SavedStep ==
  ASSUME BaseInv, FrameInv, KeptInv, [Next]_vars, ~ start, cam'.state = "started",
         th'.pc \in {"saved", "allDone"}
  PROVE  th'.src \in mRawBufferMap' \/ th'.src \notin captured'
<1>0. TypeInv /\ th \in Threads /\ cam.state = "started" /\ RawType
  BY StaysStarted DEF BaseInv, TypeInv
<1>1. CASE SaveRaw
  <2>1. th'.src = th.src /\ mRawBufferMap' = mRawBufferMap \cup {th.src}
    BY <1>0, <1>1, GotoType DEF SaveRaw, Points
  <2> QED BY <2>1
<1>2. CASE ~ SaveRaw
  <2>1. th'.src = th.src /\ th.pc \in {"saved", "allDone"}
    <3>1. CASE SavedRaw
      BY <1>0, <3>1, SavedType DEF ThAt
    <3>2. CASE waitFreeBuffersInQueue \/ handleRawReprocessing
      BY <1>0, <3>2, WaitType, RawStepType
    <3>3. CASE ThreadExits \/ AllBufDone \/ SkipInput \/ SwitchFails \/ AddTask
      <4>1. \E point \in {"loop", "exited"} : th' = IdleThread(point) /\ point \in Points
        BY <3>3 DEF ThreadExits, AllBufDone, SkipInput, SwitchFails, AddTask, Points
      <4> QED BY <4>1, IdleType
    <3>4. CASE PopQueues \/ Dispatch \/ SwitchPipe
      <4>1. \E point \in {"dispatch", "skip", "switch", "add"} : Goto(point) /\ point \in Points
        BY <3>4 DEF PopQueues, Dispatch, SwitchPipe, Points
      <4> QED BY <1>0, <4>1, GotoType
    <3>5. CASE CheckRunning
      <4>1. th'.pc \in {"queue", "loop"}
        BY <1>0, <3>5, IdleType, GotoType DEF CheckRunning, Goto, Points
      <4> QED BY <4>1
    <3>6. CASE ~ ProcessThread
      <4>1. th' = th
        BY <1>2, <3>6 DEF Next, vars, DagThreads, TaskStep, CountOutput, onBufferDone, FrameDone,
             EraseInflight, FinishTask, ForgetTask, Environment, Stopping, NextRequest, QueueOutput,
             onFrameAvailable, LoseFrame, StopProducer, StopDag, StopThread, clearBufferQueues
      <4> QED BY <4>1
    <3> QED BY <1>2, <3>1, <3>2, <3>3, <3>4, <3>5, <3>6 DEF ProcessThread
  <2>2. th.src \in mRawBufferMap \/ th.src \notin captured
    BY <1>0, <2>1 DEF KeptInv
  <2>3. CASE th.src \in mRawBufferMap
    BY <2>1, <2>3, KeptMoves
  <2>4. CASE th.src \notin captured
    <3>1. th.src \in Current
      BY <2>1 DEF FrameInv, HasFrame
    <3>2. th.src # Frame(cam.session, cam.frames)
      <4>1. Base \in Nat /\ cam.frames \in Nat
        BY <1>0, CurrentGrows, Constants DEF TypeInv, Cameras
      <4>2. Frame(cam.session, cam.frames) = Base + cam.frames
        BY DEF Frame, Base
      <4> QED BY <3>1, <4>1, <4>2 DEF Current
    <3>3. th.src \notin captured'
      BY <2>4, <3>2, RawMoves
    <3> QED BY <2>1, <3>3
  <2> QED BY <2>2, <2>3, <2>4
<1> QED BY <1>1, <1>2

\* The raw frames stay where they can be found, in every step.
LEMMA KeptStep ==
  ASSUME ~ SwitchMayTimeOut, BaseInv, FrameInv, KeptInv, [Next]_vars
  PROVE  KeptInv'
<1>1. CASE start
  <2>1. captured' = {}
    BY <1>1 DEF start
  <2> QED BY <2>1 DEF KeptInv
<1>2. CASE ~ start
  BY <1>2, PlaceStep, SavedStep DEF KeptInv
<1> QED BY <1>1, <1>2

\* No raw frame is lost (PSysProcessor.cpp, prepareTask, onFrameDone and returnRawBuffer): the
\* frames the producer gave away wait, are in the thread's hands, in a task or kept, as long
\* as no wait for the pipe times out.
THEOREM FramesAreAccounted ==
  ASSUME ~ SwitchMayTimeOut
  PROVE  Spec => []RawAccounted
<1>1. Init => BaseInv /\ FrameInv /\ KeptInv
  <2>1. Init => KeptInv
    BY DEF Init, KeptInv
  <2> QED BY <2>1, BaseInit, FrameInit
<1>2. (BaseInv /\ FrameInv /\ KeptInv) /\ [Next]_vars => (BaseInv /\ FrameInv /\ KeptInv)'
  BY BaseStep, FrameStep, KeptStep
<1>3. BaseInv /\ FrameInv /\ KeptInv => RawAccounted
  <2> SUFFICES ASSUME KeptInv, cam.state = "started", NEW f \in captured
               PROVE  f \in Range(mInputQueue) \cup {th.src} \cup mRawBufferMap
                              \cup {t.input : t \in Range(tasks)}
    BY DEF RawAccounted
  <2>1. Place(f)
    BY DEF KeptInv
  <2>2. ASSUME NEW i \in DOMAIN tasks, f = tasks[i].input PROVE f \in {t.input : t \in Range(tasks)}
    BY <2>2 DEF Range
  <2> QED BY <2>1, <2>2 DEF Place, Range
<1> QED BY <1>1, <1>2, <1>3, PTL DEF Spec

-----------------------------------------------------------------------------
(* Without an opaque raw stream a raw frame goes back once.                *)

\* A task that owns its frame owned it before, and has not given it back.
LEMMA OwnsMoves ==
  ASSUME BaseInv, NoneCounted, [Next]_vars, ~ AddTask
  PROVE  \E o \in [DOMAIN tasks' -> DOMAIN tasks] :
           /\ \A k \in DOMAIN tasks' : Owns(k)' =>
                Owns(o[k]) /\ tasks'[k].input = tasks[o[k]].input /\ ~ FrameDone(o[k])
           /\ \A j, k \in DOMAIN tasks' : j # k => o[j] # o[k]
<1>0. tasks \in Seq(Tasks) /\ tasks' \in Seq(Tasks)
  BY BaseStep DEF BaseInv, TypeInv
<1>same. ASSUME NEW k \in DOMAIN tasks', NEW j \in DOMAIN tasks, Same(j, k), Owns(k)'
         PROVE  Owns(j) /\ tasks'[k].input = tasks[j].input
  <2>1. ~ HeldIn(requests'.list, tasks'[k].outputs, tasks'[k].input) /\ tasks'[k].stage \in {"run", "inputs"}
    BY <1>same DEF Owns, HeldFor
  <2>2. /\ tasks'[k].outputs = tasks[j].outputs /\ tasks'[k].input = tasks[j].input
        /\ tasks[j].stage \in {"run", "inputs"}
    BY <1>same, <2>1 DEF Same, NoneCounted
  <2>3. ~ HeldIn(requests.list, tasks[j].outputs, tasks[j].input)
    BY <2>1, <2>2, HeldStays
  <2> QED BY <2>2, <2>3 DEF Owns, HeldFor
<1>1. CASE \E i \in DOMAIN tasks : FrameDone(i)
  <2>1. PICK i \in DOMAIN tasks : FrameDone(i)
    BY <1>1
  <2> DEFINE o == [k \in DOMAIN tasks' |-> k]
  <2>2. DOMAIN tasks' = DOMAIN tasks /\ \A k \in DOMAIN tasks : Same(k, k)
    BY <1>0, <2>1, StageSame
  <2>3. o \in [DOMAIN tasks' -> DOMAIN tasks] /\ \A k \in DOMAIN tasks' : o[k] = k
    BY <2>2
  <2> HIDE DEF o
  <2>4. ASSUME NEW k \in DOMAIN tasks', Owns(k)' PROVE ~ FrameDone(k)
    <3>1. SUFFICES ASSUME FrameDone(k) PROVE FALSE
      OBVIOUS
    <3>2. SetStage(k, "erase") /\ "erase" \in Stages
      BY <3>1 DEF FrameDone, Stages
    <3>3. tasks'[k].stage = "erase"
      BY <1>0, <2>2, <3>2, StageType
    <3> QED BY <2>4, <3>3 DEF Owns
  <2> QED BY <1>same, <2>2, <2>3, <2>4
<1>2. CASE ~ \E i \in DOMAIN tasks : FrameDone(i)
  <2>1. PICK o \in [DOMAIN tasks' -> DOMAIN tasks] :
          /\ \A k \in DOMAIN tasks' : Same(o[k], k)
          /\ \A j, k \in DOMAIN tasks' : j < k => o[j] < o[k]
    BY TaskMoves
  <2>2. \A k \in DOMAIN tasks' : o[k] \in DOMAIN tasks
    BY <2>1
  <2>3. ASSUME NEW j \in DOMAIN tasks', NEW k \in DOMAIN tasks', j # k
        PROVE  o[j] # o[k]
    <3>1. j \in Nat /\ k \in Nat /\ o[j] \in Nat /\ o[k] \in Nat
      BY <1>0, <2>2
    <3>2. CASE j < k
      BY <2>1, <3>1, <3>2
    <3>3. CASE k < j
      BY <2>1, <3>1, <3>3
    <3> QED BY <2>3, <3>1, <3>2, <3>3
  <2> QED BY <1>2, <1>same, <2>1, <2>2, <2>3
<1> QED BY <1>1, <1>2

\* The thread owns the frame that it takes off the queue.
LEMMA ThreadOwnsMoves ==
  ASSUME BaseInv, [Next]_vars, ThreadOwns'
  PROVE  /\ th'.src = th.src /\ ~ AddTask
         /\ \/ ThreadOwns /\ ~ PopQueues /\ ~ SkipInput
            \/ PopQueues /\ PopsInput
<1>0. /\ TypeInv /\ th \in Threads
      /\ th'.pc \in {"skip", "dispatch", "switch", "add", "queue"} /\ ~ th'.hasRawInput
      /\ ~ HeldIn(requests'.list, th'.dst, th'.src)
  BY DEF BaseInv, TypeInv, ThreadOwns, HeldFor
<1>same. ASSUME th.pc \in {"skip", "dispatch", "switch", "add", "queue"}, th'.src = th.src,
                th'.dst = th.dst, th'.hasRawInput = th.hasRawInput
         PROVE  ThreadOwns
  BY <1>0, <1>same, HeldStays DEF ThreadOwns, HeldFor
<1>1. CASE Dispatch \/ SwitchPipe
  <2>1. \E point \in {"switch", "add"} : Goto(point) /\ th.pc \in {"dispatch", "switch"}
    BY <1>1 DEF Dispatch, SwitchPipe, ThAt
  <2>2. th'.src = th.src /\ th'.dst = th.dst /\ th'.hasRawInput = th.hasRawInput
    BY <1>0, <2>1, GotoType DEF Points
  <2> QED BY <1>same, <2>1, <2>2 DEF AddTask, PopQueues, SkipInput, ThAt
<1>2. CASE CheckRunning
  <2>1. mThreadRunning
    <3>1. ASSUME ~ mThreadRunning PROVE FALSE
      BY <1>0, <1>2, <3>1, IdleType DEF CheckRunning, Points
    <3> QED BY <3>1
  <2>2. Goto("queue") /\ th.pc = "add"
    BY <1>2, <2>1 DEF CheckRunning, Goto, ThAt
  <2>3. th'.src = th.src /\ th'.dst = th.dst /\ th'.hasRawInput = th.hasRawInput
    BY <1>0, <2>2, GotoType DEF Points
  <2> QED BY <1>same, <2>2, <2>3 DEF AddTask, PopQueues, SkipInput, ThAt
<1>3. CASE PopQueues
  <2>1. \E point \in {"dispatch", "skip"} : Goto(point)
    BY <1>3 DEF PopQueues
  <2>2. /\ th'.src = th.src /\ th'.dst = th.dst /\ th'.hasRawInput = th.hasRawInput /\ th.pc = "pop"
        /\ requests' = requests
    BY <1>0, <1>3, <2>1, GotoType, Groups DEF Points, PopQueues, ThAt
  <2>3. PopsInput
    BY <1>0, <2>2 DEF PopsInput, needHoldOnInputFrame, HeldIn, SettingIn, Setting,
         getSettingSequence, Seq0
  <2> QED BY <1>3, <2>2, <2>3 DEF AddTask, ThAt
<1>4. CASE ThreadExits \/ AllBufDone \/ SkipInput \/ SwitchFails \/ AddTask \/ start
  <2>1. \E point \in {"loop", "exited"} : th' = IdleThread(point) /\ point \in Points
    BY <1>4 DEF ThreadExits, AllBufDone, SkipInput, SwitchFails, AddTask, start, Points
  <2> QED BY <1>0, <2>1, IdleType
<1>5. CASE waitFreeBuffersInQueue \/ handleRawReprocessing \/ SavedRaw
  BY <1>0, <1>5, WaitType, RawStepType, SavedType
<1>6. CASE SaveRaw
  BY <1>0, <1>6, GotoType DEF SaveRaw, Points
<1>7. CASE ~ (ProcessThread \/ start)
  <2>1. th' = th
    BY <1>7, ZenonT(30) DEF Next, vars, DagThreads, TaskStep, CountOutput, onBufferDone, FrameDone,
         EraseInflight,
         FinishTask, ForgetTask, Environment, Stopping, NextRequest, QueueOutput, onFrameAvailable,
         LoseFrame, StopProducer, StopDag, StopThread, clearBufferQueues
  <2> QED BY <1>0, <1>7, <1>same, <2>1 DEF ProcessThread
<1> QED BY <1>1, <1>2, <1>3, <1>4, <1>5, <1>6, <1>7 DEF ProcessThread

\* The setting of the thread's outputs is a number.
LEMMA SettingType ==
  ASSUME BaseInv
  PROVE  Setting \in Int
<1>0. requests \in Requests /\ th.dst \in [Ports -> Nat] /\ Known(th.dst)
  BY DEF BaseInv, TypeInv, ControlInv, AllKnown, Threads
<1>1. CASE ValidPorts(th.dst) = {}
  BY <1>1 DEF Setting, getSettingSequence
<1>2. CASE ValidPorts(th.dst) # {}
  <2> DEFINE p == Min(ValidPorts(th.dst))
  <2>1. ValidPorts(th.dst) \in SUBSET Nat
    BY DEF ValidPorts, Ports
  <2>2. p \in ValidPorts(th.dst)
    BY <1>2, <2>1, MinIn
  <2>3. Setting = requests.list[th.dst[p]].setting
    BY <1>2 DEF Setting, getSettingSequence
  <2> HIDE DEF p
  <2>4. th.dst[p] \in 1..Len(requests.list)
    BY <1>0, <2>2 DEF ValidPorts, Known, Requests
  <2>5. requests.list \in Seq([ports : SUBSET Ports, setting : Sequences0])
    BY <1>0 DEF Requests
  <2>6. requests.list[th.dst[p]] \in [ports : SUBSET Ports, setting : Sequences0]
    BY <2>4, <2>5, ElementOfSeq
  <2> QED BY <2>3, <2>6 DEF Sequences0
<1> QED BY <1>1, <1>2

\* An input that is too old is nobody's but the thread's.
LEMMA SkipOwns ==
  ASSUME BaseInv, [Next]_vars, ThAt("skip")', mOpaqueRawPort = 0, ThAt("skip") => ThreadOwns
  PROVE  ThreadOwns'
<1>0. /\ TypeInv /\ th \in Threads /\ th'.pc = "skip"
  BY DEF BaseInv, TypeInv, ThAt
<1>1. CASE PopQueues
  <2>1. ~ needExecutePipe(Setting, Seq0)
    <3>1. ASSUME needExecutePipe(Setting, Seq0) PROVE FALSE
      BY <1>0, <1>1, <3>1, GotoType DEF PopQueues, Points
    <3> QED BY <3>1
  <2>2. Goto("skip") /\ requests' = requests
    BY <1>1, <2>1, Groups DEF PopQueues
  <2>3. th'.src = th.src /\ th'.dst = th.dst /\ th'.hasRawInput = th.hasRawInput
    BY <1>0, <2>2, GotoType DEF Points
  <2>4. ~ th.hasRawInput
    BY DEF BaseInv, ControlInv, RawControl
  <2>5. ~ HeldIn(requests.list, th.dst, th.src)
    <3>1. Setting # -1 /\ ~ (Seq0 >= Setting)
      BY <2>1 DEF needExecutePipe
    <3>2. SettingIn(requests.list, th.dst) = Setting
      BY DEF SettingIn, Setting, getSettingSequence
    <3>3. Seq0 \in Int /\ Setting \in Int
      <4>1. Seq0 \in Int
        BY <1>0, SequenceType DEF Seq0, Threads, Sequences0
      <4>2. Setting \in Int
        BY SettingType
      <4> QED BY <4>1, <4>2
    <3>4. ~ (Seq0 > Setting)
      BY <3>1, <3>3
    <3> QED BY <3>2, <3>4 DEF HeldIn, Seq0
  <2> QED BY <1>0, <2>2, <2>3, <2>4, <2>5 DEF ThreadOwns, HeldFor
<1>2. CASE Dispatch \/ SwitchPipe
  <2>1. \E point \in {"switch", "add"} : Goto(point) /\ point \in Points
    BY <1>2 DEF Dispatch, SwitchPipe, Points
  <2> QED BY <1>0, <2>1, GotoType
<1>3. CASE CheckRunning
  BY <1>0, <1>3, IdleType, GotoType DEF CheckRunning, Goto, Points
<1>4. CASE ThreadExits \/ AllBufDone \/ SkipInput \/ SwitchFails \/ AddTask \/ start
  <2>1. \E point \in {"loop", "exited"} : th' = IdleThread(point) /\ point \in Points
    BY <1>4 DEF ThreadExits, AllBufDone, SkipInput, SwitchFails, AddTask, start, Points
  <2> QED BY <1>0, <2>1, IdleType
<1>5. CASE waitFreeBuffersInQueue \/ handleRawReprocessing \/ SavedRaw
  BY <1>0, <1>5, WaitType, RawStepType, SavedType
<1>6. CASE SaveRaw
  BY <1>0, <1>6, GotoType DEF SaveRaw, Points
<1>7. CASE ~ (ProcessThread \/ start)
  <2>1. th' = th
    BY <1>7, ZenonT(30) DEF Next, vars, DagThreads, TaskStep, CountOutput, onBufferDone, FrameDone,
         EraseInflight,
         FinishTask, ForgetTask, Environment, Stopping, NextRequest, QueueOutput, onFrameAvailable,
         LoseFrame, StopProducer, StopDag, StopThread, clearBufferQueues
  <2>2. ThreadOwns
    BY <1>0, <2>1 DEF ThAt
  <2> QED BY <2>1, <2>2, HeldStays DEF ThreadOwns, HeldFor
<1> QED BY <1>1, <1>2, <1>3, <1>4, <1>5, <1>6, <1>7 DEF ProcessThread

\* Which frames go out and come back.
LEMMA OutMoves ==
  ASSUME BaseInv, FrameInv, [Next]_vars, ~ start, mOpaqueRawPort = 0, ThAt("skip") => ThreadOwns
  PROVE  \/ captured' = captured /\ rawWithProducer' = rawWithProducer
         \/ /\ onFrameAvailable /\ Frame(cam.session, cam.frames) \notin captured
            /\ captured' = captured \cup {Frame(cam.session, cam.frames)}
            /\ rawWithProducer' = rawWithProducer - 1
         \/ /\ SkipInput /\ ThreadOwns
            /\ captured' = captured \ {th.src} /\ rawWithProducer' = rawWithProducer + 1
         \/ \E i \in DOMAIN tasks :
              /\ FrameDone(i) /\ Owns(i)
              /\ captured' = captured \ {tasks[i].input} /\ rawWithProducer' = rawWithProducer + 1
<1> USE Groups
<1>0. TypeInv /\ RawType /\ th \in Threads /\ mRawBufferMap = {} /\ ~ (th.pc \in {"save", "saved"})
  BY DEF BaseInv, TypeInv, ControlInv, RawControl
<1>1. CASE onFrameAvailable
  <2>1. Frame(cam.session, cam.frames) = Base + cam.frames
    BY DEF Frame, Base
  <2>2. Base \in Nat /\ cam.frames \in Nat
    BY <1>0, CurrentGrows, Constants DEF TypeInv, Cameras
  <2>3. Frame(cam.session, cam.frames) \notin Current
    BY <2>1, <2>2 DEF Current
  <2>4. Frame(cam.session, cam.frames) \notin captured
    BY <2>3 DEF FrameInv
  <2> QED BY <1>1, <2>4 DEF onFrameAvailable
<1>2. CASE SkipInput
  <2>1. GiveBackUnlessHeld(th.src) /\ ThreadOwns
    BY <1>2 DEF SkipInput
  <2>2. captured' = captured \ {th.src} /\ rawWithProducer' = rawWithProducer + 1
    BY <1>0, <2>1, UnlessHeldType DEF Threads, isBufferHoldForRawReprocess
  <2> QED BY <1>2, <2>1, <2>2
<1>3. ASSUME NEW i \in DOMAIN tasks, FrameDone(i)
      PROVE  \/ captured' = captured /\ rawWithProducer' = rawWithProducer
             \/ /\ FrameDone(i) /\ Owns(i)
                /\ captured' = captured \ {tasks[i].input} /\ rawWithProducer' = rawWithProducer + 1
  <2>0. tasks[i] \in Tasks
    BY <1>0, ElementOfSeq DEF TypeInv
  <2>1. tasks[i].input \in Int
    BY <2>0 DEF Tasks
  <2>2. CASE HeldFor(tasks[i].outputs, tasks[i].input)
    <3>1. needHoldOnInputFrame(getSettingSequence(tasks[i].outputs), SequenceOf(tasks[i].input))
      BY <2>2 DEF HeldFor, HeldIn, SettingIn, needHoldOnInputFrame, getSettingSequence
    <3> QED BY <1>3, <3>1 DEF FrameDone
  <2>3. CASE ~ HeldFor(tasks[i].outputs, tasks[i].input)
    <3>1. ~ needHoldOnInputFrame(getSettingSequence(tasks[i].outputs), SequenceOf(tasks[i].input))
      BY <2>3 DEF HeldFor, HeldIn, SettingIn, needHoldOnInputFrame, getSettingSequence
    <3>2. GiveBackUnlessHeld(tasks[i].input) /\ tasks[i].stage = "inputs"
      BY <1>3, <3>1 DEF FrameDone
    <3>3. captured' = captured \ {tasks[i].input} /\ rawWithProducer' = rawWithProducer + 1
      BY <1>0, <2>1, <3>2, UnlessHeldType DEF isBufferHoldForRawReprocess
    <3>4. Owns(i)
      BY <2>3, <3>2 DEF Owns
    <3> QED BY <1>3, <3>3, <3>4
  <2> QED BY <2>2, <2>3
<1>4. ASSUME NEW i \in DOMAIN tasks, FinishTask(i)
      PROVE  captured' = captured /\ rawWithProducer' = rawWithProducer
  <2>1. ReturnRaw
    BY <1>4 DEF FinishTask
  <2> QED BY <1>0, <2>1, ReturnType
<1>5. CASE ~ (onFrameAvailable \/ SkipInput \/ \E i \in DOMAIN tasks : FrameDone(i) \/ FinishTask(i))
  <2>1. ~ SaveRaw /\ ~ SavedRaw
    BY <1>0 DEF SaveRaw, SavedRaw, ThAt
  <2> QED BY <1>5, <2>1 DEF Next, vars, ProcessThread, waitFreeBuffersInQueue, ThreadExits,
       handleRawReprocessing, AllBufDone, PopQueues, Dispatch, SwitchPipe,
       SwitchFails, CheckRunning, AddTask, DagThreads, TaskStep, CountOutput, onBufferDone,
       EraseInflight, ForgetTask, Environment, Stopping, NextRequest, QueueOutput,
       LoseFrame, StopProducer, StopDag, StopThread, clearBufferQueues
<1> QED BY <1>1, <1>2, <1>3, <1>4, <1>5

\* A task that is added owns what the thread owned.
LEMMA AddedOwns ==
  ASSUME BaseInv, [Next]_vars, AddTask, mOpaqueRawPort = 0, NEW k \in DOMAIN tasks', Owns(k)'
  PROVE  \/ k \in DOMAIN tasks /\ Owns(k) /\ tasks'[k].input = tasks[k].input
         \/ k = Len(tasks) + 1 /\ ThreadOwns /\ tasks'[k].input = th.src
<1>0. TypeInv /\ tasks \in Seq(Tasks) /\ ~ th.hasRawInput /\ th.pc = "queue"
  BY DEF BaseInv, TypeInv, ControlInv, RawControl, AddTask, ThAt
<1>1. /\ NewTask \in Tasks /\ NewTask.input = th.src /\ NewTask.outputs = th.dst
      /\ tasks' = Append(tasks, NewTask)
  BY <1>0, NewTaskType DEF AddTask
<1>2. /\ ~ HeldIn(requests'.list, tasks'[k].outputs, tasks'[k].input)
      /\ tasks'[k].stage \in {"run", "inputs"}
  BY DEF Owns, HeldFor
<1>3. CASE k \in DOMAIN tasks
  <2>1. tasks'[k] = tasks[k]
    BY <1>0, <1>1, <1>3, AddType
  <2>2. ~ HeldIn(requests.list, tasks[k].outputs, tasks[k].input)
    BY <1>2, <1>3, <2>1, HeldStays
  <2> QED BY <1>2, <1>3, <2>1, <2>2 DEF Owns, HeldFor
<1>4. CASE k \notin DOMAIN tasks
  <2>1. k = Len(tasks) + 1 /\ tasks'[k] = NewTask
    BY <1>0, <1>1, <1>4, AddType
  <2>2. ~ HeldIn(requests.list, th.dst, th.src)
    BY <1>1, <1>2, <2>1, HeldStays
  <2> QED BY <1>0, <1>1, <2>1, <2>2 DEF ThreadOwns, HeldFor
<1> QED BY <1>3, <1>4

\* The queue after a step has frames of before, and the one that came.
LEMMA QueueMoves ==
  ASSUME BaseInv, [Next]_vars, ~ start, ~ clearBufferQueues,
         \A n \in DOMAIN mInputQueue : mInputQueue[n] \in captured,
         \A m, n \in DOMAIN mInputQueue : m # n => mInputQueue[m] # mInputQueue[n],
         onFrameAvailable => Frame(cam.session, cam.frames) \notin captured
  PROVE  /\ \A n \in DOMAIN mInputQueue' :
              \/ InQueue(mInputQueue'[n])
              \/ onFrameAvailable /\ mInputQueue'[n] = Frame(cam.session, cam.frames)
         /\ \A m, n \in DOMAIN mInputQueue' : m # n => mInputQueue'[m] # mInputQueue'[n]
         /\ \A f \in captured : InQueue(f)' => InQueue(f)
<1> DEFINE F == Frame(cam.session, cam.frames)
<1>0. mInputQueue \in Seq(Nat) /\ mInputQueue' \in Seq(Nat)
  BY BaseStep DEF BaseInv, TypeInv, QueueType
<1>1. CASE mInputQueue' = mInputQueue
  BY <1>1 DEF InQueue
<1>2. CASE \A n \in DOMAIN mInputQueue' :
             n + 1 \in DOMAIN mInputQueue /\ mInputQueue'[n] = mInputQueue[n + 1]
  <2>1. ASSUME NEW m \in DOMAIN mInputQueue', NEW n \in DOMAIN mInputQueue', m # n
        PROVE  mInputQueue'[m] # mInputQueue'[n]
    <3>1. m + 1 # n + 1
      BY <1>0, <2>1
    <3> QED BY <1>2, <3>1
  <2> QED BY <1>2, <2>1 DEF InQueue
<1>3. CASE /\ onFrameAvailable
           /\ \A n \in DOMAIN mInputQueue :
                n \in DOMAIN mInputQueue' /\ mInputQueue'[n] = mInputQueue[n]
           /\ mInputQueue'[Len(mInputQueue) + 1] = Frame(cam.session, cam.frames)
           /\ \A n \in DOMAIN mInputQueue' :
                n \in DOMAIN mInputQueue \/ n = Len(mInputQueue) + 1
  <2> DEFINE last == Len(mInputQueue) + 1
  <2>1. /\ \A n \in DOMAIN mInputQueue : mInputQueue'[n] = mInputQueue[n] /\ mInputQueue[n] # F
        /\ mInputQueue'[last] = F
        /\ \A n \in DOMAIN mInputQueue' : n \in DOMAIN mInputQueue \/ n = last
    BY <1>3
  <2> HIDE DEF F, last
  <2>2. ASSUME NEW m \in DOMAIN mInputQueue', NEW n \in DOMAIN mInputQueue', m # n
        PROVE  mInputQueue'[m] # mInputQueue'[n]
    BY <2>1, <2>2
  <2>3. ASSUME NEW f \in captured, InQueue(f)' PROVE InQueue(f)
    BY <1>3, <2>1, <2>3 DEF InQueue, F
  <2>4. ASSUME NEW n \in DOMAIN mInputQueue' PROVE InQueue(mInputQueue'[n]) \/ mInputQueue'[n] = F
    BY <2>1 DEF InQueue
  <2> QED BY <1>3, <2>2, <2>3, <2>4 DEF F
<1> QED BY <1>1, <1>2, <1>3, InputMoves

\* Every frame that is out stays in one place.
LEMMA OwnedStep ==
  ASSUME BaseInv, FrameInv, NoneCounted, Balanced, OwnedOnce, [Next]_vars, ~ start,
         mOpaqueRawPort = 0, cam.state = "started", ~ clearBufferQueues
  PROVE  Balanced' /\ OwnedOnce'
<1> DEFINE F == Frame(cam.session, cam.frames)
<1>0. /\ TypeInv /\ RawType /\ Fronts /\ (ThAt("skip") => ThreadOwns)
      /\ mInputQueue \in Seq(Nat) /\ tasks \in Seq(Tasks)
  BY DEF BaseInv, TypeInv, QueueType, ControlInv, OwnedOnce
<1>out. \/ captured' = captured /\ rawWithProducer' = rawWithProducer
        \/ /\ onFrameAvailable /\ F \notin captured
           /\ captured' = captured \cup {F} /\ rawWithProducer' = rawWithProducer - 1
        \/ /\ SkipInput /\ ThreadOwns
           /\ captured' = captured \ {th.src} /\ rawWithProducer' = rawWithProducer + 1
        \/ \E i \in DOMAIN tasks :
             /\ FrameDone(i) /\ Owns(i)
             /\ captured' = captured \ {tasks[i].input} /\ rawWithProducer' = rawWithProducer + 1
  BY <1>0, OutMoves
<1>new. onFrameAvailable => F \notin captured
  <2>1. ASSUME onFrameAvailable PROVE F \notin captured
    <3>1. Base \in Nat /\ cam.frames \in Nat /\ F = Base + cam.frames
      BY <1>0, CurrentGrows, Constants DEF TypeInv, Cameras, Frame, Base
    <3>2. F \notin Current
      BY <3>1 DEF Current
    <3> QED BY <3>2 DEF FrameInv
  <2> QED BY <2>1
<1>queue. /\ \A n \in DOMAIN mInputQueue' :
               InQueue(mInputQueue'[n]) \/ (onFrameAvailable /\ mInputQueue'[n] = F)
          /\ \A m, n \in DOMAIN mInputQueue' : m # n => mInputQueue'[m] # mInputQueue'[n]
          /\ \A f \in captured : InQueue(f)' => InQueue(f)
  BY <1>new, QueueMoves DEF OwnedOnce
<1>mine. /\ \A f : InQueue(f) => f \in captured
         /\ ThreadOwns => th.src \in captured /\ ~ InQueue(th.src)
         /\ \A i \in DOMAIN tasks : Owns(i) =>
              /\ tasks[i].input \in captured /\ ~ InQueue(tasks[i].input)
              /\ ThreadOwns => tasks[i].input # th.src
         /\ \A i, j \in DOMAIN tasks : Owns(i) /\ Owns(j) /\ i # j => tasks[i].input # tasks[j].input
  BY DEF OwnedOnce, InQueue
<1> HIDE DEF F
<1>1. Balanced'
  <2>1. CASE captured' = captured /\ rawWithProducer' = rawWithProducer
    BY <2>1 DEF Balanced
  <2>2. CASE F \notin captured /\ captured' = captured \cup {F} /\ rawWithProducer' = rawWithProducer - 1
    <3>1. Cardinality(captured \cup {F}) = Cardinality(captured) + 1 /\ Cardinality(captured) \in Nat
      BY <1>0, <2>2, FS_AddElement, FS_CardinalityType DEF RawType
    <3> QED BY <1>0, <2>2, <3>1 DEF Balanced, RawType
  <2>3. ASSUME NEW f \in captured, captured' = captured \ {f}, rawWithProducer' = rawWithProducer + 1
        PROVE  Balanced'
    <3>1. Cardinality(captured \ {f}) = Cardinality(captured) - 1 /\ Cardinality(captured) \in Nat
      BY <1>0, <2>3, FS_RemoveElement, FS_CardinalityType DEF RawType
    <3> QED BY <1>0, <2>3, <3>1 DEF Balanced, RawType
  <2> QED BY <1>out, <1>mine, <2>1, <2>2, <2>3
\* a frame that is out and not given back by this step is still out
<1>stay. ASSUME NEW f \in captured, SkipInput => f # th.src,
                \A i \in DOMAIN tasks : FrameDone(i) /\ Owns(i) => f # tasks[i].input
         PROVE  f \in captured'
  BY <1>out, <1>stay
<1>2. ASSUME NEW n \in DOMAIN mInputQueue' PROVE mInputQueue'[n] \in captured'
  <2>1. PICK f : f = mInputQueue'[n]
    OBVIOUS
  <2>2. CASE InQueue(f)
    <3>1. f \in captured /\ (SkipInput => f # th.src)
      BY <1>0, <1>mine, <2>2 DEF SkipInput
    <3>2. ASSUME NEW i \in DOMAIN tasks, Owns(i) PROVE f # tasks[i].input
      BY <1>mine, <2>2, <3>2
    <3> QED BY <1>stay, <2>1, <3>1, <3>2
  <2>3. CASE onFrameAvailable /\ f = F
    BY <2>1, <2>3 DEF onFrameAvailable, F
  <2> QED BY <1>queue, <2>1, <2>2, <2>3
<1>3. (ThAt("skip") => ThreadOwns)'
  <2>1. ASSUME ThAt("skip")' PROVE ThreadOwns'
    BY <1>0, <2>1, SkipOwns
  <2> QED BY <2>1
<1>4. ASSUME ThreadOwns'
      PROVE  th'.src \in captured' /\ \A n \in DOMAIN mInputQueue' : mInputQueue'[n] # th'.src
  <2>1. PICK f : f = th.src
    OBVIOUS
  <2>2. /\ th'.src = f
        /\ (ThreadOwns /\ ~ SkipInput) \/ (PopQueues /\ PopsInput)
    BY <1>4, <2>1, ThreadOwnsMoves
  <2>3. CASE ThreadOwns /\ ~ SkipInput
    <3>1. f \in captured /\ ~ InQueue(f) /\ \A i \in DOMAIN tasks : Owns(i) => f # tasks[i].input
      BY <1>mine, <2>1, <2>3
    <3>2. f \in captured'
      BY <1>stay, <2>3, <3>1
    <3>3. ~ InQueue(f)'
      BY <1>queue, <3>1
    <3> QED BY <2>2, <3>2, <3>3 DEF InQueue
  <2>4. CASE PopQueues /\ PopsInput
    <3>1. /\ mInputQueue # <<>> /\ f = Head(mInputQueue) /\ mInputQueue' = Tail(mInputQueue)
          /\ captured' = captured
      BY <1>0, <2>1, <2>4, Groups DEF PopQueues, PopsInput, Fronts, Taking, ThAt
    <3>2. /\ 1 \in DOMAIN mInputQueue /\ f = mInputQueue[1]
          /\ \A n \in DOMAIN Tail(mInputQueue) :
               n + 1 \in DOMAIN mInputQueue /\ Tail(mInputQueue)[n] = mInputQueue[n + 1]
      BY <1>0, <3>1, TailPlaces
    <3>3. ASSUME NEW n \in DOMAIN mInputQueue' PROVE mInputQueue'[n] # f
      <4>1. n + 1 # 1 /\ n + 1 \in DOMAIN mInputQueue /\ mInputQueue'[n] = mInputQueue[n + 1]
        BY <1>0, <3>1, <3>2, TailPlaces
      <4> QED BY <3>2, <4>1 DEF OwnedOnce
    <3>4. f \in captured'
      BY <3>1, <3>2 DEF OwnedOnce
    <3> QED BY <2>2, <3>3, <3>4 DEF InQueue
  <2> QED BY <2>2, <2>3, <2>4
<1>dis. \A m, n \in DOMAIN mInputQueue' : m # n => mInputQueue'[m] # mInputQueue'[n]
  BY <1>queue
<1>all. ASSUME \A k \in DOMAIN tasks' : Owns(k)' =>
                 /\ tasks'[k].input \in captured'
                 /\ \A n \in DOMAIN mInputQueue' : mInputQueue'[n] # tasks'[k].input
                 /\ ThreadOwns' => tasks'[k].input # th'.src,
               \A j, k \in DOMAIN tasks' : Owns(j)' /\ Owns(k)' /\ j # k =>
                 tasks'[j].input # tasks'[k].input
        PROVE  OwnedOnce'
  BY <1>2, <1>3, <1>4, <1>dis, <1>all DEF OwnedOnce, InQueue
\* what the tasks own
<1>own. ASSUME NEW f \in captured, ~ InQueue(f), ThreadOwns' => f # th'.src,
               SkipInput => f # th.src,
               \A i \in DOMAIN tasks : FrameDone(i) /\ Owns(i) => f # tasks[i].input
        PROVE  f \in captured' /\ ~ InQueue(f)' /\ (ThreadOwns' => f # th'.src)
  BY <1>own, <1>queue, <1>stay
<1>apart. ASSUME NEW i \in DOMAIN tasks, Owns(i), ThreadOwns', ~ AddTask
          PROVE  tasks[i].input # th'.src
  <2>1. PICK f : f = th.src
    OBVIOUS
  <2>2. /\ th'.src = f
        /\ ThreadOwns \/ (PopQueues /\ PopsInput)
    BY <1>apart, <2>1, ThreadOwnsMoves
  <2>3. CASE ThreadOwns
    BY <1>apart, <1>mine, <2>1, <2>2, <2>3
  <2>4. CASE PopQueues /\ PopsInput
    <3>1. mInputQueue # <<>> /\ f = Head(mInputQueue)
      BY <1>0, <2>1, <2>4, Groups DEF PopQueues, PopsInput, Fronts, Taking, ThAt
    <3>2. InQueue(f)
      BY <1>0, <3>1, TailPlaces DEF InQueue
    <3> QED BY <1>apart, <1>mine, <2>2, <3>2
  <2> QED BY <2>2, <2>3, <2>4
<1>5. CASE ~ AddTask
  <2>1. PICK o \in [DOMAIN tasks' -> DOMAIN tasks] :
          /\ \A k \in DOMAIN tasks' : Owns(k)' =>
               Owns(o[k]) /\ tasks'[k].input = tasks[o[k]].input /\ ~ FrameDone(o[k])
          /\ \A j, k \in DOMAIN tasks' : j # k => o[j] # o[k]
    BY <1>5, OwnsMoves
  <2>2. ASSUME NEW k \in DOMAIN tasks', Owns(k)'
        PROVE  /\ tasks'[k].input \in captured'
               /\ \A n \in DOMAIN mInputQueue' : mInputQueue'[n] # tasks'[k].input
               /\ ThreadOwns' => tasks'[k].input # th'.src
    <3>1. PICK j \in DOMAIN tasks : j = o[k]
      BY <2>1
    <3>2. Owns(j) /\ tasks'[k].input = tasks[j].input /\ ~ FrameDone(j)
      BY <2>1, <2>2, <3>1
    <3>3. PICK f : f = tasks[j].input
      OBVIOUS
    <3>4. f \in captured /\ ~ InQueue(f) /\ (ThreadOwns' => f # th'.src)
      BY <1>5, <1>apart, <1>mine, <3>2, <3>3
    <3>5. SkipInput => f # th.src
      BY <1>0, <1>mine, <3>2, <3>3 DEF SkipInput
    <3>6. ASSUME NEW i \in DOMAIN tasks, FrameDone(i), Owns(i) PROVE f # tasks[i].input
      BY <1>mine, <3>2, <3>3, <3>6
    <3>7. f \in captured' /\ ~ InQueue(f)' /\ (ThreadOwns' => f # th'.src)
      BY <1>own, <3>4, <3>5, <3>6
    <3> QED BY <3>2, <3>3, <3>7 DEF InQueue
  <2>3. ASSUME NEW j \in DOMAIN tasks', NEW k \in DOMAIN tasks', Owns(j)', Owns(k)', j # k
        PROVE  tasks'[j].input # tasks'[k].input
    <3>1. /\ o[j] \in DOMAIN tasks /\ o[k] \in DOMAIN tasks /\ o[j] # o[k] /\ Owns(o[j]) /\ Owns(o[k])
          /\ tasks'[j].input = tasks[o[j]].input /\ tasks'[k].input = tasks[o[k]].input
      BY <2>1, <2>3
    <3> QED BY <1>mine, <3>1
  <2>4. OwnedOnce'
    BY <1>all, <2>2, <2>3
  <2> QED BY <1>1, <2>4
<1>6. CASE AddTask
  <2>1. captured' = captured /\ mInputQueue' = mInputQueue /\ ~ ThreadOwns'
    BY <1>6, Groups, ThreadOwnsMoves DEF AddTask
  <2>2. ASSUME NEW k \in DOMAIN tasks', Owns(k)'
        PROVE  /\ tasks'[k].input \in captured'
               /\ \A n \in DOMAIN mInputQueue' : mInputQueue'[n] # tasks'[k].input
               /\ ThreadOwns' => tasks'[k].input # th'.src
    <3>1. PICK f : f = tasks'[k].input
      OBVIOUS
    <3>2. \/ k \in DOMAIN tasks /\ Owns(k) /\ f = tasks[k].input
          \/ k = Len(tasks) + 1 /\ ThreadOwns /\ f = th.src
      BY <1>6, <2>2, <3>1, AddedOwns
    <3>3. f \in captured /\ ~ InQueue(f)
      BY <1>mine, <3>2
    <3> QED BY <2>1, <3>1, <3>3 DEF InQueue
  <2>3. ASSUME NEW j \in DOMAIN tasks', NEW k \in DOMAIN tasks', Owns(j)', Owns(k)', j # k
        PROVE  tasks'[j].input # tasks'[k].input
    <3>1. \/ j \in DOMAIN tasks /\ Owns(j) /\ tasks'[j].input = tasks[j].input
          \/ j = Len(tasks) + 1 /\ ThreadOwns /\ tasks'[j].input = th.src
      BY <1>6, <2>3, AddedOwns
    <3>2. \/ k \in DOMAIN tasks /\ Owns(k) /\ tasks'[k].input = tasks[k].input
          \/ k = Len(tasks) + 1 /\ ThreadOwns /\ tasks'[k].input = th.src
      BY <1>6, <2>3, AddedOwns
    <3> QED BY <1>mine, <2>3, <3>1, <3>2
  <2>4. OwnedOnce'
    BY <1>all, <2>2, <2>3
  <2> QED BY <1>1, <2>4
<1> QED BY <1>5, <1>6

\* No output is counted for a dropped task without cam.stale.
LEMMA StaleStep ==
  ASSUME BaseInv, StaleInv, [Next]_vars
  PROVE  StaleInv'
<1> SUFFICES ASSUME ~ cam'.stale, NEW j \in DOMAIN tasks', tasks'[j].stage = "dropped"
             PROVE  tasks'[j].last = 0
  BY DEF StaleInv, NoneCounted
<1>0. TypeInv /\ tasks \in Seq(Tasks) /\ cam \in Cameras /\ StagesInv
  BY DEF BaseInv, TypeInv, ControlInv
<1>1. CASE StopDag
  BY <1>0, <1>1, DropType
<1>2. CASE ~ StopDag
  <2>0. NoneCounted
    BY <1>0, <1>2, StaleStays DEF StaleInv
  <2>old. ASSUME \E k \in DOMAIN tasks : /\ tasks'[j].last = tasks[k].last
                                          /\ tasks[k].stage = "dropped"
          PROVE  tasks'[j].last = 0
    BY <2>0, <2>old DEF NoneCounted
  <2>1. CASE AddTask
    <3>1. NewTask \in Tasks /\ NewTask.stage = "run"
      BY <1>0, <2>1, NewTaskType DEF AddTask
    <3>2. j \in DOMAIN tasks /\ tasks'[j] = tasks[j]
      BY <1>0, <2>1, <3>1, AddType DEF AddTask
    <3> QED BY <2>old, <3>2
  <2>2. CASE \E i \in DOMAIN tasks : TaskStep(i)
    <3>0. PICK i \in DOMAIN tasks : TaskStep(i)
      BY <2>2
    <3>1. CASE ForgetTask(i)
      BY <1>0, <3>1, <2>old, ForgetType
    <3>2. CASE \E p \in Ports : CountOutput(i, p)
      <4>1. PICK p \in Ports : CountOutput(i, p)
        BY <3>2
      <4>2. PICK k \in CountedFor(i, p) :
              /\ \A x \in DOMAIN tasks :
                   tasks'[x].last = IF x = k THEN p ELSE tasks[x].last
              /\ cam' = [cam EXCEPT !.stale = @ \/ k # i]
        BY <1>0, <4>1, CountType
      <4> DEFINE b == cam.stale \/ k # i
      <4>3. cam'.stale = b
        <5>1. cam' = [cam EXCEPT !.stale = b]
          BY <4>2
        <5> HIDE DEF b
        <5> QED BY <1>0, <5>1 DEF Cameras
      <4>4. tasks[i].stage = "run"
        BY <1>0, <4>1 DEF CountOutput, StagesInv
      <4>5. j \in DOMAIN tasks /\ tasks[j].stage = "dropped"
        BY <1>0, <4>1, CountType
      <4>6. tasks'[j].last = tasks[j].last
        BY <4>2, <4>3, <4>4, <4>5
      <4> QED BY <2>old, <4>5, <4>6
    <3>3. CASE \E p \in Ports : onBufferDone(i, p)
      <4>1. j \in DOMAIN tasks /\ tasks'[j].last = tasks[j].last /\ tasks[j].stage = "dropped"
        BY <1>0, <3>3, DoneType
      <4> QED BY <2>old, <4>1
    <3>4. CASE FrameDone(i) \/ EraseInflight(i) \/ FinishTask(i)
      <4>1. \E s \in Stages : SetStage(i, s) /\ s # "dropped"
        BY <3>4 DEF FrameDone, EraseInflight, FinishTask, Stages
      <4>2. j \in DOMAIN tasks /\ tasks'[j].last = tasks[j].last /\ tasks[j].stage = "dropped"
        BY <1>0, <4>1, StageType
      <4> QED BY <2>old, <4>2
    <3> QED BY <3>0, <3>1, <3>2, <3>3, <3>4 DEF TaskStep
  <2>3. CASE ~ (AddTask \/ DagThreads)
    <3>1. tasks' = tasks
      BY <1>2, <2>3 DEF Next, vars, ProcessThread, waitFreeBuffersInQueue, ThreadExits,
           handleRawReprocessing,
           SaveRaw, SavedRaw, AllBufDone, PopQueues, SkipInput, Dispatch, SwitchPipe, SwitchFails,
           CheckRunning, Environment, Stopping, NextRequest, QueueOutput, onFrameAvailable,
           LoseFrame, start, StopProducer, StopThread, clearBufferQueues
    <3> QED BY <2>old, <3>1
  <2> QED BY <2>1, <2>2, <2>3 DEF DagThreads
<1> QED BY <1>1, <1>2

\* OwnInv is preserved, also by start(), which replaces the raw buffers.
LEMMA OwnStep ==
  ASSUME BaseInv, FrameInv, StaleInv, OwnInv, [Next]_vars
  PROVE  OwnInv'
<1> SUFFICES ASSUME mOpaqueRawPort' = 0, cam'.state = "started", ~ cam'.late, ~ cam'.stale
             PROVE  Balanced' /\ OwnedOnce'
  BY DEF OwnInv
<1>0. TypeInv /\ Lifecycle
  BY DEF BaseInv, ControlInv
<1>1. CASE start
  <2>1. /\ mInputQueue' = <<>> /\ captured' = {} /\ rawWithProducer' = NumRaw
        /\ th' = IdleThread("loop") /\ tasks' = tasks
        /\ \A i \in DOMAIN tasks : tasks[i].stage = "dropped"
    BY <1>0, <1>1, LateStays, Groups DEF start, Lifecycle
  <2>2. /\ th'.pc = "loop" /\ DOMAIN mInputQueue' = {}
        /\ \A i \in DOMAIN tasks' : ~ Owns(i)'
    BY <2>1, IdleType DEF Points, Owns
  <2>3. Balanced'
    BY <2>1, FS_EmptySet, Constants DEF Balanced
  <2>4. ~ ThreadOwns' /\ ~ ThAt("skip")'
    BY <2>2 DEF ThreadOwns, ThAt
  <2>5. OwnedOnce'
    BY <2>2, <2>4 DEF OwnedOnce
  <2> QED BY <2>3, <2>5
<1>2. CASE ~ start
  <2>1. cam.state = "started" /\ ~ clearBufferQueues /\ ~ StopDag
    BY <1>2, StaysStarted
  <2>2. ~ cam.late /\ ~ cam.stale /\ NoneCounted
    BY <1>0, <1>2, <2>1, LateStays, StaleStays DEF StaleInv
  <2>3. mOpaqueRawPort = 0
    BY ZenonT(30) DEF Next, vars, ProcessThread, waitFreeBuffersInQueue, ThreadExits, handleRawReprocessing,
       SaveRaw, SavedRaw, AllBufDone, PopQueues, SkipInput, Dispatch, SwitchPipe,
       SwitchFails, CheckRunning, AddTask, DagThreads, TaskStep, CountOutput, onBufferDone,
       FrameDone,
       EraseInflight, FinishTask, ForgetTask, Environment, Stopping, NextRequest, QueueOutput,
       onFrameAvailable, LoseFrame, start, StopProducer, StopDag, StopThread, clearBufferQueues
  <2>4. Balanced /\ OwnedOnce
    BY <2>1, <2>2, <2>3 DEF OwnInv
  <2> QED BY <1>2, <2>1, <2>2, <2>3, <2>4, OwnedStep
<1> QED BY <1>1, <1>2

\* A raw buffer goes back to the producer once per capture (PSysProcessor.cpp, prepareTask and
\* onFrameDone), although the process thread and the threads of the PSysDAG may both give a
\* frame back that serves several requests; over any number of sessions, also with tasks in
\* mOngoingTasks that a stop() dropped, until one of them is matched with an output.
THEOREM RawBuffersStay == Spec => []RawBuffersConserved
<1> DEFINE Inv == BaseInv /\ FrameInv /\ StaleInv /\ OwnInv
<1>1. Init => Inv
  <2> SUFFICES ASSUME Init PROVE Inv
    OBVIOUS
  <2>1. cam.state = "stopped" /\ tasks = <<>>
    BY DEF Init
  <2> QED BY <2>1, BaseInit, FrameInit DEF OwnInv, StaleInv, NoneCounted
<1>2. Inv /\ [Next]_vars => Inv'
  BY BaseStep, FrameStep, StaleStep, OwnStep
<1>3. Inv => RawBuffersConserved
  BY DEF OwnInv, Balanced, RawBuffersConserved
<1> QED BY <1>1, <1>2, <1>3, PTL DEF Spec

-----------------------------------------------------------------------------
(* The outputs of the tasks, and the opaque raw stream.                    *)

\* Left or in a callback: a task that is taken on has the same outputs left.
LEMMA LeftStays ==
  ASSUME tasks \in Seq(Tasks), NEW i \in DOMAIN tasks, NEW j \in DOMAIN tasks,
         FrameDone(i) \/ EraseInflight(i) \/ FinishTask(i)
  PROVE  /\ DOMAIN tasks' = DOMAIN tasks /\ tasks'[j].input = tasks[j].input
         /\ tasks'[j].outputs = tasks[j].outputs /\ tasks'[j].left = tasks[j].left
         /\ tasks'[j].calling = tasks[j].calling
<1>1. \E s \in Stages : SetStage(i, s)
  BY DEF FrameDone, EraseInflight, FinishTask, Stages
<1> QED BY <1>1, StageType

\* The outputs of a stream are called back in the order of the tasks.
LEMMA ShapeStep ==
  ASSUME BaseInv, ShapeInv, [Next]_vars
  PROVE  ShapeInv'
<1>0. TypeInv /\ tasks \in Seq(Tasks) /\ tasks' \in Seq(Tasks)
  BY BaseStep DEF BaseInv, TypeInv
<1>1. CASE AddTask
  <2>1. /\ NewTask \in Tasks /\ NewTask.outputs = th.dst /\ NewTask.left = ValidPorts(th.dst)
        /\ NewTask.calling = {} /\ tasks' = Append(tasks, NewTask)
    BY <1>0, <1>1, NewTaskType DEF AddTask
  <2>2. \A j \in DOMAIN tasks' : tasks'[j] = NewTask \/ (j \in DOMAIN tasks /\ tasks'[j] = tasks[j])
    BY <1>0, <2>1, AddType
  <2>3. \A i, j \in DOMAIN tasks' : i < j => i \in DOMAIN tasks
    BY <1>0, <2>1
  <2>4. ASSUME NEW j \in DOMAIN tasks'
        PROVE  /\ tasks'[j].left \subseteq ValidPorts(tasks'[j].outputs)
               /\ tasks'[j].calling \subseteq ValidPorts(tasks'[j].outputs)
               /\ tasks'[j].left \cap tasks'[j].calling = {}
    BY <2>1, <2>2 DEF ShapeInv
  <2>5. ASSUME NEW i \in DOMAIN tasks', NEW j \in DOMAIN tasks', i < j
        PROVE  tasks'[j].calling \cap (tasks'[i].left \cup tasks'[i].calling) = {}
    <3>1. CASE tasks'[j] = NewTask
      BY <2>1, <3>1
    <3>2. CASE j \in DOMAIN tasks /\ tasks'[j] = tasks[j]
      <4>1. i \in DOMAIN tasks /\ tasks'[i] = tasks[i]
        BY <1>0, <2>1, <2>3, <2>5, AddType
      <4> QED BY <2>5, <3>2, <4>1 DEF ShapeInv
    <3> QED BY <2>2, <3>1, <3>2
  <2> QED BY <2>4, <2>5 DEF ShapeInv, ValidPorts
<1>2. ASSUME NEW k \in DOMAIN tasks, NEW p \in Ports, CountOutput(k, p)
      PROVE  ShapeInv'
  <2>1. /\ p \in tasks[k].left
        /\ \A j \in 1..(k - 1) : p \notin tasks[j].left /\ p \notin tasks[j].calling
    BY <1>2 DEF CountOutput
  <2>2. /\ DOMAIN tasks' = DOMAIN tasks
        /\ tasks'[k].left = tasks[k].left \ {p} /\ tasks'[k].calling = tasks[k].calling \cup {p}
        /\ \A j \in DOMAIN tasks : j # k =>
             tasks'[j].left = tasks[j].left /\ tasks'[j].calling = tasks[j].calling
        /\ \A j \in DOMAIN tasks : tasks'[j].outputs = tasks[j].outputs
    BY <1>0, <1>2, CountType
  <2>3. \A j \in DOMAIN tasks : j < k => j \in 1..(k - 1)
    BY <1>0
  <2>4. \A j \in DOMAIN tasks : /\ tasks'[j].left \subseteq ValidPorts(tasks'[j].outputs)
                                /\ tasks'[j].calling \subseteq ValidPorts(tasks'[j].outputs)
                                /\ tasks'[j].left \cap tasks'[j].calling = {}
    <3> SUFFICES ASSUME NEW j \in DOMAIN tasks
                 PROVE  /\ tasks'[j].left \subseteq ValidPorts(tasks'[j].outputs)
                        /\ tasks'[j].calling \subseteq ValidPorts(tasks'[j].outputs)
                        /\ tasks'[j].left \cap tasks'[j].calling = {}
      OBVIOUS
    <3>1. CASE j = k
      BY <2>1, <2>2, <3>1 DEF ShapeInv
    <3>2. CASE j # k
      BY <2>2, <3>2 DEF ShapeInv
    <3> QED BY <3>1, <3>2
  <2>5. ASSUME NEW i \in DOMAIN tasks, NEW j \in DOMAIN tasks, i < j
        PROVE  tasks'[j].calling \cap (tasks'[i].left \cup tasks'[i].calling) = {}
    <3>1. CASE j = k
      <4>1. i # k /\ tasks'[i].left = tasks[i].left /\ tasks'[i].calling = tasks[i].calling
        BY <1>0, <2>2, <2>5, <3>1
      <4>2. p \notin tasks[i].left \cup tasks[i].calling
        BY <2>1, <2>3, <2>5, <3>1
      <4>3. tasks[k].calling \cap (tasks[i].left \cup tasks[i].calling) = {}
        BY <2>5, <3>1 DEF ShapeInv
      <4> QED BY <2>2, <3>1, <4>1, <4>2, <4>3
    <3>2. CASE j # k
      <4>1. tasks'[j].calling = tasks[j].calling
        BY <2>2, <3>2
      <4>2. tasks'[i].left \cup tasks'[i].calling = tasks[i].left \cup tasks[i].calling
        BY <2>1, <2>2
      <4> QED BY <2>5, <4>1, <4>2 DEF ShapeInv
    <3> QED BY <3>1, <3>2
  <2> QED BY <2>2, <2>4, <2>5 DEF ShapeInv, ValidPorts
<1>3. ASSUME NEW k \in DOMAIN tasks, NEW p \in Ports, onBufferDone(k, p)
      PROVE  ShapeInv'
  <2>1. /\ DOMAIN tasks' = DOMAIN tasks
        /\ \A j \in DOMAIN tasks : /\ tasks'[j].outputs = tasks[j].outputs
                                   /\ tasks'[j].left = tasks[j].left
                                   /\ tasks'[j].calling \subseteq tasks[j].calling
    BY <1>0, <1>3, DoneType
  <2> QED BY <2>1 DEF ShapeInv, ValidPorts
<1>4. ASSUME NEW k \in DOMAIN tasks, FrameDone(k) \/ EraseInflight(k) \/ FinishTask(k)
      PROVE  ShapeInv'
  <2>1. /\ DOMAIN tasks' = DOMAIN tasks
        /\ \A j \in DOMAIN tasks : /\ tasks'[j].outputs = tasks[j].outputs
                                   /\ tasks'[j].left = tasks[j].left
                                   /\ tasks'[j].calling = tasks[j].calling
    BY <1>0, <1>4, LeftStays
  <2> QED BY <2>1 DEF ShapeInv, ValidPorts
<1>5. ASSUME NEW k \in DOMAIN tasks, ForgetTask(k)
      PROVE  ShapeInv'
  <2>1. /\ \A j \in DOMAIN tasks' : Before(k, j) \in DOMAIN tasks /\ tasks'[j] = tasks[Before(k, j)]
        /\ \A i, j \in DOMAIN tasks' : i < j => Before(k, i) < Before(k, j)
    BY <1>0, <1>5, ForgetType
  <2> QED BY <2>1 DEF ShapeInv, ValidPorts
<1>6. CASE StopDag
  <2>1. /\ DOMAIN tasks' = DOMAIN tasks
        /\ \A j \in DOMAIN tasks : tasks'[j].left = {} /\ tasks'[j].calling = {}
    BY <1>0, <1>6, DropType
  <2> QED BY <2>1 DEF ShapeInv
<1>7. CASE ~ (AddTask \/ DagThreads \/ StopDag)
  <2>1. tasks' = tasks
    BY <1>7 DEF Next, vars, ProcessThread, waitFreeBuffersInQueue, ThreadExits,
         handleRawReprocessing,
         SaveRaw, SavedRaw, AllBufDone, PopQueues, SkipInput, Dispatch, SwitchPipe, SwitchFails,
         CheckRunning, Environment, Stopping, NextRequest, QueueOutput, onFrameAvailable,
         LoseFrame, start, StopProducer, StopThread, clearBufferQueues
  <2> QED BY <2>1 DEF ShapeInv, ValidPorts
<1> QED BY <1>1, <1>2, <1>3, <1>4, <1>5, <1>6, <1>7 DEF DagThreads, TaskStep

\* Only configure() chooses the stream that takes raw frames.
LEMMA RawPortStays ==
  ASSUME [Next]_vars
  PROVE  mOpaqueRawPort' = mOpaqueRawPort
  BY ZenonT(30) DEF Next, vars, ProcessThread, waitFreeBuffersInQueue, ThreadExits, handleRawReprocessing,
       SaveRaw, SavedRaw, AllBufDone, PopQueues, SkipInput, Dispatch, SwitchPipe,
       SwitchFails, CheckRunning, AddTask, DagThreads, TaskStep, CountOutput, onBufferDone,
       FrameDone,
       EraseInflight, FinishTask, ForgetTask, Environment, Stopping, NextRequest, QueueOutput,
       onFrameAvailable, LoseFrame, start, StopProducer, StopDag, StopThread, clearBufferQueues

\* The setting of the thread's outputs stays while they do.
LEMMA ThreadSettingStays ==
  ASSUME BaseInv, [Next]_vars, th'.dst = th.dst
  PROVE  Setting' = Setting
<1>1. TypeInv /\ th.dst \in [Ports -> Nat] /\ Known(th.dst)
  BY DEF BaseInv, TypeInv, ControlInv, AllKnown, Threads
<1>2. SettingIn(requests'.list, th.dst) = SettingIn(requests.list, th.dst)
  BY <1>1, SettingStays
<1>3. Setting = SettingIn(requests.list, th.dst) /\ Setting' = SettingIn(requests'.list, th'.dst)
  BY DEF Setting, SettingIn, getSettingSequence
<1> QED BY <1>2, <1>3

\* The fronts of the queues stay while the thread looks at them.
LEMMA FrontStays ==
  ASSUME BaseInv, [Next]_vars, Taking, Taking', NEW p \in Ports
  PROVE  Head(mOutputQueue'[p]) = Head(mOutputQueue[p])
<1>1. TypeInv /\ mOutputQueue[p] # <<>> /\ ~ ThAt("exited") /\ th \in Threads
  BY DEF BaseInv, TypeInv, ControlInv, Fronts, Taking, ThAt
<1>2. CASE QueueOutput
  BY <1>1, <1>2, QueueOutputPlaces
<1>3. CASE AllBufDone
  BY <1>3, IdleType DEF AllBufDone, Taking, Points
<1>4. CASE PopQueues
  <2>1. \E point \in {"dispatch", "skip"} : Goto(point)
    BY <1>4 DEF PopQueues
  <2>2. th'.pc \in {"dispatch", "skip"}
    BY <1>1, <2>1, GotoType DEF Points
  <2> QED BY <2>2 DEF Taking
<1>5. CASE ~ (QueueOutput \/ AllBufDone \/ PopQueues)
  <2>1. mOutputQueue' = mOutputQueue
    BY <1>1, <1>5, Groups, ZenonT(30) DEF Next, vars, ProcessThread, waitFreeBuffersInQueue, ThreadExits,
       handleRawReprocessing, SaveRaw, SavedRaw, SkipInput, Dispatch, SwitchPipe,
       SwitchFails, CheckRunning, AddTask, DagThreads, TaskStep, CountOutput, onBufferDone,
       FrameDone,
       EraseInflight, FinishTask, ForgetTask, Environment, Stopping, NextRequest,
       onFrameAvailable, LoseFrame, start, StopProducer, StopDag, StopThread, clearBufferQueues
  <2> QED BY <2>1
<1> QED BY <1>2, <1>3, <1>4, <1>5

\* The tasks and the thread have no output of the opaque raw stream.
LEMMA RawStreamStep ==
  ASSUME BaseInv, RawStreamInv, [Next]_vars
  PROVE  RawStreamInv'
<1> SUFFICES ASSUME NEW r \in Ports, r = mOpaqueRawPort
             PROVE  RawStream(r)'
  BY RawPortStays DEF RawStreamInv
<1>0. TypeInv /\ th \in Threads /\ tasks \in Seq(Tasks) /\ RawStream(r) /\ r # 0
      /\ th.dst \in [Ports -> Nat]
  BY DEF BaseInv, TypeInv, RawStreamInv, Ports, Threads
<1>1. ASSUME NEW k \in DOMAIN tasks' PROVE tasks'[k].outputs[r] = 0
  <2>1. CASE AddTask
    <3>1. NewTask \in Tasks /\ NewTask.outputs = th.dst /\ th.dst[r] = 0
      BY <1>0, <2>1, NewTaskType DEF AddTask, RawStream, ThAt
    <3>2. tasks'[k] = NewTask \/ (k \in DOMAIN tasks /\ tasks'[k] = tasks[k])
      BY <1>0, <2>1, <3>1, AddType DEF AddTask
    <3> QED BY <1>0, <3>1, <3>2 DEF RawStream
  <2>2. CASE ~ AddTask
    <3>1. PICK o \in [DOMAIN tasks' -> DOMAIN tasks] : \A j \in DOMAIN tasks' : Same(o[j], j)
      BY <2>2, TaskMoves
    <3>2. o[k] \in DOMAIN tasks /\ tasks'[k].outputs = tasks[o[k]].outputs
      BY <3>1 DEF Same
    <3> QED BY <1>0, <3>2 DEF RawStream
  <2> QED BY <2>1, <2>2
<1> DEFINE Rest == /\ th'.pc \in {"dispatch", "switch", "add", "queue"} => th'.dst[r] = 0
                   /\ th'.pc = "raw" => th'.dst[r] = Head(mOutputQueue'[r])
                   /\ th'.pc = "pop" /\ th'.dst[r] # 0 => ~ needExecutePipe(Setting', SequenceOf(th'.src))
<1>2. CASE waitFreeBuffersInQueue
  <2>1. th'.pc = "raw" /\ th'.dst[r] = Head(mOutputQueue[r]) /\ mOutputQueue' = mOutputQueue
    BY <1>0, <1>2, WaitType, Groups DEF waitFreeBuffersInQueue
  <2>2. Rest
    BY <2>1
  <2> QED BY <1>1, <2>2 DEF RawStream, Seq0
<1>3. CASE handleRawReprocessing
  <2>1. th'.dst = th.dst /\ th'.pc \in {"save", "pop"} /\ Setting' = Setting
    BY <1>0, <1>3, RawStepType, ThreadSettingStays
  <2>2. ASSUME th'.pc = "pop", th'.dst[r] # 0
        PROVE  ~ needExecutePipe(Setting', SequenceOf(th'.src))
    <3>1. RawOutput # NoBuffers
      BY <1>0, <2>1, <2>2, RawOutputType
    <3>2. th'.src = th.src /\ ~ needExecutePipe(Setting, Seq0)
      BY <1>0, <1>3, <2>2, <3>1, RawStepType
    <3> QED BY <2>1, <3>2 DEF Seq0
  <2>3. Rest
    BY <2>1, <2>2
  <2> QED BY <1>1, <2>3 DEF RawStream, Seq0
<1>4. CASE SavedRaw
  <2>1. th'.pc \in {"allDone", "pop"} /\ (th'.pc = "pop" => th'.dst[r] = 0)
    BY <1>0, <1>4, SavedType
  <2>2. Rest
    BY <2>1
  <2> QED BY <1>1, <2>2 DEF RawStream, Seq0
<1>5. CASE PopQueues
  <2>1. Goto(IF needExecutePipe(Setting, Seq0) THEN "dispatch" ELSE "skip") /\ th.pc = "pop"
    BY <1>5 DEF PopQueues, ThAt
  <2>2. CASE needExecutePipe(Setting, Seq0)
    <3>1. th.dst[r] = 0 /\ th'.pc = "dispatch" /\ th'.dst = th.dst
      BY <1>0, <2>1, <2>2, GotoType DEF RawStream, Points
    <3>2. Rest
      BY <3>1
    <3> QED BY <1>1, <3>2 DEF RawStream, Seq0
  <2>3. CASE ~ needExecutePipe(Setting, Seq0)
    <3>1. th'.pc = "skip"
      BY <1>0, <2>1, <2>3, GotoType DEF Points
    <3>2. Rest
      BY <3>1
    <3> QED BY <1>1, <3>2 DEF RawStream, Seq0
  <2> QED BY <2>2, <2>3
<1>6. CASE ThreadExits \/ AllBufDone \/ SkipInput \/ SwitchFails \/ AddTask \/ start
  <2>1. \E point \in {"loop", "exited"} : th' = IdleThread(point) /\ point \in Points
    BY <1>6 DEF ThreadExits, AllBufDone, SkipInput, SwitchFails, AddTask, start, Points
  <2>2. Rest
    BY <2>1, IdleType
  <2> QED BY <1>1, <2>2 DEF RawStream, Seq0
<1>7. CASE SaveRaw
  <2>1. th'.pc = "saved"
    BY <1>0, <1>7, GotoType DEF SaveRaw, Points
  <2>2. Rest
    BY <2>1
  <2> QED BY <1>1, <2>2 DEF RawStream, Seq0
<1>8. CASE Dispatch \/ SwitchPipe \/ CheckRunning
  <2>1. /\ th.pc \in {"dispatch", "switch", "add"}
        /\ th'.pc = "loop" \/ (th'.pc \in {"switch", "add", "queue"} /\ th'.dst = th.dst)
    <3>1. CASE Dispatch \/ SwitchPipe
      <4>1. \E point \in {"switch", "add"} : Goto(point) /\ point \in Points
        BY <3>1 DEF Dispatch, SwitchPipe, Points
      <4> QED BY <1>0, <3>1, <4>1, GotoType DEF Dispatch, SwitchPipe, ThAt
    <3>2. CASE CheckRunning
      <4>1. th.pc = "add" /\ (th' = IdleThread("loop") \/ Goto("queue"))
        BY <3>2 DEF CheckRunning, Goto, ThAt
      <4> QED BY <1>0, <4>1, IdleType, GotoType DEF Points
    <3> QED BY <1>8, <3>1, <3>2
  <2>2. Rest
    BY <1>0, <2>1 DEF RawStream
  <2> QED BY <1>1, <2>2 DEF RawStream, Seq0
<1>9. CASE ~ (ProcessThread \/ start)
  <2>1. th' = th
    BY <1>9, ZenonT(30) DEF Next, vars, DagThreads, TaskStep, CountOutput, onBufferDone, FrameDone,
         EraseInflight,
         FinishTask, ForgetTask, Environment, Stopping, NextRequest, QueueOutput, onFrameAvailable,
         LoseFrame, StopProducer, StopDag, StopThread, clearBufferQueues
  <2>2. Setting' = Setting
    BY <2>1, ThreadSettingStays
  <2>3. th.pc = "raw" => Head(mOutputQueue'[r]) = Head(mOutputQueue[r])
    BY <2>1, FrontStays DEF Taking
  <2>4. Rest
    BY <1>0, <2>1, <2>2, <2>3 DEF RawStream, Seq0
  <2> QED BY <1>1, <2>4 DEF RawStream, Seq0
<1> QED BY <1>2, <1>3, <1>4, <1>5, <1>6, <1>7, <1>8, <1>9 DEF ProcessThread

-----------------------------------------------------------------------------
(* Each stream gets its buffers in the order of the requests.              *)

\* The numbers of a stream.
LEMMA StreamNumbers ==
  ASSUME TypeInv, NEW p \in Ports
  PROVE  /\ delivered[p] \in Seq(Nat) /\ mOutputQueue[p] \in Seq(Nat) /\ Top(p) \in Int
         /\ Len(delivered[p]) \in Nat /\ Len(mOutputQueue[p]) \in Nat
         /\ \A n \in DOMAIN delivered[p] : delivered[p][n] \in Nat
         /\ \A n \in DOMAIN mOutputQueue[p] : mOutputQueue[p][n] \in Nat
         /\ th.dst[p] \in Nat
         /\ \A i \in DOMAIN tasks : tasks[i].outputs[p] \in Nat
<1>1. delivered[p] \in Seq(Nat) /\ mOutputQueue[p] \in Seq(Nat) /\ th.dst[p] \in Nat /\ Top(p) \in Int
  BY QueueNumbers DEF TypeInv, QueueType, Threads
<1>2. ASSUME NEW i \in DOMAIN tasks PROVE tasks[i].outputs[p] \in Nat
  <2>1. tasks[i] \in Tasks
    BY ElementOfSeq DEF TypeInv
  <2> QED BY <2>1 DEF Tasks
<1> QED BY <1>1, <1>2

\* What is still owed shrinks or stays, and comes after what is delivered: the order stays.
LEMMA ChainMoves ==
  ASSUME NEW p \in Ports, Chain(p), tasks' \in Seq(Tasks), mOutputQueue'[p] \in Seq(Nat),
         NEW later \in SUBSET Int, DeliveredChain(p)',
         \A v \in later : AfterDelivered(p, v) => AfterDelivered(p, v)',
         NEW o \in [DOMAIN tasks' -> DOMAIN tasks],
         \A k \in DOMAIN tasks' : Owes(k, p)' =>
            /\ Owes(o[k], p) /\ tasks'[k].outputs[p] = tasks[o[k]].outputs[p]
            /\ tasks'[k].outputs[p] \in later,
         \A j, k \in DOMAIN tasks' : j < k => o[j] < o[k],
         ThreadOwes(p)' => ThreadOwes(p) /\ th'.dst[p] = th.dst[p] /\ th'.dst[p] \in later,
         NEW d \in {0, 1},
         \A n \in DOMAIN mOutputQueue'[p] :
            /\ n + d \in DOMAIN mOutputQueue[p] /\ mOutputQueue'[p][n] = mOutputQueue[p][n + d]
            /\ Queued(p, n)' => Queued(p, n + d) /\ mOutputQueue'[p][n] \in later,
         Top(p)' = Top(p), Top(p) + 1 \in later
  PROVE  Chain(p)'
<1>0. /\ DeliveredChain(p) /\ TaskChain(p) /\ ThreadChain(p) /\ QueueChain(p) /\ NextChain(p)
      /\ \A k \in DOMAIN tasks' : o[k] \in DOMAIN tasks
  BY DEF Chain
<1>1. \A v \in later : AfterDelivered(p, v) => AfterDelivered(p, v)'
  OBVIOUS
<1>2. \A v : AfterTasks(p, v) => AfterTasks(p, v)'
  BY <1>0 DEF AfterTasks
<1>3. \A v : AfterThread(p, v) => AfterThread(p, v)'
  BY DEF AfterThread
<1>5. TaskChain(p)'
  <2>1. ASSUME NEW k \in DOMAIN tasks', Owes(k, p)', NEW n \in DOMAIN delivered'[p]
        PROVE  delivered'[p][n] < tasks'[k].outputs[p]
    <3>1. PICK v \in later : v = tasks'[k].outputs[p]
      BY <2>1
    <3>2. AfterDelivered(p, v)
      BY <1>0, <2>1, <3>1 DEF TaskChain
    <3> QED BY <1>1, <2>1, <3>1, <3>2 DEF AfterDelivered
  <2>2. ASSUME NEW j \in DOMAIN tasks', NEW k \in DOMAIN tasks', j < k, Owes(j, p)', Owes(k, p)'
        PROVE  tasks'[j].outputs[p] < tasks'[k].outputs[p]
    <3>1. /\ o[j] \in DOMAIN tasks /\ o[k] \in DOMAIN tasks /\ o[j] < o[k]
          /\ Owes(o[j], p) /\ Owes(o[k], p)
          /\ tasks'[j].outputs[p] = tasks[o[j]].outputs[p]
          /\ tasks'[k].outputs[p] = tasks[o[k]].outputs[p]
      BY <1>0, <2>2
    <3> QED BY <1>0, <3>1 DEF TaskChain
  <2> QED BY <2>1, <2>2 DEF TaskChain, AfterDelivered
<1>6. ThreadChain(p)'
  <2>1. ASSUME ThreadOwes(p)', NEW v, v = th'.dst[p]
        PROVE  AfterDelivered(p, v)' /\ AfterTasks(p, v)'
    BY <1>0, <1>1, <1>2, <2>1 DEF ThreadChain
  <2> QED BY <2>1 DEF ThreadChain, AfterDelivered, AfterTasks
<1>7. QueueChain(p)'
  <2>1. ASSUME NEW n \in DOMAIN mOutputQueue'[p], Queued(p, n)', NEW v, v = mOutputQueue'[p][n]
        PROVE  AfterDelivered(p, v)' /\ AfterTasks(p, v)' /\ AfterThread(p, v)'
    <3>1. /\ n + d \in DOMAIN mOutputQueue[p] /\ Queued(p, n + d)
          /\ v = mOutputQueue[p][n + d] /\ v \in later
      BY <2>1
    <3>2. AfterDelivered(p, v) /\ AfterTasks(p, v) /\ AfterThread(p, v)
      BY <1>0, <3>1 DEF QueueChain
    <3> QED BY <1>1, <1>2, <1>3, <3>1, <3>2
  <2>2. ASSUME NEW m \in DOMAIN mOutputQueue'[p], NEW n \in DOMAIN mOutputQueue'[p],
               m < n, Queued(p, m)', Queued(p, n)'
        PROVE  mOutputQueue'[p][m] < mOutputQueue'[p][n]
    <3>1. m + d < n + d
      BY <2>2
    <3>2. /\ m + d \in DOMAIN mOutputQueue[p] /\ Queued(p, m + d)
          /\ mOutputQueue'[p][m] = mOutputQueue[p][m + d]
          /\ n + d \in DOMAIN mOutputQueue[p] /\ Queued(p, n + d)
          /\ mOutputQueue'[p][n] = mOutputQueue[p][n + d]
      BY <2>2
    <3> QED BY <1>0, <3>1, <3>2 DEF QueueChain
  <2>3. ASSUME NEW n \in DOMAIN mOutputQueue'[p], Queued(p, n)'
        PROVE  /\ \A m \in DOMAIN delivered'[p] : delivered'[p][m] < mOutputQueue'[p][n]
               /\ \A i \in DOMAIN tasks' : Owes(i, p)' => tasks'[i].outputs[p] < mOutputQueue'[p][n]
               /\ ThreadOwes(p)' => th'.dst[p] < mOutputQueue'[p][n]
    BY <2>1, <2>3 DEF AfterDelivered, AfterTasks, AfterThread
  <2> QED BY <2>2, <2>3 DEF QueueChain, AfterDelivered, AfterTasks, AfterThread
<1>8. NextChain(p)'
  <2>1. PICK v : v = Top(p) + 1
    OBVIOUS
  <2>2. AfterDelivered(p, v)' /\ AfterTasks(p, v)' /\ AfterThread(p, v)' /\ v = Top(p)' + 1
    BY <1>0, <1>1, <1>2, <1>3, <2>1 DEF NextChain
  <2>3. \A n \in DOMAIN mOutputQueue'[p] : mOutputQueue'[p][n] < v
    BY <1>0, <2>1 DEF NextChain
  <2> QED BY <2>2, <2>3 DEF NextChain, AfterDelivered, AfterTasks, AfterThread
<1> QED BY <1>5, <1>6, <1>7, <1>8 DEF Chain

\* Nothing is delivered.
LEMMA ChainKept ==
  ASSUME NEW p \in Ports, Chain(p), TypeInv, TypeInv', delivered'[p] = delivered[p],
         NEW o \in [DOMAIN tasks' -> DOMAIN tasks],
         \A k \in DOMAIN tasks' : Owes(k, p)' =>
            Owes(o[k], p) /\ tasks'[k].outputs[p] = tasks[o[k]].outputs[p],
         \A j, k \in DOMAIN tasks' : j < k => o[j] < o[k],
         ThreadOwes(p)' => ThreadOwes(p) /\ th'.dst[p] = th.dst[p],
         NEW d \in {0, 1},
         \A n \in DOMAIN mOutputQueue'[p] :
            /\ n + d \in DOMAIN mOutputQueue[p] /\ mOutputQueue'[p][n] = mOutputQueue[p][n + d]
            /\ Queued(p, n)' => Queued(p, n + d),
         Top(p)' = Top(p)
  PROVE  Chain(p)'
<1>1. DeliveredChain(p)' /\ \A v \in Int : AfterDelivered(p, v) => AfterDelivered(p, v)'
  BY DEF Chain, DeliveredChain, AfterDelivered
<1>2. /\ \A n \in DOMAIN mOutputQueue'[p] : mOutputQueue'[p][n] \in Int
      /\ \A k \in DOMAIN tasks' : tasks'[k].outputs[p] \in Int
      /\ th'.dst[p] \in Int /\ Top(p) + 1 \in Int
      /\ tasks' \in Seq(Tasks) /\ mOutputQueue'[p] \in Seq(Nat)
  <2>1. \A n \in DOMAIN mOutputQueue'[p] : mOutputQueue'[p][n] \in Int
    BY DEF TypeInv, QueueType
  <2>2. ASSUME NEW k \in DOMAIN tasks' PROVE tasks'[k].outputs[p] \in Int
    <3>1. tasks'[k] \in Tasks
      BY ElementOfSeq DEF TypeInv
    <3> QED BY <3>1 DEF Tasks
  <2>3. th'.dst[p] \in Int /\ Top(p) + 1 \in Int
    BY StreamNumbers DEF TypeInv, Threads
  <2> QED BY <2>1, <2>2, <2>3 DEF TypeInv, QueueType
<1>3. Int \in SUBSET Int
  OBVIOUS
<1> QED BY <1>1, <1>2, <1>3, ChainMoves

\* A buffer that is delivered comes before everything that is still owed.
LEMMA ChainDelivered ==
  ASSUME TypeInv, TypeInv', NEW p \in Ports, Chain(p), NEW x \in Nat,
         delivered'[p] = Append(delivered[p], x), AfterDelivered(p, x), x < Top(p) + 1,
         DOMAIN tasks' = DOMAIN tasks, mOutputQueue' = mOutputQueue,
         \A k \in DOMAIN tasks' : Owes(k, p)' =>
            Owes(k, p) /\ tasks'[k].outputs[p] = tasks[k].outputs[p] /\ x < tasks[k].outputs[p],
         ThreadOwes(p)' => ThreadOwes(p) /\ th'.dst[p] = th.dst[p] /\ x < th.dst[p],
         \A n \in DOMAIN mOutputQueue[p] : Queued(p, n)' => Queued(p, n) /\ x < mOutputQueue[p][n],
         Top(p)' = Top(p)
  PROVE  Chain(p)'
<1> DEFINE later == {v \in Int : x < v}
           o == [k \in DOMAIN tasks' |-> k]
<1>0. /\ delivered[p] \in Seq(Nat) /\ mOutputQueue[p] \in Seq(Nat) /\ Top(p) \in Int
      /\ \A n \in DOMAIN mOutputQueue[p] : mOutputQueue[p][n] \in Nat
      /\ th.dst[p] \in Nat /\ \A i \in DOMAIN tasks : tasks[i].outputs[p] \in Nat
      /\ tasks' \in Seq(Tasks)
  BY StreamNumbers DEF TypeInv
<1>1. /\ \A n \in DOMAIN delivered'[p] :
            \/ n \in DOMAIN delivered[p] /\ delivered'[p][n] = delivered[p][n] /\ n < Len(delivered[p]) + 1
            \/ n = Len(delivered[p]) + 1 /\ delivered'[p][n] = x
  BY <1>0, AppendPlaces, SMTT(30)
<1>2. DeliveredChain(p)'
  <2>1. ASSUME NEW m \in DOMAIN delivered'[p], NEW n \in DOMAIN delivered'[p], m < n
        PROVE  delivered'[p][m] < delivered'[p][n]
    <3>1. m \in DOMAIN delivered[p] /\ delivered'[p][m] = delivered[p][m]
      BY <1>0, <1>1, <2>1, SMTT(30)
    <3>2. CASE n \in DOMAIN delivered[p] /\ delivered'[p][n] = delivered[p][n]
      BY <2>1, <3>1, <3>2 DEF Chain, DeliveredChain
    <3>3. CASE delivered'[p][n] = x
      BY <3>1, <3>3 DEF AfterDelivered
    <3> QED BY <1>1, <3>2, <3>3
  <2> QED BY <2>1 DEF DeliveredChain
<1>3. ASSUME NEW v \in later, AfterDelivered(p, v) PROVE AfterDelivered(p, v)'
  BY <1>1, <1>3 DEF AfterDelivered
<1>4. o \in [DOMAIN tasks' -> DOMAIN tasks] /\ \A k \in DOMAIN tasks' : o[k] = k
  OBVIOUS
<1>5. later \in SUBSET Int /\ \A v \in Int : x < v => v \in later
  OBVIOUS
<1> HIDE DEF later, o
<1>6. \A k \in DOMAIN tasks' : Owes(k, p)' =>
        /\ Owes(o[k], p) /\ tasks'[k].outputs[p] = tasks[o[k]].outputs[p]
        /\ tasks'[k].outputs[p] \in later
  BY <1>0, <1>4, <1>5
<1>7. ThreadOwes(p)' => ThreadOwes(p) /\ th'.dst[p] = th.dst[p] /\ th'.dst[p] \in later
  BY <1>0, <1>5
<1>8. \A n \in DOMAIN mOutputQueue'[p] :
        /\ n + 0 \in DOMAIN mOutputQueue[p] /\ mOutputQueue'[p][n] = mOutputQueue[p][n + 0]
        /\ Queued(p, n)' => Queued(p, n + 0) /\ mOutputQueue'[p][n] \in later
  <2>1. \A n \in DOMAIN mOutputQueue[p] : n + 0 = n
    BY <1>0
  <2> QED BY <1>0, <1>5, <2>1
<1>9. Top(p) + 1 \in later /\ 0 \in {0, 1} /\ mOutputQueue'[p] \in Seq(Nat)
      /\ \A j, k \in DOMAIN tasks' : j < k => o[j] < o[k]
  BY <1>0, <1>4, <1>5
<1> QED BY <1>0, <1>2, <1>3, <1>4, <1>5, <1>6, <1>7, <1>8, <1>9, ChainMoves

\* The thread takes the front of the queue.
LEMMA ChainTaken ==
  ASSUME TypeInv, TypeInv', NEW p \in Ports, Chain(p), delivered'[p] = delivered[p], tasks' = tasks,
         \A i \in DOMAIN tasks : Owes(i, p)' => Owes(i, p),
         ~ RawOut(p), ~ RawOut(p)', ~ ThreadOwes(p), mOutputQueue[p] # <<>>,
         mOutputQueue'[p] = Tail(mOutputQueue[p]),
         ThreadOwes(p)' => th'.dst[p] = Head(mOutputQueue[p]),
         Top(p)' = Top(p)
  PROVE  Chain(p)'
<1> DEFINE x == Head(mOutputQueue[p])
<1>0. /\ mOutputQueue[p] \in Seq(Nat) /\ mOutputQueue'[p] \in Seq(Nat)
      /\ DeliveredChain(p) /\ TaskChain(p) /\ QueueChain(p) /\ NextChain(p)
  BY StreamNumbers DEF Chain
<1>1. /\ \A n \in DOMAIN mOutputQueue'[p] :
            n + 1 \in DOMAIN mOutputQueue[p] /\ mOutputQueue'[p][n] = mOutputQueue[p][n + 1]
      /\ 1 \in DOMAIN mOutputQueue[p] /\ x = mOutputQueue[p][1]
  BY <1>0, TailPlaces
<1>2. \A n \in DOMAIN mOutputQueue'[p] : Queued(p, n)' => Queued(p, n + 1) /\ n + 1 > 1 /\ n \in Nat
  BY <1>0, <1>1 DEF Queued
<1>3. ThreadOwes(p)' => th'.dst[p] = x /\ Queued(p, 1)
  BY <1>1 DEF ThreadOwes, Queued
<1> HIDE DEF x
<1>4. \A v : /\ AfterDelivered(p, v) => AfterDelivered(p, v)'
             /\ AfterTasks(p, v) => AfterTasks(p, v)'
  BY DEF AfterDelivered, AfterTasks
<1>5. DeliveredChain(p)'
  BY <1>0 DEF DeliveredChain
<1>6. TaskChain(p)'
  BY <1>0 DEF TaskChain, AfterDelivered
<1>7. ThreadChain(p)'
  <2>1. ASSUME ThreadOwes(p)', NEW v, v = th'.dst[p]
        PROVE  AfterDelivered(p, v)' /\ AfterTasks(p, v)'
    BY <1>0, <1>1, <1>3, <1>4, <2>1 DEF QueueChain
  <2> QED BY <2>1 DEF ThreadChain, AfterDelivered, AfterTasks
<1>8. QueueChain(p)'
  <2>1. ASSUME NEW n \in DOMAIN mOutputQueue'[p], Queued(p, n)'
        PROVE  /\ \A m \in DOMAIN delivered'[p] : delivered'[p][m] < mOutputQueue'[p][n]
               /\ \A i \in DOMAIN tasks' : Owes(i, p)' => tasks'[i].outputs[p] < mOutputQueue'[p][n]
               /\ ThreadOwes(p)' => th'.dst[p] < mOutputQueue'[p][n]
    <3>1. PICK v : v = mOutputQueue[p][n + 1] /\ v = mOutputQueue'[p][n]
      BY <1>1, <2>1
    <3>2. n + 1 \in DOMAIN mOutputQueue[p] /\ Queued(p, n + 1) /\ n + 1 > 1
      BY <1>1, <1>2, <2>1
    <3>3. AfterDelivered(p, v)' /\ AfterTasks(p, v)'
      BY <1>0, <1>4, <3>1, <3>2 DEF QueueChain
    <3>4. ASSUME ThreadOwes(p)' PROVE th'.dst[p] < v
      <4>1. 1 < n + 1 /\ Queued(p, 1) /\ th'.dst[p] = mOutputQueue[p][1]
        BY <1>0, <1>1, <1>2, <1>3, <2>1, <3>4
      <4> QED BY <1>0, <1>1, <3>1, <3>2, <4>1 DEF QueueChain
    <3> QED BY <3>1, <3>3, <3>4 DEF AfterDelivered, AfterTasks
  <2>2. ASSUME NEW m \in DOMAIN mOutputQueue'[p], NEW n \in DOMAIN mOutputQueue'[p],
               m < n, Queued(p, m)', Queued(p, n)'
        PROVE  mOutputQueue'[p][m] < mOutputQueue'[p][n]
    <3>1. m + 1 < n + 1
      BY <1>0, <2>2
    <3>2. /\ m + 1 \in DOMAIN mOutputQueue[p] /\ Queued(p, m + 1)
          /\ mOutputQueue'[p][m] = mOutputQueue[p][m + 1]
          /\ n + 1 \in DOMAIN mOutputQueue[p] /\ Queued(p, n + 1)
          /\ mOutputQueue'[p][n] = mOutputQueue[p][n + 1]
      BY <1>1, <1>2, <2>2
    <3> QED BY <1>0, <3>1, <3>2 DEF QueueChain
  <2> QED BY <2>1, <2>2 DEF QueueChain, AfterDelivered, AfterTasks, AfterThread
<1>9. NextChain(p)'
  <2>1. PICK v : v = Top(p) + 1
    OBVIOUS
  <2>2. AfterDelivered(p, v)' /\ AfterTasks(p, v)' /\ v = Top(p)' + 1
    BY <1>0, <1>4, <2>1 DEF NextChain
  <2>3. /\ \A n \in DOMAIN mOutputQueue'[p] : mOutputQueue'[p][n] < v
        /\ ThreadOwes(p)' => th'.dst[p] < v
    BY <1>0, <1>1, <1>3, <2>1 DEF NextChain
  <2> QED BY <2>2, <2>3 DEF NextChain, AfterDelivered, AfterTasks, AfterThread
<1> QED BY <1>5, <1>6, <1>7, <1>8, <1>9 DEF Chain

\* The buffer of the thread goes to a new task.
LEMMA ChainAdded ==
  ASSUME TypeInv, TypeInv', NEW p \in Ports, Chain(p), AddTask, mOpaqueRawPort' = mOpaqueRawPort,
         Top(p)' = Top(p)
  PROVE  Chain(p)'
<1> DEFINE last == Len(tasks) + 1
<1>0. /\ tasks \in Seq(Tasks) /\ delivered' = delivered /\ mOutputQueue' = mOutputQueue
      /\ th.pc = "queue" /\ th'.pc = "loop" /\ mOutputQueue[p] \in Seq(Nat)
      /\ TaskChain(p) /\ ThreadChain(p) /\ QueueChain(p) /\ NextChain(p) /\ DeliveredChain(p)
  BY IdleType, StreamNumbers, Groups DEF AddTask, TypeInv, ThAt, Points, Chain
<1>1. /\ NewTask \in Tasks /\ NewTask.input = th.src /\ NewTask.outputs = th.dst
      /\ NewTask.left = ValidPorts(th.dst) /\ NewTask.calling = {} /\ tasks' = Append(tasks, NewTask)
  BY NewTaskType DEF AddTask
<1>2. /\ \A j \in DOMAIN tasks : j \in DOMAIN tasks' /\ tasks'[j] = tasks[j] /\ j < last
      /\ \A j \in DOMAIN tasks' : j \in DOMAIN tasks \/ (j = last /\ tasks'[j] = NewTask)
      /\ last \in Nat
  BY <1>0, <1>1, AddType
<1> HIDE DEF last
<1>3. ASSUME NEW j \in DOMAIN tasks', Owes(j, p)'
      PROVE  \/ j \in DOMAIN tasks /\ Owes(j, p) /\ tasks'[j].outputs[p] = tasks[j].outputs[p]
             \/ j = last /\ ThreadOwes(p) /\ tasks'[j].outputs[p] = th.dst[p]
  <2>1. CASE j \in DOMAIN tasks
    <3>1. tasks'[j] = tasks[j]
      BY <1>2, <2>1
    <3> QED BY <1>3, <2>1, <3>1 DEF Owes, needSkipOutputFrame
  <2>2. CASE j = last /\ tasks'[j] = NewTask
    <3>1. p \in ValidPorts(th.dst) /\ ~ needSkipOutputFrame(SequenceOf(th.src))
      BY <1>1, <1>3, <2>2 DEF Owes, needSkipOutputFrame
    <3> QED BY <1>0, <1>1, <2>2, <3>1 DEF ThreadOwes, ValidPorts, Seq0
  <2> QED BY <1>2, <2>1, <2>2
<1>4. ASSUME NEW j \in DOMAIN tasks, NEW k \in DOMAIN tasks', j < k, Owes(j, p)', Owes(k, p)'
      PROVE  tasks'[j].outputs[p] < tasks'[k].outputs[p]
  <2>1. j \in DOMAIN tasks' /\ j # last
    BY <1>0, <1>2
  <2>2. Owes(j, p) /\ tasks'[j].outputs[p] = tasks[j].outputs[p]
    BY <1>3, <1>4, <2>1
  <2>3. CASE k \in DOMAIN tasks /\ Owes(k, p) /\ tasks'[k].outputs[p] = tasks[k].outputs[p]
    BY <1>0, <1>4, <2>2, <2>3 DEF TaskChain
  <2>4. CASE ThreadOwes(p) /\ tasks'[k].outputs[p] = th.dst[p]
    BY <1>0, <2>2, <2>4 DEF ThreadChain, AfterTasks
  <2> QED BY <1>3, <1>4, <2>3, <2>4
<1>5. TaskChain(p)'
  <2>1. ASSUME NEW k \in DOMAIN tasks', Owes(k, p)', NEW n \in DOMAIN delivered'[p]
        PROVE  delivered'[p][n] < tasks'[k].outputs[p]
    BY <1>0, <1>3, <2>1 DEF TaskChain, ThreadChain, AfterDelivered
  <2>2. ASSUME NEW j \in DOMAIN tasks', NEW k \in DOMAIN tasks', j < k, Owes(j, p)', Owes(k, p)'
        PROVE  tasks'[j].outputs[p] < tasks'[k].outputs[p]
    <3>1. j \in DOMAIN tasks
      <4>1. j \in Nat /\ k \in Nat /\ (k \in DOMAIN tasks \/ k = last)
        BY <1>0, <1>2, <2>2
      <4> QED BY <1>2, <2>2, <4>1
    <3> QED BY <1>4, <2>2, <3>1
  <2> QED BY <2>1, <2>2 DEF TaskChain, AfterDelivered
<1>6. ~ ThreadOwes(p)'
  BY <1>0 DEF ThreadOwes
<1>7. \A v : AfterTasks(p, v) /\ AfterThread(p, v) => AfterTasks(p, v)'
  BY <1>3 DEF AfterTasks, AfterThread
<1>8. \A n \in DOMAIN mOutputQueue[p] : Queued(p, n)' => Queued(p, n)
  BY <1>0 DEF Queued, RawOut
<1>9. QueueChain(p)'
  <2>1. ASSUME NEW n \in DOMAIN mOutputQueue[p], Queued(p, n), NEW v, v = mOutputQueue[p][n]
        PROVE  AfterDelivered(p, v) /\ AfterTasks(p, v)'
    BY <1>0, <1>7, <2>1 DEF QueueChain
  <2>2. ASSUME NEW n \in DOMAIN mOutputQueue[p], Queued(p, n)'
        PROVE  /\ \A m \in DOMAIN delivered[p] : delivered[p][m] < mOutputQueue[p][n]
               /\ \A i \in DOMAIN tasks' : Owes(i, p)' => tasks'[i].outputs[p] < mOutputQueue[p][n]
    BY <1>8, <2>1, <2>2 DEF AfterDelivered, AfterTasks
  <2>3. \A m, n \in DOMAIN mOutputQueue[p] : m < n /\ Queued(p, m)' /\ Queued(p, n)' =>
          mOutputQueue[p][m] < mOutputQueue[p][n]
    BY <1>0, <1>8 DEF QueueChain
  <2> QED BY <1>0, <1>6, <2>2, <2>3 DEF QueueChain, AfterDelivered, AfterTasks, AfterThread
<1>10. NextChain(p)'
  <2>1. PICK v : v = Top(p) + 1
    OBVIOUS
  <2>2. AfterDelivered(p, v) /\ AfterTasks(p, v)' /\ v = Top(p)' + 1
    BY <1>0, <1>7, <2>1 DEF NextChain
  <2> QED BY <1>0, <1>6, <2>1, <2>2 DEF NextChain, AfterDelivered, AfterTasks, AfterThread
<1>11. DeliveredChain(p)' /\ ThreadChain(p)'
  BY <1>0, <1>6 DEF DeliveredChain, ThreadChain
<1> QED BY <1>5, <1>9, <1>10, <1>11 DEF Chain

\* A buffer of the last request is queued.
LEMMA ChainQueued ==
  ASSUME TypeInv, TypeInv', NEW p \in Ports, Chain(p), delivered'[p] = delivered[p],
         tasks' = tasks, th' = th, mOpaqueRawPort' = mOpaqueRawPort,
         NEW x \in {0, Top(p) + 1}, mOutputQueue'[p] = Append(mOutputQueue[p], x),
         RawOut(p) => RawOut(p)', Top(p) + 1 \in Nat, Top(p)' = Top(p) + 1
  PROVE  Chain(p)'
<1> DEFINE last == Len(mOutputQueue[p]) + 1
<1>0. /\ mOutputQueue[p] \in Seq(Nat) /\ mOutputQueue'[p] \in Seq(Nat) /\ Top(p) \in Int
      /\ Top(p)' \in Int
      /\ DeliveredChain(p) /\ TaskChain(p) /\ ThreadChain(p) /\ QueueChain(p) /\ NextChain(p)
      /\ \A n \in DOMAIN delivered[p] : delivered[p][n] \in Nat
      /\ th.dst[p] \in Nat /\ \A i \in DOMAIN tasks : tasks[i].outputs[p] \in Nat
      /\ \A n \in DOMAIN mOutputQueue[p] : mOutputQueue[p][n] \in Nat
  <2>1. mOutputQueue'[p] \in Seq(Nat)
    BY DEF TypeInv, QueueType
  <2>2. Top(p) \in Int /\ Top(p)' \in Int
    BY StreamNumbers
  <2> QED BY <2>1, <2>2, StreamNumbers DEF Chain
<1>1. x \in Nat
  OBVIOUS
<1>2. /\ \A n \in DOMAIN mOutputQueue[p] :
           n \in DOMAIN mOutputQueue'[p] /\ mOutputQueue'[p][n] = mOutputQueue[p][n] /\ n < last
      /\ mOutputQueue'[p][last] = x
      /\ \A n \in DOMAIN mOutputQueue'[p] : n \in DOMAIN mOutputQueue[p] \/ n = last
      /\ last \in Nat
  BY <1>0, <1>1, AppendPlaces, SMTT(30)
<1> HIDE DEF last
<1>3. /\ \A v : AfterDelivered(p, v)' <=> AfterDelivered(p, v)
      /\ \A v : AfterTasks(p, v)' <=> AfterTasks(p, v)
      /\ \A v : AfterThread(p, v)' <=> AfterThread(p, v)
  BY DEF AfterDelivered, AfterTasks, AfterThread, Owes, ThreadOwes, needSkipOutputFrame, Seq0
<1>4. \A n \in DOMAIN mOutputQueue'[p] : Queued(p, n)' =>
        \/ n \in DOMAIN mOutputQueue[p] /\ Queued(p, n) /\ mOutputQueue'[p][n] = mOutputQueue[p][n]
        \/ n = last /\ mOutputQueue'[p][n] = Top(p) + 1
  BY <1>2 DEF Queued
<1>5. DeliveredChain(p)' /\ TaskChain(p)' /\ ThreadChain(p)'
  BY <1>0 DEF DeliveredChain, TaskChain, ThreadChain, AfterDelivered, AfterTasks, Owes, ThreadOwes,
       needSkipOutputFrame, Seq0
<1>6. QueueChain(p)'
  <2>1. ASSUME NEW n \in DOMAIN mOutputQueue'[p], Queued(p, n)', NEW v, v = mOutputQueue'[p][n]
        PROVE  AfterDelivered(p, v)' /\ AfterTasks(p, v)' /\ AfterThread(p, v)'
    <3>1. CASE n \in DOMAIN mOutputQueue[p] /\ Queued(p, n) /\ v = mOutputQueue[p][n]
      BY <1>0, <1>3, <3>1 DEF QueueChain
    <3>2. CASE v = Top(p) + 1
      BY <1>0, <1>3, <3>2 DEF NextChain
    <3> QED BY <1>4, <2>1, <3>1, <3>2
  <2>2. ASSUME NEW m \in DOMAIN mOutputQueue'[p], NEW n \in DOMAIN mOutputQueue'[p],
               m < n, Queued(p, m)', Queued(p, n)'
        PROVE  mOutputQueue'[p][m] < mOutputQueue'[p][n]
    <3>1. m \in DOMAIN mOutputQueue[p] /\ Queued(p, m) /\ mOutputQueue'[p][m] = mOutputQueue[p][m]
      <4>1. m \in Nat /\ n \in Nat
        BY <1>0
      <4>2. m # last
        BY <1>2, <2>2, <4>1
      <4> QED BY <1>4, <2>2, <4>2
    <3>2. CASE n \in DOMAIN mOutputQueue[p] /\ Queued(p, n) /\ mOutputQueue'[p][n] = mOutputQueue[p][n]
      BY <1>0, <2>2, <3>1, <3>2 DEF QueueChain
    <3>3. CASE mOutputQueue'[p][n] = Top(p) + 1
      BY <1>0, <3>1, <3>3 DEF NextChain
    <3> QED BY <1>4, <2>2, <3>2, <3>3
  <2>3. ASSUME NEW n \in DOMAIN mOutputQueue'[p], Queued(p, n)'
        PROVE  /\ \A m \in DOMAIN delivered'[p] : delivered'[p][m] < mOutputQueue'[p][n]
               /\ \A i \in DOMAIN tasks' : Owes(i, p)' => tasks'[i].outputs[p] < mOutputQueue'[p][n]
               /\ ThreadOwes(p)' => th'.dst[p] < mOutputQueue'[p][n]
    BY <2>1, <2>3 DEF AfterDelivered, AfterTasks, AfterThread
  <2> QED BY <2>2, <2>3 DEF QueueChain, AfterDelivered, AfterTasks, AfterThread
<1>7. NextChain(p)'
  <2>1. \A n \in DOMAIN mOutputQueue'[p] : mOutputQueue'[p][n] < Top(p)' + 1
    BY <1>0, <1>1, <1>2, SMTT(30) DEF NextChain
  <2>2. AfterDelivered(p, Top(p)' + 1) /\ AfterTasks(p, Top(p)' + 1) /\ AfterThread(p, Top(p)' + 1)
    BY <1>0 DEF NextChain, AfterDelivered, AfterTasks, AfterThread
  <2>3. PICK v : v = Top(p)' + 1
    OBVIOUS
  <2>4. AfterDelivered(p, v)' /\ AfterTasks(p, v)' /\ AfterThread(p, v)'
    BY <1>3, <2>2, <2>3
  <2> QED BY <2>1, <2>3, <2>4 DEF NextChain, AfterDelivered, AfterTasks, AfterThread
<1> QED BY <1>5, <1>6, <1>7 DEF Chain

\* The number of the next request of a stream.
LEMMA TopMoves ==
  ASSUME TypeInv, [Next]_vars, NEW p \in Ports
  PROVE  /\ Top(p) + 1 \in Nat
         /\ IF QueueOutput /\ p = requests.port
            THEN Top(p)' = Top(p) + 1 /\ Len(requests.list) = Top(p) + 1
            ELSE Top(p)' = Top(p)
<1>0. /\ Len(requests.list) \in Nat /\ requests.port \in 0..NumPorts /\ NumPorts \in Nat
      /\ p \in Nat /\ p # 0 /\ p <= NumPorts
  BY QueueNumbers
<1>p. Top(p) + 1 \in Nat
  BY <1>0 DEF Top
<1>1. CASE NextRequest
  <2>1. /\ requests.port = 0 /\ requests'.port = 1
        /\ Len(requests'.list) = Len(requests.list) + 1
    BY <1>1, NextRequestType
  <2>2. Top(p)' = Top(p)
    BY <1>0, <2>1 DEF Top
  <2>3. ~ QueueOutput
    BY <2>1 DEF QueueOutput
  <2> QED BY <1>p, <2>2, <2>3
<1>2. CASE QueueOutput
  <2>1. /\ requests.port \in Ports /\ requests'.list = requests.list
        /\ requests'.port = IF requests.port = NumPorts THEN 0 ELSE requests.port + 1
    BY <1>2, QueueOutputType
  <2>2. CASE p = requests.port
    BY <1>0, <1>2, <1>p, <2>1, <2>2 DEF Top, Ports
  <2>3. CASE p # requests.port
    <3>1. Top(p)' = Top(p)
      BY <1>0, <2>1, <2>3 DEF Top, Ports
    <3> QED BY <1>p, <2>3, <3>1
  <2> QED BY <2>2, <2>3
<1>3. CASE ~ (NextRequest \/ QueueOutput)
  <2>1. requests'.list = requests.list /\ requests'.port = requests.port
    <3>1. CASE StopProducer
      BY <3>1 DEF StopProducer, TypeInv, Requests
    <3>2. CASE ~ StopProducer
      BY <1>3, <3>2, Groups, ZenonT(30) DEF Next, vars, ProcessThread, waitFreeBuffersInQueue, ThreadExits,
         handleRawReprocessing, SaveRaw, SavedRaw, AllBufDone, PopQueues, SkipInput, Dispatch,
         SwitchPipe,
         SwitchFails, CheckRunning, AddTask, DagThreads, TaskStep, CountOutput, onBufferDone,
         FrameDone,
         EraseInflight, FinishTask, ForgetTask, Environment, Stopping,
         onFrameAvailable, LoseFrame, start, StopDag, StopThread, clearBufferQueues
    <3> QED BY <3>1, <3>2
  <2> QED BY <1>3, <1>p, <2>1 DEF Top
<1> QED BY <1>1, <1>2, <1>3

\* The tasks owe what they owed before.
LEMMA OwesMoves ==
  ASSUME BaseInv, [Next]_vars, ~ AddTask, NEW p \in Ports
  PROVE  \E o \in [DOMAIN tasks' -> DOMAIN tasks] :
           /\ \A k \in DOMAIN tasks' : Owes(k, p)' =>
                Owes(o[k], p) /\ tasks'[k].outputs[p] = tasks[o[k]].outputs[p]
           /\ \A j, k \in DOMAIN tasks' : j < k => o[j] < o[k]
<1>1. PICK o \in [DOMAIN tasks' -> DOMAIN tasks] :
        /\ \A k \in DOMAIN tasks' : Same(o[k], k)
        /\ \A j, k \in DOMAIN tasks' : j < k => o[j] < o[k]
  BY TaskMoves
<1>2. ASSUME NEW k \in DOMAIN tasks', Owes(k, p)'
      PROVE  Owes(o[k], p) /\ tasks'[k].outputs[p] = tasks[o[k]].outputs[p]
  <2>1. o[k] \in DOMAIN tasks /\ Same(o[k], k)
    BY <1>1
  <2>2. p \in tasks'[k].left \cup tasks'[k].calling /\ ~ needSkipOutputFrame(SequenceOf(tasks'[k].input))
    BY <1>2, RawPortStays DEF Owes, needSkipOutputFrame
  <2> QED BY <2>1, <2>2 DEF Same, Owes
<1> QED BY <1>1, <1>2

\* The thread owes what it owed, or what it takes off the queues.
LEMMA ThreadOwesMoves ==
  ASSUME BaseInv, [Next]_vars, NEW p \in Ports, ThreadOwes(p)'
  PROVE  /\ th'.dst = th.dst /\ th'.src = th.src
         /\ (ThreadOwes(p) /\ ~ AddTask /\ ~ PopQueues) \/ (PopQueues /\ PopsOutput)
<1>0. /\ TypeInv /\ th \in Threads
      /\ th'.pc \in {"dispatch", "switch", "add", "queue"} /\ th'.dst[p] # 0
      /\ ~ needSkipOutputFrame(SequenceOf(th'.src))
  BY RawPortStays DEF BaseInv, TypeInv, ThreadOwes, needSkipOutputFrame, Seq0
<1>same. ASSUME th.pc \in {"dispatch", "switch", "add", "queue"}, th'.src = th.src, th'.dst = th.dst
         PROVE  ThreadOwes(p)
  BY <1>0, <1>same DEF ThreadOwes, Seq0
<1>1. CASE Dispatch \/ SwitchPipe
  <2>1. \E point \in {"switch", "add"} : Goto(point) /\ th.pc \in {"dispatch", "switch"}
    BY <1>1 DEF Dispatch, SwitchPipe, ThAt
  <2>2. th'.src = th.src /\ th'.dst = th.dst
    BY <1>0, <2>1, GotoType DEF Points
  <2> QED BY <1>same, <2>1, <2>2 DEF AddTask, PopQueues, ThAt
<1>2. CASE CheckRunning
  <2>1. mThreadRunning
    <3>1. ASSUME ~ mThreadRunning PROVE FALSE
      BY <1>0, <1>2, <3>1, IdleType DEF CheckRunning, Points
    <3> QED BY <3>1
  <2>2. Goto("queue") /\ th.pc = "add"
    BY <1>2, <2>1 DEF CheckRunning, Goto, ThAt
  <2>3. th'.src = th.src /\ th'.dst = th.dst
    BY <1>0, <2>2, GotoType DEF Points
  <2> QED BY <1>same, <2>2, <2>3 DEF AddTask, PopQueues, ThAt
<1>3. CASE PopQueues
  <2>1. needExecutePipe(Setting, Seq0)
    <3>1. ASSUME ~ needExecutePipe(Setting, Seq0) PROVE FALSE
      BY <1>0, <1>3, <3>1, GotoType DEF PopQueues, Points
    <3> QED BY <3>1
  <2>2. Goto("dispatch")
    BY <1>3, <2>1 DEF PopQueues
  <2>3. th'.src = th.src /\ th'.dst = th.dst
    BY <1>0, <2>2, GotoType DEF Points
  <2> QED BY <1>0, <1>3, <2>1, <2>3 DEF PopsOutput, Seq0
<1>4. CASE ThreadExits \/ AllBufDone \/ SkipInput \/ SwitchFails \/ AddTask \/ start
  <2>1. \E point \in {"loop", "exited"} : th' = IdleThread(point) /\ point \in Points
    BY <1>4 DEF ThreadExits, AllBufDone, SkipInput, SwitchFails, AddTask, start, Points
  <2> QED BY <1>0, <2>1, IdleType
<1>5. CASE waitFreeBuffersInQueue \/ handleRawReprocessing \/ SavedRaw
  BY <1>0, <1>5, WaitType, RawStepType, SavedType
<1>6. CASE SaveRaw
  BY <1>0, <1>6, GotoType DEF SaveRaw, Points
<1>7. CASE ~ (ProcessThread \/ start)
  <2>1. th' = th
    BY <1>7, ZenonT(30) DEF Next, vars, DagThreads, TaskStep, CountOutput, onBufferDone, FrameDone,
         EraseInflight,
         FinishTask, ForgetTask, Environment, Stopping, NextRequest, QueueOutput, onFrameAvailable,
         LoseFrame, StopProducer, StopDag, StopThread, clearBufferQueues
  <2> QED BY <1>0, <1>7, <1>same, <2>1 DEF ProcessThread
<1> QED BY <1>1, <1>2, <1>3, <1>4, <1>5, <1>6, <1>7 DEF ProcessThread

\* A buffer that went back as a raw frame stays in its queue until the queues are popped.
LEMMA RawOutStays ==
  ASSUME BaseInv, [Next]_vars, NEW p \in Ports, RawOut(p), ~ AllBufDone, ~ PopQueues
  PROVE  RawOut(p)'
<1>0. /\ TypeInv /\ th \in Threads /\ p = mOpaqueRawPort /\ p = mOpaqueRawPort'
      /\ th.pc \in {"save", "saved", "allDone", "pop"}
      /\ Head(mOutputQueue[p]) # 0 /\ (th.pc = "pop" => th.dst[p] = 0)
  BY RawPortStays DEF BaseInv, TypeInv, RawOut, ThAt
<1>1. SUFFICES /\ th'.pc \in {"save", "saved", "allDone", "pop"}
               /\ th'.pc = "pop" => th'.dst[p] = 0
  BY <1>0, FrontStays DEF RawOut, ThAt, Taking
<1>2. CASE SaveRaw
  BY <1>0, <1>2, GotoType DEF SaveRaw, Points
<1>3. CASE SavedRaw
  BY <1>0, <1>3, SavedType
<1>4. CASE ~ (ProcessThread \/ start)
  <2>1. th' = th
    BY <1>4, ZenonT(30) DEF Next, vars, DagThreads, TaskStep, CountOutput, onBufferDone, FrameDone,
         EraseInflight,
         FinishTask, ForgetTask, Environment, Stopping, NextRequest, QueueOutput, onFrameAvailable,
         LoseFrame, StopProducer, StopDag, StopThread, clearBufferQueues
  <2> QED BY <1>0, <2>1
<1>5. ~ start
  BY <1>0 DEF start, BaseInv, ControlInv, Lifecycle, ThAt
<1>6. CASE ProcessThread /\ ~ SaveRaw /\ ~ SavedRaw
  BY <1>0, <1>6 DEF ProcessThread, waitFreeBuffersInQueue, ThreadExits, handleRawReprocessing,
       SkipInput, Dispatch, SwitchPipe, SwitchFails, CheckRunning, AddTask, ThAt
<1> QED BY <1>2, <1>3, <1>4, <1>5, <1>6

\* The setting of a part of a request's outputs is that of all.
LEMMA PartSetting ==
  ASSUME NEW list, NEW b \in [Ports -> Nat], NEW c \in [Ports -> Nat], OneRequest(b),
         \A p \in Ports : c[p] = b[p] \/ c[p] = 0, \E p \in Ports : c[p] # 0
  PROVE  SettingIn(list, c) = SettingIn(list, b)
<1>1. /\ ValidPorts(c) \in SUBSET Nat /\ ValidPorts(c) # {}
      /\ ValidPorts(b) \in SUBSET Nat /\ ValidPorts(b) # {}
  BY DEF ValidPorts, Ports
<1> DEFINE m == Min(ValidPorts(c))
           n == Min(ValidPorts(b))
<1>2. m \in ValidPorts(c) /\ n \in ValidPorts(b)
  BY <1>1, MinIn
<1>3. SettingIn(list, c) = list[c[m]].setting /\ SettingIn(list, b) = list[b[n]].setting
  BY <1>1 DEF SettingIn
<1> HIDE DEF m, n
<1>4. c[m] = b[n]
  BY <1>2 DEF ValidPorts, OneRequest
<1> QED BY <1>3, <1>4

\* Only a frame that goes through the pipe returns its buffer as a raw frame.
LEMMA RawGoes ==
  ASSUME BaseInv, RawStreamInv, OneRequest(th.dst), [Next]_vars, NEW p \in Ports,
         RawOut(p) => needExecutePipe(Setting, Seq0), RawOut(p)'
  PROVE  needExecutePipe(Setting, Seq0)'
<1>0. /\ TypeInv /\ th \in Threads /\ p = mOpaqueRawPort /\ p # 0 /\ th.dst \in [Ports -> Nat]
      /\ th'.pc \in {"save", "saved", "allDone", "pop"}
      /\ Head(mOutputQueue'[p]) # 0 /\ (th'.pc = "pop" => th'.dst[p] = 0)
  BY RawPortStays DEF BaseInv, TypeInv, RawOut, ThAt, Ports, Threads
<1>same. ASSUME th'.src = th.src, th'.dst = th.dst, needExecutePipe(Setting, Seq0)
         PROVE  needExecutePipe(Setting, Seq0)'
  BY <1>same, ThreadSettingStays DEF needExecutePipe, Seq0
<1>before. ASSUME th.pc \in {"save", "saved", "allDone", "pop"}, th.pc = "pop" => th.dst[p] = 0
           PROVE  needExecutePipe(Setting, Seq0)
  BY <1>0, <1>before, FrontStays DEF RawOut, ThAt, Taking
<1>1. CASE waitFreeBuffersInQueue
  BY <1>0, <1>1, WaitType
<1>2. CASE handleRawReprocessing
  <2>0. th.pc = "raw" /\ th'.dst = th.dst /\ th'.pc \in {"save", "pop"}
    BY <1>2, <1>0, RawStepType DEF ThAt
  <2>1. th.dst[p] # 0
    BY <1>0, <2>0, FrontStays DEF RawStreamInv, RawStream, Taking
  <2>2. th'.pc = "save"
    BY <1>0, <2>0, <2>1
  <2>3. needExecutePipe(Setting, Seq0) /\ th'.src = th.src
    BY <1>0, <1>2, <2>2, RawStepType
  <2> QED BY <1>same, <2>0, <2>3
<1>3. CASE SaveRaw
  <2>1. th.pc = "save" /\ th'.src = th.src /\ th'.dst = th.dst
    BY <1>0, <1>3, GotoType DEF SaveRaw, Points, ThAt
  <2> QED BY <1>before, <1>same, <2>1
<1>4. CASE SavedRaw
  <2>1. th.pc = "saved" /\ th'.src = th.src
    BY <1>0, <1>4, SavedType DEF ThAt
  <2>2. needExecutePipe(Setting, Seq0)
    BY <1>before, <2>1
  <2>3. CASE th'.dst = th.dst
    BY <1>same, <2>1, <2>2, <2>3
  <2>4. CASE /\ \A r \in Ports : th'.dst[r] = IF r = mOpaqueRawPort THEN 0 ELSE th.dst[r]
             /\ \E r \in Ports : th'.dst[r] # 0
    <3>1. th'.dst \in [Ports -> Nat]
      BY <1>0, <1>4, SavedType DEF Threads
    <3>2. SettingIn(requests'.list, th'.dst) = SettingIn(requests'.list, th.dst)
      BY <1>0, <2>4, <3>1, PartSetting
    <3>3. SettingIn(requests'.list, th.dst) = SettingIn(requests.list, th.dst)
      BY <1>0, SettingStays DEF BaseInv, ControlInv, AllKnown
    <3>4. Setting' = Setting
      BY <3>2, <3>3 DEF Setting, SettingIn, getSettingSequence
    <3> QED BY <2>1, <2>2, <3>4 DEF needExecutePipe, Seq0
  <2> QED BY <1>0, <1>4, <2>3, <2>4, SavedType
<1>5. CASE PopQueues \/ Dispatch \/ SwitchPipe
  <2>1. \E point \in {"dispatch", "skip", "switch", "add"} : Goto(point) /\ point \in Points
    BY <1>5 DEF PopQueues, Dispatch, SwitchPipe, Points
  <2> QED BY <1>0, <2>1, GotoType
<1>6. CASE CheckRunning
  BY <1>0, <1>6, IdleType, GotoType DEF CheckRunning, Goto, Points
<1>7. CASE ThreadExits \/ AllBufDone \/ SkipInput \/ SwitchFails \/ AddTask \/ start
  <2>1. \E point \in {"loop", "exited"} : th' = IdleThread(point) /\ point \in Points
    BY <1>7 DEF ThreadExits, AllBufDone, SkipInput, SwitchFails, AddTask, start, Points
  <2> QED BY <1>0, <2>1, IdleType
<1>8. CASE ~ (ProcessThread \/ start)
  <2>1. th' = th
    BY <1>8 DEF Next, vars, DagThreads, TaskStep, CountOutput, onBufferDone, FrameDone,
         EraseInflight,
         FinishTask, ForgetTask, Environment, Stopping, NextRequest, QueueOutput, onFrameAvailable,
         LoseFrame, StopProducer, StopDag, StopThread, clearBufferQueues
  <2> QED BY <1>0, <1>before, <1>same, <2>1
<1> QED BY <1>1, <1>2, <1>3, <1>4, <1>5, <1>6, <1>7, <1>8 DEF ProcessThread

\* Who gives a stream a buffer.
LEMMA DeliveredMoves ==
  ASSUME BaseInv, [Next]_vars, NEW p \in Ports
  PROVE  \/ delivered'[p] = delivered[p]
         \/ /\ handleRawReprocessing /\ p = mOpaqueRawPort /\ th.dst[p] # 0 /\ th'.pc = "save"
            /\ delivered'[p] = Append(delivered[p], th.dst[p])
         \/ \E i \in DOMAIN tasks :
              /\ onBufferDone(i, p) /\ ~ needSkipOutputFrame(SequenceOf(tasks[i].input))
              /\ tasks[i].outputs[p] # 0
              /\ delivered'[p] = Append(delivered[p], tasks[i].outputs[p])
<1>0. TypeInv /\ delivered \in [Ports -> Seq(Nat)] /\ tasks \in Seq(Tasks)
  BY DEF BaseInv, TypeInv, QueueType
<1>1. CASE handleRawReprocessing
  <2>1. CASE UNCHANGED delivered
    BY <2>1
  <2>2. CASE Deliver(RawOutput) /\ th'.pc = "save"
    <3>1. RawOutput \in [Ports -> Nat] /\ RawOutput[p] = IF p = mOpaqueRawPort THEN th.dst[p] ELSE 0
      BY <1>0, RawOutputType
    <3>2. delivered'[p] = IF RawOutput[p] = 0 THEN delivered[p] ELSE Append(delivered[p], RawOutput[p])
      BY <1>0, <2>2, <3>1, DeliverType
    <3> QED BY <1>1, <2>2, <3>1, <3>2
  <2> QED BY <1>0, <1>1, <2>1, <2>2, RawStepType
<1>2. ASSUME NEW i \in DOMAIN tasks, NEW q \in Ports, onBufferDone(i, q)
      PROVE  \/ delivered'[p] = delivered[p]
             \/ /\ onBufferDone(i, p) /\ ~ needSkipOutputFrame(SequenceOf(tasks[i].input))
                /\ tasks[i].outputs[p] # 0
                /\ delivered'[p] = Append(delivered[p], tasks[i].outputs[p])
  <2> DEFINE x == tasks[i].outputs[q]
             b == [NoBuffers EXCEPT ![q] = x]
  <2>1. x \in Nat
    <3>1. tasks[i] \in Tasks
      BY <1>0, ElementOfSeq
    <3> QED BY <3>1 DEF Tasks
  <2>2. CASE needSkipOutputFrame(SequenceOf(tasks[i].input))
    BY <1>2, <2>2 DEF onBufferDone
  <2>3. CASE ~ needSkipOutputFrame(SequenceOf(tasks[i].input))
    <3>1. Deliver(b)
      BY <1>2, <2>3 DEF onBufferDone
    <3> HIDE DEF x
    <3>2. b \in [Ports -> Nat] /\ \A r \in Ports : b[r] = IF r = q THEN x ELSE 0
      BY <2>1 DEF NoBuffers
    <3> HIDE DEF b
    <3>3. delivered'[p] = IF b[p] = 0 THEN delivered[p] ELSE Append(delivered[p], b[p])
      BY <1>0, <3>1, <3>2, DeliverType
    <3>4. delivered'[p] = delivered[p] \/ (p = q /\ x # 0 /\ delivered'[p] = Append(delivered[p], x))
      BY <3>2, <3>3
    <3> QED BY <1>2, <2>3, <3>4 DEF x
  <2> QED BY <2>2, <2>3
<1>3. CASE ~ (handleRawReprocessing \/ \E i \in DOMAIN tasks : \E q \in Ports : onBufferDone(i, q))
  <2>1. delivered' = delivered
    BY <1>3 DEF Next, vars, ProcessThread, waitFreeBuffersInQueue, ThreadExits,
       SaveRaw, SavedRaw, AllBufDone, PopQueues, SkipInput, Dispatch, SwitchPipe,
       SwitchFails, CheckRunning, AddTask, DagThreads, TaskStep, CountOutput, FrameDone,
       EraseInflight, FinishTask, ForgetTask, Environment, Stopping, NextRequest, QueueOutput,
       onFrameAvailable, LoseFrame, start, StopProducer, StopDag, StopThread, clearBufferQueues
  <2> QED BY <2>1
<1> QED BY <1>1, <1>2, <1>3

\* Who changes the queue of a stream.
LEMMA QueueMovesOf ==
  ASSUME BaseInv, [Next]_vars, NEW p \in Ports
  PROVE  \/ mOutputQueue'[p] = mOutputQueue[p]
         \/ QueueOutput /\ p = requests.port
         \/ AllBufDone \/ (PopQueues /\ PopsOutput)
         \/ clearBufferQueues /\ mOutputQueue'[p] = <<>>
<1>1. CASE QueueOutput
  <2>1. p # requests.port => mOutputQueue'[p] = mOutputQueue[p]
    BY <1>1, QueueOutputType DEF BaseInv
  <2> QED BY <1>1, <2>1
<1>2. CASE clearBufferQueues
  BY <1>2 DEF clearBufferQueues
<1>3. CASE ~ (QueueOutput \/ clearBufferQueues \/ AllBufDone \/ (PopQueues /\ PopsOutput))
  <2>1. mOutputQueue' = mOutputQueue
    BY <1>3, Groups, ZenonT(30) DEF Next, vars, ProcessThread, waitFreeBuffersInQueue, ThreadExits,
       handleRawReprocessing, SaveRaw, SavedRaw, PopQueues, SkipInput, Dispatch, SwitchPipe,
       SwitchFails, CheckRunning, AddTask, DagThreads, TaskStep, CountOutput, onBufferDone,
       FrameDone,
       EraseInflight, FinishTask, ForgetTask, Environment, Stopping, NextRequest,
       onFrameAvailable, LoseFrame, start, StopProducer, StopDag, StopThread
  <2> QED BY <2>1
<1> QED BY <1>1, <1>2, <1>3

\* The order of a stream stays when its raw buffer is delivered ...
LEMMA RawDelivered ==
  ASSUME BaseInv, BaseInv', ShapeInv, RawStreamInv, [Next]_vars, NEW p \in Ports, Chain(p),
         handleRawReprocessing, p = mOpaqueRawPort, th.dst[p] # 0, th'.pc = "save",
         delivered'[p] = Append(delivered[p], th.dst[p])
  PROVE  Chain(p)'
<1> DEFINE x == th.dst[p]
<1>0. /\ TypeInv /\ TypeInv' /\ th.pc = "raw" /\ th'.dst = th.dst /\ RawStream(p) /\ ~ QueueOutput
      /\ tasks' = tasks /\ mOutputQueue' = mOutputQueue /\ requests' = requests
      /\ mOutputQueue[p] \in Seq(Nat) /\ x \in Nat
  <2>1. TypeInv /\ TypeInv' /\ RawStream(p)
    BY DEF BaseInv, RawStreamInv
  <2>2. /\ th.pc = "raw" /\ tasks' = tasks /\ mOutputQueue' = mOutputQueue /\ requests' = requests
    BY Groups DEF handleRawReprocessing, ThAt
  <2>3. ~ QueueOutput
    BY <2>1, <2>2, QueueOutputType, QueueNumbers DEF TypeInv, Requests
  <2> QED BY <2>1, <2>2, <2>3, RawStepType, StreamNumbers
<1>1. mOutputQueue[p] # <<>> /\ x = Head(mOutputQueue[p])
  BY <1>0 DEF BaseInv, ControlInv, Fronts, Taking, RawStream
<1>2. 1 \in DOMAIN mOutputQueue[p] /\ x = mOutputQueue[p][1] /\ 1 \in Nat
  BY <1>0, <1>1, TailPlaces
<1>3. ~ RawOut(p) /\ RawOut(p)'
  BY <1>0, <1>1, RawPortStays DEF RawOut, ThAt
<1>4. Queued(p, 1)
  BY <1>2, <1>3 DEF Queued
<1>5. AfterDelivered(p, x) /\ x < Top(p) + 1
  BY <1>2, <1>4 DEF Chain, QueueChain, NextChain
<1>6. ASSUME NEW k \in DOMAIN tasks PROVE ~ Owes(k, p)'
  BY <1>0 DEF Owes, ShapeInv, ValidPorts, RawStream
<1>7. ~ ThreadOwes(p)'
  BY DEF ThreadOwes
<1>8. ASSUME NEW n \in DOMAIN mOutputQueue[p], Queued(p, n)'
      PROVE  Queued(p, n) /\ x < mOutputQueue[p][n]
  <2>1. n # 1 /\ Queued(p, n)
    BY <1>0, <1>3, <1>8 DEF Queued
  <2>2. 1 < n
    BY <1>0, <2>1
  <2> QED BY <1>2, <1>4, <2>1, <2>2 DEF Chain, QueueChain
<1>9. Top(p)' = Top(p)
  BY <1>0 DEF Top
<1> HIDE DEF x
<1>10. delivered'[p] = Append(delivered[p], x) /\ DOMAIN tasks' = DOMAIN tasks
  BY <1>0 DEF x
<1> QED BY <1>0, <1>5, <1>6, <1>7, <1>8, <1>9, <1>10, ChainDelivered

\* ... and when a task delivers one.
LEMMA TaskDelivered ==
  ASSUME BaseInv, BaseInv', ShapeInv, [Next]_vars, NEW p \in Ports, Chain(p),
         NEW i \in DOMAIN tasks, onBufferDone(i, p), tasks[i].outputs[p] # 0,
         ~ needSkipOutputFrame(SequenceOf(tasks[i].input)),
         delivered'[p] = Append(delivered[p], tasks[i].outputs[p])
  PROVE  Chain(p)'
<1> DEFINE x == tasks[i].outputs[p]
<1>0. /\ TypeInv /\ TypeInv' /\ tasks \in Seq(Tasks) /\ p \in tasks[i].calling
      /\ th' = th /\ mOutputQueue' = mOutputQueue /\ requests' = requests
      /\ mOpaqueRawPort' = mOpaqueRawPort /\ x \in Nat
  <2>1. TypeInv /\ TypeInv' /\ tasks \in Seq(Tasks)
    BY DEF BaseInv, TypeInv
  <2> QED BY <2>1, StreamNumbers, Groups DEF onBufferDone
<1>1. /\ DOMAIN tasks' = DOMAIN tasks
      /\ tasks'[i].calling = tasks[i].calling \ {p}
      /\ \A j \in DOMAIN tasks : j # i => tasks'[j].calling = tasks[j].calling
      /\ \A j \in DOMAIN tasks :
           /\ tasks'[j].input = tasks[j].input /\ tasks'[j].outputs = tasks[j].outputs
           /\ tasks'[j].left = tasks[j].left
  BY <1>0, DoneType
<1>2. Owes(i, p)
  BY <1>0 DEF Owes
<1>3. AfterDelivered(p, x) /\ x < Top(p) + 1
  BY <1>2 DEF Chain, TaskChain, NextChain, AfterTasks
<1>4. ASSUME NEW k \in DOMAIN tasks', Owes(k, p)'
      PROVE  Owes(k, p) /\ tasks'[k].outputs[p] = tasks[k].outputs[p] /\ x < tasks[k].outputs[p]
  <2>1. k # i
    <3>1. SUFFICES ASSUME k = i PROVE FALSE
      OBVIOUS
    <3>2. p \in tasks[i].left
      BY <1>1, <1>4, <3>1 DEF Owes
    <3> QED BY <1>0, <3>2 DEF ShapeInv
  <2>2. /\ k \in DOMAIN tasks /\ tasks'[k].calling = tasks[k].calling
        /\ tasks'[k].left = tasks[k].left /\ tasks'[k].input = tasks[k].input
        /\ tasks'[k].outputs = tasks[k].outputs
    BY <1>1, <2>1
  <2>3. Owes(k, p)
    BY <1>0, <1>4, <2>2 DEF Owes, needSkipOutputFrame
  <2>4. ~ (k < i)
    <3>1. SUFFICES ASSUME k < i PROVE FALSE
      OBVIOUS
    <3> QED BY <1>0, <2>2, <2>3, <3>1 DEF ShapeInv, Owes
  <2>5. i < k
    BY <1>0, <2>1, <2>2, <2>4
  <2> QED BY <1>2, <2>2, <2>3, <2>5 DEF Chain, TaskChain
<1>5. ThreadOwes(p)' => ThreadOwes(p) /\ th'.dst[p] = th.dst[p] /\ x < th.dst[p]
  BY <1>0, <1>2 DEF ThreadOwes, needSkipOutputFrame, Seq0, Chain, ThreadChain, AfterTasks
<1>6. ASSUME NEW n \in DOMAIN mOutputQueue[p], Queued(p, n)'
      PROVE  Queued(p, n) /\ x < mOutputQueue[p][n]
  <2>1. Queued(p, n)
    BY <1>0, <1>6 DEF Queued, RawOut, ThAt
  <2> QED BY <1>2, <2>1 DEF Chain, QueueChain, AfterTasks
<1>7. Top(p)' = Top(p)
  BY <1>0 DEF Top
<1> HIDE DEF x
<1>8. delivered'[p] = Append(delivered[p], x)
  BY DEF x
<1> QED BY <1>0, <1>1, <1>3, <1>4, <1>5, <1>6, <1>7, <1>8, ChainDelivered

\* The order of a stream stays when the queues are popped ...
LEMMA ChainPopped ==
  ASSUME NoSkipWithRaw, BaseInv, BaseInv', [Next]_vars, NEW p \in Ports, Chain(p),
         RawOut(p) => needExecutePipe(Setting, Seq0), AllBufDone \/ PopQueues
  PROVE  Chain(p)'
<1>0. /\ TypeInv /\ TypeInv' /\ ~ AddTask /\ ~ QueueOutput /\ tasks' = tasks
      /\ delivered' = delivered /\ th.pc \in {"allDone", "pop"} /\ Fronts /\ ~ ThreadOwes(p)
      /\ mOpaqueRawPort' = mOpaqueRawPort /\ mOutputQueue[p] \in Seq(Nat) /\ mOutputQueue[p] # <<>>
      /\ requests' = requests
  <2>1. TypeInv /\ TypeInv' /\ Fronts
    BY DEF BaseInv, ControlInv
  <2>2. /\ tasks' = tasks /\ delivered' = delivered /\ th.pc \in {"allDone", "pop"}
        /\ mOpaqueRawPort' = mOpaqueRawPort /\ requests' = requests
    BY Groups DEF AllBufDone, PopQueues, ThAt
  <2>3. ~ AddTask /\ ~ ThreadOwes(p) /\ Taking
    BY <2>2 DEF AddTask, ThAt, ThreadOwes, Taking
  <2>4. ~ QueueOutput
    BY <2>1, <2>2, QueueOutputType, QueueNumbers DEF TypeInv, Requests
  <2> QED BY <2>1, <2>2, <2>3, <2>4, StreamNumbers DEF Fronts
<1>top. Top(p)' = Top(p)
  BY <1>0 DEF Top
<1>raw. ~ RawOut(p)'
  <2>1. th'.pc \notin {"save", "saved", "allDone", "pop"}
    <3>1. CASE AllBufDone
      BY <3>1, IdleType DEF AllBufDone, Points
    <3>2. CASE PopQueues
      <4>1. \E point \in {"dispatch", "skip"} : Goto(point) /\ point \in Points
        BY <3>2 DEF PopQueues, Points
      <4> QED BY <1>0, <4>1, GotoType DEF TypeInv
    <3> QED BY <3>1, <3>2
  <2> QED BY <2>1 DEF RawOut
<1>o. \E o \in [DOMAIN tasks' -> DOMAIN tasks] :
        /\ \A k \in DOMAIN tasks' : Owes(k, p)' =>
             Owes(o[k], p) /\ tasks'[k].outputs[p] = tasks[o[k]].outputs[p]
        /\ \A j, k \in DOMAIN tasks' : j < k => o[j] < o[k]
  BY <1>0, OwesMoves
<1>1. CASE AllBufDone \/ (PopQueues /\ PopsOutput)
  <2>1. PopOutputs
    BY <1>1 DEF AllBufDone, PopQueues
  <2>2. mOutputQueue'[p] = Tail(mOutputQueue[p])
    BY <2>1 DEF PopOutputs
  <2>3. \A n \in DOMAIN mOutputQueue'[p] :
          /\ n + 1 \in DOMAIN mOutputQueue[p] /\ mOutputQueue'[p][n] = mOutputQueue[p][n + 1]
          /\ Queued(p, n)' => Queued(p, n + 1)
    <3>1. \A n \in DOMAIN mOutputQueue'[p] :
            n + 1 \in DOMAIN mOutputQueue[p] /\ mOutputQueue'[p][n] = mOutputQueue[p][n + 1]
      BY <1>0, <2>2, TailPlaces
    <3>2. \A n \in DOMAIN mOutputQueue'[p] : n + 1 # 1
      BY <1>0, <2>2, TailPlaces
    <3> QED BY <3>1, <3>2 DEF Queued
  <2>4. CASE ThreadOwes(p)'
    <3>1. th'.dst = th.dst /\ PopQueues
      BY <1>0, <2>4, ThreadOwesMoves
    <3>2. th.dst[p] # 0 /\ th.pc = "pop"
      BY <2>4, <3>1 DEF ThreadOwes, PopQueues, ThAt
    <3>3. ~ RawOut(p) /\ th'.dst[p] = Head(mOutputQueue[p])
      BY <1>0, <3>1, <3>2 DEF RawOut, ThAt, Fronts, Taking
    <3>4. \A i \in DOMAIN tasks : Owes(i, p)' => Owes(i, p)
      BY <1>0 DEF Owes, needSkipOutputFrame
    <3> QED BY <1>0, <1>top, <1>raw, <2>2, <3>3, <3>4, ChainTaken
  <2>5. CASE ~ ThreadOwes(p)'
    <3>1. 1 \in {0, 1} /\ delivered'[p] = delivered[p]
      BY <1>0
    <3> QED BY <1>0, <1>top, <1>o, <2>3, <2>5, <3>1, ChainKept
  <2> QED BY <2>4, <2>5
<1>2. CASE PopQueues /\ ~ PopsOutput
  <2>1. mOutputQueue' = mOutputQueue /\ ~ AllBufDone /\ th.pc = "pop"
    BY <1>2 DEF PopQueues, AllBufDone, ThAt
  <2>2. ~ RawOut(p)
    <3>1. SUFFICES ASSUME RawOut(p) PROVE FALSE
      OBVIOUS
    <3>2. p = mOpaqueRawPort /\ mOpaqueRawPort \in RawPorts \ {0}
      BY <1>0, <3>1 DEF RawOut, TypeInv, Ports
    <3>3. ~ needSkipOutputFrame(Seq0)
      BY <3>2 DEF NoSkipWithRaw, needSkipOutputFrame
    <3> QED BY <1>2, <3>1, <3>3 DEF PopsOutput
  <2>3. ~ ThreadOwes(p)'
    BY <1>0, <1>2, ThreadOwesMoves
  <2>4. \A n \in DOMAIN mOutputQueue'[p] :
          /\ n + 0 \in DOMAIN mOutputQueue[p] /\ mOutputQueue'[p][n] = mOutputQueue[p][n + 0]
          /\ Queued(p, n)' => Queued(p, n + 0)
    <3>1. \A n \in DOMAIN mOutputQueue[p] : n + 0 = n
      BY <1>0
    <3> QED BY <2>1, <2>2, <3>1 DEF Queued
  <2>5. 0 \in {0, 1} /\ delivered'[p] = delivered[p]
    BY <1>0
  <2> QED BY <1>0, <1>top, <1>o, <2>3, <2>4, <2>5, ChainKept
<1> QED BY <1>1, <1>2

\* ... when one of its buffers is queued ...
LEMMA ChainGrows ==
  ASSUME BaseInv, BaseInv', [Next]_vars, NEW p \in Ports, Chain(p), QueueOutput, p = requests.port
  PROVE  Chain(p)'
<1>0. /\ TypeInv /\ TypeInv' /\ tasks' = tasks /\ th' = th /\ delivered' = delivered
      /\ mOpaqueRawPort' = mOpaqueRawPort
  BY Groups DEF BaseInv, QueueOutput
<1>1. Top(p) + 1 \in Nat /\ Top(p)' = Top(p) + 1 /\ Len(requests.list) = Top(p) + 1
  BY <1>0, TopMoves
<1>2. PICK x \in {0, Top(p) + 1} : mOutputQueue'[p] = Append(mOutputQueue[p], x)
  BY <1>0, <1>1, QueueOutputType
<1>3. RawOut(p) => RawOut(p)'
  <2>1. ~ AllBufDone /\ ~ PopQueues
    <3>1. AllBufDone \/ PopQueues => requests' = requests
      BY Groups DEF AllBufDone, PopQueues
    <3> QED BY <1>0, <3>1, QueueOutputType, QueueNumbers, SMTT(30) DEF TypeInv, Requests
  <2> QED BY <2>1, RawOutStays
<1> QED BY <1>0, <1>1, <1>2, <1>3, ChainQueued

\* ... and in all other steps.
LEMMA ChainStep ==
  ASSUME NoSkipWithRaw, BaseInv, BaseInv', ShapeInv, RawStreamInv, [Next]_vars, NEW p \in Ports,
         Chain(p), RawOut(p) => needExecutePipe(Setting, Seq0)
  PROVE  Chain(p)'
<1>0. TypeInv /\ TypeInv' /\ mOutputQueue[p] \in Seq(Nat)
  BY StreamNumbers DEF BaseInv
<1>1. CASE AllBufDone \/ PopQueues
  BY <1>1, ChainPopped
<1>2. CASE QueueOutput /\ p = requests.port
  BY <1>2, ChainGrows
<1>3. CASE AddTask
  <2>1. ~ QueueOutput
    <3>1. requests' = requests
      BY <1>3, Groups DEF AddTask
    <3> QED BY <1>0, <3>1, QueueOutputType, QueueNumbers DEF TypeInv, Requests
  <2>2. Top(p)' = Top(p)
    BY <1>0, <2>1, TopMoves
  <2> QED BY <1>0, <1>3, <2>2, RawPortStays, ChainAdded
<1>4. CASE delivered'[p] # delivered[p]
  BY <1>4, DeliveredMoves, RawDelivered, TaskDelivered
<1>5. CASE /\ delivered'[p] = delivered[p] /\ ~ AddTask /\ ~ AllBufDone /\ ~ PopQueues
           /\ ~ (QueueOutput /\ p = requests.port)
  <2>1. PICK o \in [DOMAIN tasks' -> DOMAIN tasks] :
          /\ \A k \in DOMAIN tasks' : Owes(k, p)' =>
               Owes(o[k], p) /\ tasks'[k].outputs[p] = tasks[o[k]].outputs[p]
          /\ \A j, k \in DOMAIN tasks' : j < k => o[j] < o[k]
    BY <1>5, OwesMoves
  <2>2. ThreadOwes(p)' => ThreadOwes(p) /\ th'.dst[p] = th.dst[p]
    BY <1>5, ThreadOwesMoves
  <2>3. Top(p)' = Top(p)
    BY <1>0, <1>5, TopMoves
  <2>4. \A n \in DOMAIN mOutputQueue'[p] :
          /\ n + 0 \in DOMAIN mOutputQueue[p] /\ mOutputQueue'[p][n] = mOutputQueue[p][n + 0]
          /\ Queued(p, n)' => Queued(p, n + 0)
    <3>1. CASE mOutputQueue'[p] = <<>>
      BY <3>1
    <3>2. CASE mOutputQueue'[p] = mOutputQueue[p]
      <4>1. \A n \in DOMAIN mOutputQueue[p] : n + 0 = n
        BY <1>0
      <4>2. RawOut(p) => RawOut(p)'
        BY <1>5, RawOutStays
      <4> QED BY <3>2, <4>1, <4>2 DEF Queued
    <3> QED BY <1>5, <3>1, <3>2, QueueMovesOf
  <2>5. 0 \in {0, 1}
    OBVIOUS
  <2> QED BY <1>0, <1>5, <2>1, <2>2, <2>3, <2>4, <2>5, ChainKept
<1> QED BY <1>1, <1>2, <1>3, <1>4, <1>5

\* What each stream is still owed stays in order, while its queues are in step.
LEMMA OrderStep ==
  ASSUME NoSkipWithRaw, BaseInv, StepInv, ShapeInv, RawStreamInv, OrderInv, [Next]_vars
  PROVE  OrderInv'
<1> SUFFICES ASSUME ~ cam'.torn, NEW p \in Ports
             PROVE  Chain(p)' /\ (RawOut(p)' => needExecutePipe(Setting, Seq0)')
  BY DEF OrderInv
<1>1. ~ cam.torn /\ BaseInv'
  BY TornStays, BaseStep DEF BaseInv
<1>2. OneRequest(th.dst) /\ Chain(p) /\ (RawOut(p) => needExecutePipe(Setting, Seq0))
  BY <1>1 DEF StepInv, Together, OrderInv
<1> QED BY <1>1, <1>2, ChainStep, RawGoes

\* Every stream gets its buffers back in the order of the requests (PSysProcessor.cpp,
\* handleRawReprocessing, prepareTask and onBufferDone), each at most once, as long as no
\* frame is skipped in a configuration with an opaque raw stream.
THEOREM StreamsGetOrder ==
  ASSUME NoSkipWithRaw
  PROVE  Spec => []DeliveredInOrder
<1> DEFINE Inv == BaseInv /\ StepInv /\ ShapeInv /\ RawStreamInv /\ OrderInv
<1>1. Init => Inv
  <2> SUFFICES ASSUME Init PROVE Inv
    OBVIOUS
  <2>1. BaseInv /\ StepInv
    BY BaseInit, StepInit
  <2>2. /\ th = IdleThread("exited") /\ tasks = <<>> /\ "exited" \in Points
        /\ delivered = [p \in Ports |-> <<>>] /\ mOutputQueue = [p \in Ports |-> <<>>]
        /\ requests.port = 0 /\ requests.list = <<>>
    BY DEF Init, Points
  <2>3. th.pc = "exited" /\ DOMAIN tasks = {}
    BY <2>2, IdleType
  <2>4. ShapeInv /\ RawStreamInv
    BY <2>3 DEF ShapeInv, RawStreamInv, RawStream
  <2>5. ASSUME NEW p \in Ports PROVE Chain(p) /\ ~ RawOut(p)
    <3>1. DOMAIN delivered[p] = {} /\ DOMAIN mOutputQueue[p] = {} /\ ~ ThreadOwes(p) /\ ~ RawOut(p)
      BY <2>2, <2>3 DEF ThreadOwes, RawOut
    <3> QED BY <2>3, <3>1 DEF Chain, DeliveredChain, TaskChain, ThreadChain, QueueChain, NextChain,
               AfterDelivered, AfterTasks, AfterThread
  <2> QED BY <2>1, <2>4, <2>5 DEF OrderInv
<1>2. Inv /\ [Next]_vars => Inv'
  BY BaseStep, StepInvStep, ShapeStep, RawStreamStep, OrderStep
<1>3. Inv => DeliveredInOrder
  BY DEF OrderInv, Chain, DeliveredChain, DeliveredInOrder, BaseInv, TypeInv, QueueType
<1> QED BY <1>1, <1>2, <1>3, PTL DEF Spec
=============================================================================
