--------------------------- MODULE PSysDAG_proofs ---------------------------
(***************************************************************************)
(* What the module PSysDAG promises for every number of streams, executors, *)
(* ports, tasks, buffers and sessions: the members keep their types, the    *)
(* buffers of a link are conserved, also over stop() and start(), the       *)
(* executors that sleep in PolicyManager are counted, and the ones of a     *)
(* bundle run together.  As long as its callers queue no user buffer twice  *)
(* and add no task while it stops, every buffer finds its task, the DAG     *)
(* implements TaskPipeline, and, when the parameter queue is long enough,   *)
(* the parameters a frame is run with stay.                                 *)
(*                                                                         *)
(* The invariants are inductive in layers: TypeInv for itself, then EndInv  *)
(* (how the threads end), SleepInv and CountInv (who sleeps), RunInv (how   *)
(* often each has run), LinkInv (where the buffers of a link are), on top   *)
(* of these OrderInv (which frame of which task is where), and on that      *)
(* ParamInv (which buffer of the parameter queue is of which task).         *)
(***************************************************************************)
EXTENDS PSysDAG, FiniteSetTheorems, SequenceTheorems, WellFoundedInduction, TLAPS

-----------------------------------------------------------------------------
(* The inductive invariants.                                               *)

TaskInv  == TaskType /\ Len(tasks) <= MaxTasks
PalInv   == PalType /\ \A s \in Streams : ispParam[s].data # {}
AdderInv == ad \in Adders /\ (ad.pc # "idle" => tasks # <<>>)
\* An executor that has a frame in work knows its sequence
SeqInv == \A e \in Executors :
    ex[e].pc \in {"wait", "sleep", "pal", "run"} => ex[e].seq \in Sequences0
TypeInv ==
    /\ TaskInv /\ PalInv /\ AdderInv /\ QueueType /\ SeqInv
    /\ ex \in [Executors -> Threads] /\ policy \in Policies /\ dag \in Dags

\* A thread has ended before its executor is joined, and ends after notifyStop
Ended(e) == ex[e].pc \in {"exited", "dead"}
EndInv ==
    /\ dag.state # "stopped" => dag.session # 0
    /\ dag.state = "join" =>
         \A e \in Executors : ~ ex[e].running /\ (e \in dag.left \/ Ended(e))
    /\ dag.state = "stopped" => \A e \in Executors : Ended(e)

\* Who may sleep: an executor of the bundle, while the policy is active
Asleep == {e \in Executors : ExAt(e, "sleep")}
SleepInv ==
    /\ \A e \in Executors : ex[e].pc \in {"wait", "sleep"} => e \in Bundle
    /\ ~ policy.mIsActive => Asleep = {}
    /\ dag.state \in {"notify", "join"} => ~ policy.mIsActive

\* The count is exact until a wait times out
CountInv ==
    /\ Cardinality(Asleep) <= policy.mWaitingCount
    /\ ~ policy.timedOut => policy.mWaitingCount = Cardinality(Asleep)
    /\ Bundle # {} => policy.mWaitingCount < Cardinality(Bundle)

\* The frames an executor has been let through, its depth added
Passed(e) == (policy.mRunCount[e] - (IF ExAt(e, "sleep") THEN 1 ELSE 0)) + BundleDepth[e]
RunInv ==
    /\ \A e \in Bundle : ExAt(e, "sleep") => Passed(e) >= MaxDepth
    /\ ~ policy.timedOut =>
         \A e, f \in Bundle : Passed(e) <= MaxDepth \/ Passed(e) <= Passed(f)

\* Where the buffers of the link after e are.  Once e is joined its queue is empty, and
\* the frame in the hands of the consumer is all that can still come back to it.
Busy(e) == IF ex[e].pc \in {"loop", "exited", "dead"} THEN 0 ELSE 1
Extra == IF dag.session = 1 THEN 0 ELSE 1
InUse(e) == dag.state \in {"running", "notify"} \/ (dag.state = "join" /\ e \in dag.left)
Link(e) ==
    /\ InUse(e) => InterBuffers(e) \in NumInter..(NumInter + Extra)
    /\ dag.state = "join" /\ e \notin dag.left => free[e] + Busy(Consumer(e)) <= 1
    /\ dag.state = "join" /\ Consumer(e) \notin dag.left =>
         e \notin dag.left /\ mInputQueue[Consumer(e)] = <<>>
    /\ dag.state = "stopped" =>
         /\ free[e] <= (IF dag.session = 0 THEN 0 ELSE 1)
         /\ mInputQueue[Consumer(e)] = <<>>
LinkInv == \A e \in Executors : IsOutputEdge(e) \/ Link(e)

-----------------------------------------------------------------------------
(* Least and greatest elements.                                            *)

\* A set of natural numbers that is not empty has a least element.
LEMMA LeastNatural ==
  ASSUME NEW S \in SUBSET Nat, S # {}
  PROVE  \E x \in S : \A y \in S : x <= y
<1>1. PICK x \in S : \A y \in S : <<y, x>> \notin OpToRel(<, Nat)
  BY NatLessThanWellFounded, WFMin
<1>2. OpToRel(<, Nat) = {r \in Nat \X Nat : r[1] < r[2]}
  BY Zenon DEF OpToRel
<1>3. \A y \in S : ~ (y < x)
  BY <1>1, <1>2
<1> QED BY <1>3

\* Min() is the least element of a set of integers with a lower bound: the keys of
\* mSequenceToDataMap, or the places of mOngoingTasks.
LEMMA MinIsLeast ==
  ASSUME NEW b \in Nat, NEW S \in SUBSET Int, S # {}, \A x \in S : x >= -b
  PROVE  Min(S) \in S /\ \A y \in S : Min(S) <= y
<1> DEFINE T == {t \in Nat : t - b \in S}
<1>1. ASSUME NEW y \in S PROVE y + b \in T /\ (y + b) - b = y
  <2>1. y >= -b /\ y \in Int
    OBVIOUS
  <2>2. y + b \in Nat /\ (y + b) - b = y
    BY <2>1
  <2> QED BY <2>2
<1>2. T # {}
  BY <1>1
<1>3. PICK t \in T : \A u \in T : t <= u
  BY <1>2, LeastNatural
<1>4. t - b \in S /\ t \in Nat
  OBVIOUS
<1>5. ASSUME NEW y \in S PROVE t - b <= y
  <2>1. t <= y + b /\ y \in Int
    BY <1>1, <1>3
  <2> QED BY <1>4, <2>1
<1>6. \E x \in S : \A y \in S : x <= y
  BY <1>4, <1>5
<1> QED BY <1>6 DEF Min

\* The values of a finite sequence of natural numbers are bounded, if those of shorter
\* ones are.
LEMMA OneMoreBounded ==
  ASSUME NEW n \in Nat, n # 0, NEW f \in [1..n -> Nat],
         \A g \in [1..(n - 1) -> Nat] : \E b \in Nat : \A i \in 1..(n - 1) : g[i] <= b
  PROVE  \E b \in Nat : \A i \in 1..n : f[i] <= b
<1>1. [i \in 1..(n - 1) |-> f[i]] \in [1..(n - 1) -> Nat]
  OBVIOUS
<1>2. PICK b \in Nat : \A i \in 1..(n - 1) : [j \in 1..(n - 1) |-> f[j]][i] <= b
  BY <1>1
<1>3. \A i \in 1..(n - 1) : f[i] <= b
  BY <1>2
<1> DEFINE v == f[n]
<1>4. v \in Nat /\ (\A i \in 1..n : i = n \/ i \in 1..(n - 1)) /\ \A i \in 1..n : f[i] \in Nat
  OBVIOUS
<1>5. \A i \in 1..n : f[i] = v \/ f[i] <= b
  BY <1>3, <1>4
<1> HIDE DEF v
<1>6. b + v \in Nat /\ \A x \in Nat : x = v \/ x <= b => x <= b + v
  BY <1>4
<1> QED BY <1>4, <1>5, <1>6

\* The values of a finite sequence of natural numbers are bounded.
LEMMA FiniteBounded ==
  \A n \in Nat : \A f \in [1..n -> Nat] : \E b \in Nat : \A i \in 1..n : f[i] <= b
<1> DEFINE Bounded(n) == \A f \in [1..n -> Nat] : \E b \in Nat : \A i \in 1..n : f[i] <= b
           L == {n \in Nat : ~ Bounded(n)}
<1>1. Bounded(0)
  OBVIOUS
<1>2. ASSUME NEW n \in Nat, n # 0, Bounded(n - 1) PROVE Bounded(n)
  BY <1>2, OneMoreBounded
<1> HIDE DEF Bounded
<1>3. ASSUME L # {} PROVE FALSE
  <2>1. PICK n \in L : \A m \in L : n <= m
    BY <1>3, LeastNatural
  <2>2. n \in Nat /\ ~ Bounded(n)
    OBVIOUS
  <2>3. n # 0
    BY <1>1, <2>2
  <2>4. n - 1 \in Nat /\ ~ (n <= n - 1)
    BY <2>2, <2>3
  <2>5. Bounded(n - 1)
    BY <2>1, <2>4
  <2> QED BY <1>2, <2>2, <2>3, <2>5
<1>4. \A n \in Nat : Bounded(n)
  BY <1>3
<1> QED BY <1>4 DEF Bounded

\* Max() is the greatest element of a set of natural numbers with an upper bound.
LEMMA MaxIsGreatest ==
  ASSUME NEW S \in SUBSET Nat, S # {}, NEW b \in Nat, \A y \in S : y <= b
  PROVE  Max(S) \in S /\ \A y \in S : Max(S) >= y
<1> DEFINE T == {t \in Nat : b - t \in S}
<1>1. ASSUME NEW y \in S PROVE b - y \in T /\ b - (b - y) = y
  <2>1. y <= b /\ y \in Nat
    OBVIOUS
  <2>2. b - y \in Nat /\ b - (b - y) = y
    BY <2>1
  <2> QED BY <2>2
<1>2. T # {}
  BY <1>1
<1>3. PICK t \in T : \A u \in T : t <= u
  BY <1>2, LeastNatural
<1>4. b - t \in S /\ t \in Nat
  OBVIOUS
<1>5. ASSUME NEW y \in S PROVE b - t >= y
  <2>1. t <= b - y /\ y \in Nat
    BY <1>1, <1>3
  <2> QED BY <1>4, <2>1
<1>6. \E x \in S : \A y \in S : x >= y
  BY <1>4, <1>5
<1> QED BY <1>6 DEF Max

\* RemoveAt() gives a sequence of the same elements, one shorter.
LEMMA RemoveAtType ==
  ASSUME NEW S, NEW s \in Seq(S), NEW i \in DOMAIN s
  PROVE  RemoveAt(s, i) \in Seq(S)
<1>1. SubSeq(s, 1, i - 1) \in Seq(S) /\ SubSeq(s, i + 1, Len(s)) \in Seq(S)
  OBVIOUS
<1> QED BY <1>1, ConcatProperties DEF RemoveAt

\* A sequence of some elements is one of more.
LEMMA SeqOfMore ==
  ASSUME NEW S, NEW T, S \subseteq T, NEW s \in Seq(S)
  PROVE  s \in Seq(T)
<1>1. Len(s) \in Nat /\ s \in [1..Len(s) -> S]
  OBVIOUS
<1>2. s \in [1..Len(s) -> T]
  BY <1>1
<1> QED BY <1>1, <1>2, SeqDef

\* A queue of a table gets one element more.
LEMMA AppendAt ==
  ASSUME NEW D, NEW S, NEW f \in [D -> Seq(S)], NEW i, NEW v \in S
  PROVE  [f EXCEPT ![i] = Append(@, v)] \in [D -> Seq(S)]
<1>1. ASSUME i \in D PROVE Append(f[i], v) \in Seq(S)
  BY <1>1
<1> QED BY <1>1

-----------------------------------------------------------------------------
(* The types of what the actions assign.                                   *)

\* What the assumption says of the numbers.
LEMMA Constants ==
  /\ MaxTasks \in Nat /\ MaxSequence = MaxTasks /\ PalSize \in Nat /\ PalSize # 0
  /\ NumInter \in Nat /\ Cardinality(Bundle) \in Nat
  BY DagAssumption, FS_CardinalityType DEF MaxTasks, MaxSequence

\* NoNode is a node.
LEMMA NoNodeType == NoNode \in Nodes
<1>1. -1 \in -(PalSize + 1)..MaxSequence /\ 0 \in 0..PalSize
  BY Constants
<1> QED BY <1>1 DEF NoNode, Nodes

\* The points of a thread of an executor
Points == {"loop", "wait", "sleep", "pal", "run", "count", "callback", "task", "return",
           "exited", "dead"}

\* A thread at a point with nothing in its hands is a thread, and not running.
LEMMA IdleExecutorType ==
  ASSUME NEW point \in Points
  PROVE  /\ IdleExecutor(point) \in Threads
         /\ IdleExecutor(point).pc = point /\ ~ IdleExecutor(point).running
<1>1. [p \in Ports |-> 0] \in [Ports -> 0..MaxTasks]
  BY Constants
<1> QED BY <1>1, NoNodeType, Constants DEF IdleExecutor, Threads, Points, Sequences0

\* A thread with other values in some fields.
LEMMA ThreadExcept ==
  ASSUME NEW t \in Threads
  PROVE  /\ \A point \in Points : /\ [t EXCEPT !.pc = point] \in Threads
                                  /\ [t EXCEPT !.pc = point].pc = point
                                  /\ [t EXCEPT !.pc = point].running = t.running
                                  /\ [t EXCEPT !.pc = point].seq = t.seq
         /\ \A run \in BOOLEAN : /\ [t EXCEPT !.running = run] \in Threads
                                 /\ [t EXCEPT !.running = run].pc = t.pc
                                 /\ [t EXCEPT !.running = run].seq = t.seq
                                 /\ [t EXCEPT !.running = run].running = run
  BY DEF Threads, Points

\* The steps of an executor e leave the others alone; t is what it becomes.
LEMMA OneThread ==
  ASSUME NEW e \in Executors, ex \in [Executors -> Threads], NEW t \in Threads
  PROVE  /\ [ex EXCEPT ![e] = t] \in [Executors -> Threads]
         /\ [ex EXCEPT ![e] = t][e] = t
         /\ \A f \in Executors : f # e => [ex EXCEPT ![e] = t][f] = ex[f]
  OBVIOUS

\* ExGoto changes the point of one thread only.
LEMMA Goto ==
  ASSUME NEW e \in Executors, ex \in [Executors -> Threads], NEW point \in Points,
         ExGoto(e, point)
  PROVE  /\ ex' \in [Executors -> Threads]
         /\ ex'[e].pc = point /\ ex'[e].running = ex[e].running /\ ex'[e].seq = ex[e].seq
         /\ \A f \in Executors : f # e => ex'[f] = ex[f]
<1>1. ex' = [ex EXCEPT ![e] = [ex[e] EXCEPT !.pc = point]]
  BY DEF ExGoto
<1>2. ex[e] \in Threads
  OBVIOUS
<1>3. [ex[e] EXCEPT !.pc = point] \in Threads
  BY <1>2, ThreadExcept
<1>4. [ex[e] EXCEPT !.pc = point].pc = point /\ [ex[e] EXCEPT !.pc = point].running = ex[e].running
      /\ [ex[e] EXCEPT !.pc = point].seq = ex[e].seq
  BY <1>2, ThreadExcept
<1>5. /\ ex' \in [Executors -> Threads] /\ ex'[e] = [ex[e] EXCEPT !.pc = point]
      /\ \A f \in Executors : f # e => ex'[f] = ex[f]
  BY <1>1, <1>3, OneThread
<1> QED BY <1>4, <1>5

\* After notifyFrameDone an executor returns its input, if it has a producer.
LEMMA AfterNotifyType ==
  ASSUME NEW e \in Executors, ex \in [Executors -> Threads]
  PROVE  /\ AfterNotify(e) \in Threads /\ AfterNotify(e).running = ex[e].running
         /\ AfterNotify(e).pc = IF IsInputEdge(e) THEN "loop" ELSE "return"
<1> DEFINE point == IF IsInputEdge(e) THEN "loop" ELSE "return"
           t == IdleExecutor(point)
<1>1. point \in Points
  BY DEF Points
<1>2. t \in Threads /\ t.pc = point /\ ex[e].running \in BOOLEAN
  BY <1>1, IdleExecutorType DEF Threads
<1>3. AfterNotify(e) = [t EXCEPT !.running = ex[e].running]
  BY DEF AfterNotify
<1> HIDE DEF t, point
<1>4. AfterNotify(e) \in Threads /\ AfterNotify(e).running = ex[e].running /\ AfterNotify(e).pc = point
  BY <1>2, <1>3, ThreadExcept
<1> QED BY <1>4 DEF point

\* After a port an executor counts the next one, or is through.
LEMMA NextPortType ==
  ASSUME NEW e \in Executors, ex \in [Executors -> Threads]
  PROVE  /\ NextPort(e) \in Threads /\ NextPort(e).running = ex[e].running
         /\ NextPort(e).pc \in {"count", "return"} \/ (IsInputEdge(e) /\ NextPort(e).pc = "loop")
<1>1. CASE ex[e].left = {CurrentPort(e)}
  BY <1>1, AfterNotifyType DEF NextPort
<1>2. CASE ex[e].left # {CurrentPort(e)}
  <2> DEFINE t == ex[e]
             t2 == [t EXCEPT !.pc = "count", !.left = @ \ {CurrentPort(e)},
                             !.task = 0, !.complete = FALSE, !.pal = NoNode]
  <2>1. NextPort(e) = t2
    BY <1>2 DEF NextPort
  <2>2. t \in Threads /\ NoNode \in Nodes /\ 0 \in 0..MaxTasks
    BY NoNodeType, Constants
  <2> HIDE DEF t
  <2>3. t2 \in Threads /\ t2.pc = "count" /\ t2.running = t.running
    BY <2>2 DEF Threads
  <2> QED BY <2>1, <2>3 DEF t
<1> QED BY <1>1, <1>2

\* runIspAdapt writes the buffer of a node of the map.
LEMMA NodeToWriteType ==
  ASSUME NEW param, param.data \subseteq Nodes, param.data # {}, NEW seq \in Int
  PROVE  NodeToWrite(param, seq) \in param.data
<1>1. Keys(param) \in SUBSET Int /\ Keys(param) # {} /\ \A k \in Keys(param) : k >= -(PalSize + 1)
  BY Constants DEF Keys, Nodes
<1>2. PalSize + 1 \in Nat
  BY Constants
<1>3. Min(Keys(param)) \in Keys(param)
  BY <1>1, <1>2, MinIsLeast
<1> DEFINE key == IF seq >= 0 /\ seq \in Keys(param) THEN seq ELSE Min(Keys(param))
<1>4. key \in Keys(param)
  BY <1>3
<1> HIDE DEF key
<1>5. \E node \in param.data : node.key = key
  BY <1>4 DEF Keys
<1>6. NodeToWrite(param, seq) = CHOOSE node \in param.data : node.key = key
  BY DEF NodeToWrite, key
<1> QED BY <1>5, <1>6

\* getIpuParameter returns a node of the map, or none.
LEMMA GetParameterType ==
  ASSUME NEW param, NEW seq, param.data \subseteq Nodes
  PROVE  getIpuParameter(param, seq) \in Nodes
<1>1. CASE seq \notin DOMAIN param.ids \/ param.ids[seq] \notin Keys(param)
  BY <1>1, NoNodeType DEF getIpuParameter
<1>2. CASE ~ (seq \notin DOMAIN param.ids \/ param.ids[seq] \notin Keys(param))
  <2> DEFINE key == param.ids[seq]
             Wanted(node) == /\ node.key = key
                             /\ \/ node.valid
                                \/ \A other \in param.data : other.key = node.key => ~other.valid
  <2>1. PICK first \in param.data : first.key = key
    BY <1>2 DEF Keys
  <2>2. \E node \in param.data : Wanted(node)
    <3>1. CASE \E other \in param.data : other.key = key /\ other.valid
      BY <3>1
    <3>2. CASE ~ \E other \in param.data : other.key = key /\ other.valid
      BY <2>1, <3>2
    <3> QED BY <3>1, <3>2
  <2>3. getIpuParameter(param, seq) = CHOOSE node \in param.data : Wanted(node)
    BY <1>2 DEF getIpuParameter
  <2> HIDE DEF Wanted
  <2> QED BY <2>2, <2>3
<1> QED BY <1>1, <1>2

\* runIspAdapt keeps the nodes of the map nodes, and at least one.
LEMMA AfterPalType ==
  ASSUME NEW param, param.data \subseteq Nodes, param.data # {}, NEW seq \in Sequences0,
         NEW node \in Nodes
  PROVE  /\ AfterRun(param, PalSize, seq, node).data \subseteq Nodes
         /\ AfterRun(param, PalSize, seq, node).data # {}
         /\ AfterNoRun(param, PalSize, seq, node).data \subseteq Nodes
         /\ AfterNoRun(param, PalSize, seq, node).data # {}
<1>1. ASSUME NEW v \in BOOLEAN PROVE [key |-> seq, buf |-> node.buf, valid |-> v] \in Nodes
  BY Constants DEF Nodes, Sequences0
<1>2. AfterRun(param, PalSize, seq, node).data =
        (param.data \ {node}) \cup {[key |-> seq, buf |-> node.buf, valid |-> TRUE]}
  BY DEF AfterRun
<1>3. \/ AfterNoRun(param, PalSize, seq, node).data = param.data
      \/ AfterNoRun(param, PalSize, seq, node).data =
           param.data \cup {[key |-> seq, buf |-> node.buf, valid |-> FALSE]}
  BY DEF AfterNoRun
<1> QED BY <1>1, <1>2, <1>3

\* The newest task, while addTask is at work.
LEMMA NewestType ==
  ASSUME TaskInv, tasks # <<>>
  PROVE  /\ Newest \in DOMAIN tasks /\ Newest \in 1..MaxTasks
         /\ tasks[Newest].ports \subseteq Ports
         /\ LastSequence = tasks[Newest].seq /\ LastSequence \in Sequences0
<1>1. tasks \in Seq([ports : SUBSET Ports, seq : Sequences0]) /\ Len(tasks) <= MaxTasks
  BY DEF TaskInv, TaskType
<1>2. Len(tasks) \in 1..Len(tasks)
  BY <1>1
<1>3. tasks[Len(tasks)] \in [ports : SUBSET Ports, seq : Sequences0]
  BY <1>1, <1>2, ElementOfSeq
<1> QED BY <1>1, <1>2, <1>3, Constants DEF Newest, LastSequence

\* After a stream prepareIpuParams has a next one, or queues the inputs.
LEMMA AfterAdaptType ==
  ASSUME NEW s, ad \in Adders
  PROVE  AfterAdapt(s) \in Adders
<1> DEFINE t == IdleAdder
<1>1. t \in Adders
  BY NoNodeType DEF IdleAdder, Adders
<1>2. ad.todo \ {s} \subseteq Streams \cup Ports /\ getActiveStreamIds(Newest) \subseteq Streams
  BY DEF Adders, getActiveStreamIds, StreamsOf
<1> HIDE DEF t
<1>3. ASSUME NEW point \in {"adapt", "inputs"}, NEW S \in SUBSET (Streams \cup Ports)
      PROVE  [t EXCEPT !.pc = point, !.todo = S] \in Adders
  BY <1>1 DEF Adders
<1>4. AfterAdapt(s) = [t EXCEPT !.pc = "adapt", !.todo = ad.todo \ {s}]
      \/ AfterAdapt(s) = [t EXCEPT !.pc = "inputs", !.todo = getActiveStreamIds(Newest)]
  BY DEF AfterAdapt, t
<1> QED BY <1>2, <1>3, <1>4

-----------------------------------------------------------------------------
(* The types, action by action.                                            *)

\* A task that is added has a sequence and ports, and is the newest.
LEMMA AddTaskType ==
  ASSUME TypeInv, AddTask
  PROVE  TypeInv'
<1> DEFINE TaskSet == [ports : SUBSET Ports, seq : Sequences0]
<1>1. PICK kind \in TaskKinds[Newest + 1] : \E step \in SequenceSteps :
         /\ LastSequence + step \in 0..MaxSequence
         /\ tasks' = Append(tasks, [ports |-> kind, seq |-> LastSequence + step])
         /\ ad' = [IdleAdder EXCEPT !.pc = "adapt", !.todo = StreamsOf(kind)]
  BY DEF AddTask
<1>2. PICK seq \in Sequences0 :
         /\ tasks' = Append(tasks, [ports |-> kind, seq |-> seq])
         /\ ad' = [IdleAdder EXCEPT !.pc = "adapt", !.todo = StreamsOf(kind)]
  BY <1>1 DEF Sequences0
<1>3. tasks \in Seq(TaskSet) /\ Len(tasks) < MaxTasks /\ Len(tasks) \in Nat
  BY DEF TypeInv, TaskInv, TaskType, AddTask, Newest
<1>4. kind \subseteq Ports
  <2>1. Newest + 1 \in 1..Len(TaskKinds)
    BY <1>3, Constants DEF Newest, MaxTasks
  <2>2. TaskKinds[Newest + 1] \subseteq (SUBSET Ports) \ {{}}
    BY <2>1, DagAssumption
  <2> QED BY <2>2
<1>5. tasks' \in Seq(TaskSet) /\ Len(tasks') = Len(tasks) + 1
  BY <1>2, <1>3, <1>4
<1>6. Len(tasks') <= MaxTasks /\ tasks' # <<>> /\ DOMAIN tasks' = 1..(Len(tasks) + 1)
      /\ DOMAIN tasks = 1..Len(tasks)
  BY <1>3, <1>5, Constants
<1>7. mOngoingTasks' \in Seq([n : DOMAIN tasks', returned : Nat])
  <2>1. mOngoingTasks \in Seq([n : DOMAIN tasks, returned : Nat])
    BY DEF TypeInv, TaskInv, TaskType
  <2>2. [n : DOMAIN tasks, returned : Nat] \subseteq [n : DOMAIN tasks', returned : Nat]
    BY <1>3, <1>6
  <2>3. mOngoingTasks \in Seq([n : DOMAIN tasks', returned : Nat])
    BY <2>1, <2>2, SeqOfMore
  <2>4. [n |-> Newest + 1, returned |-> 0] \in [n : DOMAIN tasks', returned : Nat]
    BY <1>3, <1>6 DEF Newest
  <2> QED BY <2>3, <2>4 DEF AddTask
<1>8. TaskInv'
  BY <1>5, <1>6, <1>7 DEF TaskInv, TaskType
<1>9. AdderInv'
  <2> DEFINE t == IdleAdder
  <2>1. t \in Adders /\ StreamsOf(kind) \subseteq Streams
    BY NoNodeType DEF IdleAdder, Adders, StreamsOf
  <2>2. ad' = [t EXCEPT !.pc = "adapt", !.todo = StreamsOf(kind)]
    BY <1>2
  <2> HIDE DEF t
  <2>3. ad' \in Adders
    BY <2>1, <2>2 DEF Adders
  <2> QED BY <1>6, <2>3 DEF AdderInv
<1> QED BY <1>8, <1>9 DEF TypeInv, AddTask, palVars, queueVars, PalInv, PalType, QueueType, SeqInv

\* prepareIpuParams keeps the types: it writes nodes for the sequence of the newest task.
LEMMA AdapterType ==
  ASSUME TypeInv, NEW s \in Streams, PalDone(s) \/ runIspAdapt(s) \/ PalWritten(s)
  PROVE  TypeInv'
<1>1. TaskInv /\ tasks # <<>> /\ ad \in Adders /\ PalInv
  BY DEF TypeInv, AdderInv, PalDone, runIspAdapt, PalWritten, Adapting
<1>2. LastSequence \in Sequences0
  BY <1>1, NewestType
<1>3. ispParam[s].data \subseteq Nodes /\ ispParam[s].data # {}
  BY <1>1 DEF PalInv, PalType
<1>4. TaskInv' /\ QueueType' /\ SeqInv'
      /\ (ex \in [Executors -> Threads])' /\ (policy \in Policies)' /\ (dag \in Dags)'
  BY DEF TypeInv, SeqInv, TaskInv, TaskType, QueueType, PalDone, runIspAdapt, PalWritten, taskVars,
         queueVars
<1>5. tasks' # <<>>
  BY <1>1 DEF PalDone, runIspAdapt, PalWritten, taskVars
<1>6. CASE PalDone(s)
  <2>1. ad' \in Adders
    BY <1>1, <1>6, AfterAdaptType DEF PalDone
  <2> QED BY <1>1, <1>4, <1>5, <1>6, <2>1 DEF TypeInv, PalDone, palVars, AdderInv, PalInv, PalType
<1>7. CASE runIspAdapt(s)
  <2>1. NodeToWrite(ispParam[s], LastSequence) \in Nodes
    BY <1>2, <1>3, NodeToWriteType, Constants DEF Sequences0
  <2>2. ad' \in Adders
    BY <1>1, <1>7, <2>1 DEF runIspAdapt, Adders
  <2> QED BY <1>1, <1>4, <1>5, <1>7, <2>2 DEF TypeInv, runIspAdapt, palVars, AdderInv, PalInv, PalType
<1>8. CASE PalWritten(s)
  <2>1. ad' \in Adders
    BY <1>1, <1>8, AfterAdaptType DEF PalWritten
  <2>2. PICK ran \in BOOLEAN : ispParam' = [ispParam EXCEPT ![s] = ranIspAdapt(s, ran)]
    BY <1>8 DEF PalWritten
  <2>3. ad.node \in Nodes
    BY <1>1 DEF Adders
  <2> DEFINE after == ranIspAdapt(s, ran)
  <2>4. after.data \subseteq Nodes /\ after.data # {}
    BY <1>2, <1>3, <2>3, AfterPalType DEF ranIspAdapt
  <2>5. ispParam' = [ispParam EXCEPT ![s] = after]
    BY <2>2
  <2> HIDE DEF after
  <2>6. /\ DOMAIN ispParam' = Streams
        /\ \A t \in Streams : ispParam'[t].data \subseteq Nodes /\ ispParam'[t].data # {}
    BY <1>1, <2>4, <2>5 DEF PalInv, PalType
  <2>7. mOngoingPalMap' \in [Sequences0 -> SUBSET Streams]
    BY <1>1, <1>2, <1>8 DEF PalWritten, PalInv, PalType
  <2>8. PalInv'
    BY <2>6, <2>7 DEF PalInv, PalType
  <2> QED BY <1>4, <1>5, <2>1, <2>8 DEF TypeInv, AdderInv
<1> QED BY <1>6, <1>7, <1>8

\* queueBuffers keeps the types: it queues the newest task and its sequence.
LEMMA QueueBuffersType ==
  ASSUME TypeInv, QueueInput \/ QueueOutput
  PROVE  TypeInv'
<1>1. TaskInv /\ tasks # <<>> /\ ad \in Adders /\ QueueType
  BY DEF TypeInv, AdderInv, QueueInput, QueueOutput
<1>2. LastSequence \in Sequences0 /\ Newest \in 0..MaxTasks /\ 0 \in 0..MaxTasks
  BY <1>1, NewestType, Constants
<1>3. TaskInv' /\ PalInv' /\ SeqInv'
      /\ (ex \in [Executors -> Threads])' /\ (policy \in Policies)' /\ (dag \in Dags)'
  BY DEF TypeInv, SeqInv, TaskInv, TaskType, PalInv, PalType, QueueInput, QueueOutput, taskVars, palVars
<1>4. tasks' # <<>>
  BY <1>1 DEF QueueInput, QueueOutput, taskVars
<1>5. ASSUME NEW x PROVE [ad EXCEPT !.todo = @ \ {x}] \in Adders
  BY <1>1 DEF Adders
<1>6. CASE QueueInput
  <2> DEFINE s == Min(ad.todo)
             all == UNION {PortsOf[t] : t \in getActiveStreamIds(Newest)}
  <2>1. mInputQueue' \in [Executors -> Seq(Sequences0)]
    <3> DEFINE place == <<s, 1>>
    <3>1. mInputQueue' = [mInputQueue EXCEPT ![place] = Append(@, LastSequence)]
      BY <1>6 DEF QueueInput
    <3>2. mInputQueue \in [Executors -> Seq(Sequences0)]
      BY <1>1 DEF QueueType
    <3> HIDE DEF place
    <3> QED BY <1>2, <3>1, <3>2, AppendAt
  <2>2. all \subseteq Ports
    BY DEF Ports, getActiveStreamIds, StreamsOf
  <2>3. ad' = [ad EXCEPT !.todo = @ \ {s}] \/ ad' = [ad EXCEPT !.pc = "outputs", !.todo = all]
    BY <1>6 DEF QueueInput
  <2> HIDE DEF all, s
  <2>4. [ad EXCEPT !.pc = "outputs", !.todo = all] \in Adders
    BY <1>1, <2>2 DEF Adders
  <2>5. ad' \in Adders
    BY <1>5, <2>3, <2>4
  <2> QED BY <1>1, <1>3, <1>4, <1>6, <2>1, <2>5 DEF TypeInv, AdderInv, QueueType, QueueInput
<1>7. CASE QueueOutput
  <2> DEFINE p == Min(ad.todo)
             buffer == IF p \in tasks[Newest].ports THEN Newest ELSE 0
  <2>1. buffer \in 0..MaxTasks
    BY <1>2
  <2>2. mOutputQueue' = [mOutputQueue EXCEPT ![p] = Append(@, buffer)]
    BY <1>7 DEF QueueOutput
  <2>3. ad' = IdleAdder \/ ad' = [ad EXCEPT !.todo = @ \ {p}]
    BY <1>7 DEF QueueOutput
  <2> HIDE DEF buffer, p
  <2>4. mOutputQueue' \in [Ports -> Seq(0..MaxTasks)]
    BY <1>1, <2>1, <2>2, AppendAt DEF QueueType
  <2>5. ad' \in Adders
    <3>1. IdleAdder \in Adders
      BY NoNodeType DEF IdleAdder, Adders
    <3> QED BY <1>5, <2>3, <3>1
  <2> QED BY <1>1, <1>3, <1>4, <1>7, <2>4, <2>5 DEF TypeInv, AdderInv, QueueType, QueueOutput
<1> QED BY <1>6, <1>7

\* A frame and a buffer for each output, as fetched.
LEMMA FetchEffect ==
  ASSUME TypeInv, NEW e \in Executors, Fetch(e)
  PROVE  /\ ex' \in [Executors -> Threads] /\ QueueType'
         /\ ex'[e].pc = IF e \in Bundle THEN "wait" ELSE "pal"
         /\ ex'[e].running = ex[e].running /\ ex'[e].seq \in Sequences0
         /\ \A f \in Executors : f # e => ex'[f] = ex[f]
         /\ mInputQueue[e] # <<>> /\ mInputQueue'[e] = Tail(mInputQueue[e])
         /\ \A f \in Executors : f # e => mInputQueue'[f] = mInputQueue[f]
         /\ ~ IsOutputEdge(e) => free[e] > 0 /\ free'[e] = free[e] - 1
         /\ \A f \in Executors : f # e => free'[f] = free[f]
<1> DEFINE out == [p \in Ports |-> IF p \in OutPorts(e) THEN Head(mOutputQueue[p]) ELSE 0]
           point == IF e \in Bundle THEN "wait" ELSE "pal"
           full == {p \in OutPorts(e) : out[p] # 0}
           seq == Head(mInputQueue[e])
           t == ex[e]
           t2 == [t EXCEPT !.pc = point, !.seq = seq, !.out = out, !.left = full]
<1>1. /\ mInputQueue \in [Executors -> Seq(Sequences0)]
      /\ mOutputQueue \in [Ports -> Seq(0..MaxTasks)] /\ free \in [Executors -> Nat]
      /\ ex \in [Executors -> Threads]
  BY DEF TypeInv, QueueType
<1>2. /\ mInputQueue[e] # <<>>
      /\ \A p \in OutPorts(e) : mOutputQueue[p] # <<>>
      /\ ~ IsOutputEdge(e) => free[e] > 0
  BY DEF Fetch, BuffersWait, OutPorts
<1>3. OutPorts(e) \subseteq Ports
  BY DagAssumption DEF OutPorts, Ports, Executors
<1>4. seq \in Sequences0 /\ mInputQueue[e] \in Seq(Sequences0) /\ Tail(mInputQueue[e]) \in Seq(Sequences0)
  BY <1>1, <1>2
<1>5. \A p \in OutPorts(e) : Head(mOutputQueue[p]) \in 0..MaxTasks /\ Tail(mOutputQueue[p]) \in Seq(0..MaxTasks)
  <2>1. ASSUME NEW p \in OutPorts(e)
        PROVE  Head(mOutputQueue[p]) \in 0..MaxTasks /\ Tail(mOutputQueue[p]) \in Seq(0..MaxTasks)
    <3>1. mOutputQueue[p] \in Seq(0..MaxTasks) /\ mOutputQueue[p] # <<>>
      BY <1>1, <1>2, <1>3
    <3> QED BY <3>1, HeadTailProperties
  <2> QED BY <2>1
<1>6. out \in [Ports -> 0..MaxTasks] /\ full \subseteq Ports
  BY <1>3, <1>5, Constants
<1>7. ex' = [ex EXCEPT ![e] = t2]
  BY DEF Fetch
<1>8. t \in Threads /\ point \in Points
  BY <1>1 DEF Points
<1> HIDE DEF out, point, full, seq, t
<1>9. t2 \in Threads /\ t2.pc = point /\ t2.running = t.running /\ t2.seq = seq
  BY <1>4, <1>6, <1>8 DEF Threads, Points
<1> HIDE DEF t2
<1>10. /\ ex' \in [Executors -> Threads] /\ ex'[e] = t2
       /\ \A f \in Executors : f # e => ex'[f] = ex[f]
  BY <1>1, <1>7, <1>9, OneThread
<1>11. mInputQueue' = [mInputQueue EXCEPT ![e] = Tail(@)]
       /\ free' = [free EXCEPT ![e] = IF IsOutputEdge(e) THEN @ ELSE @ - 1]
       /\ mOutputQueue' = [p \in Ports |-> IF p \in OutPorts(e) THEN Tail(mOutputQueue[p])
                                           ELSE mOutputQueue[p]]
  BY DEF Fetch
<1>12. mInputQueue' \in [Executors -> Seq(Sequences0)] /\ mInputQueue'[e] = Tail(mInputQueue[e])
       /\ \A f \in Executors : f # e => mInputQueue'[f] = mInputQueue[f]
  BY <1>1, <1>4, <1>11
<1>13. mOutputQueue' \in [Ports -> Seq(0..MaxTasks)]
  BY <1>1, <1>5, <1>11
<1>14. free' \in [Executors -> Nat] /\ (~ IsOutputEdge(e) => free'[e] = free[e] - 1)
       /\ \A f \in Executors : f # e => free'[f] = free[f]
  <2>1. free[e] \in Nat /\ (~ IsOutputEdge(e) => free[e] - 1 \in Nat)
    BY <1>1, <1>2
  <2> QED BY <1>1, <1>11, <2>1
<1>15. QueueType'
  BY <1>12, <1>13, <1>14 DEF QueueType
<1> QED BY <1>2, <1>4, <1>9, <1>10, <1>12, <1>14, <1>15 DEF point, t

\* The policy lets an executor go on, or puts it to sleep, or it wakes the others.
LEMMA WaitEffect ==
  ASSUME TypeInv, NEW e \in Executors, WaitPolicy(e), e \in Bundle
  PROVE  /\ ex' \in [Executors -> Threads] /\ policy' \in Policies
         /\ ExAt(e, "wait")
         /\ \A f \in Executors : ex'[f].running = ex[f].running /\ ex'[f].seq = ex[f].seq
         /\ \A f \in Executors : f = e \/ ex'[f].pc = ex[f].pc
                                 \/ (ExAt(f, "sleep") /\ ex'[f].pc = "pal")
         /\ policy'.mIsActive = policy.mIsActive /\ policy'.timedOut = policy.timedOut
         /\ \/ /\ ~ Aligned(e) /\ policy' = policy
               /\ ex'[e].pc = "pal" /\ \A f \in Executors : f # e => ex'[f] = ex[f]
            \/ /\ Aligned(e) /\ RunsFreely(e)
               /\ policy'.mRunCount = [policy.mRunCount EXCEPT ![e] = @ + 1]
               /\ policy'.mWaitingCount = policy.mWaitingCount
               /\ ex'[e].pc = "pal" /\ \A f \in Executors : f # e => ex'[f] = ex[f]
            \/ /\ Aligned(e) /\ ~ RunsFreely(e) /\ ~ LastToCome
               /\ policy'.mRunCount = [policy.mRunCount EXCEPT ![e] = @ + 1]
               /\ policy'.mWaitingCount = policy.mWaitingCount + 1
               /\ ex'[e].pc = "sleep" /\ \A f \in Executors : f # e => ex'[f] = ex[f]
            \/ /\ Aligned(e) /\ ~ RunsFreely(e) /\ LastToCome
               /\ policy'.mRunCount = [policy.mRunCount EXCEPT ![e] = @ + 1]
               /\ policy'.mWaitingCount = 0
               /\ \A f \in Executors :
                    ex'[f].pc = IF f = e \/ ExAt(f, "sleep") THEN "pal" ELSE ex[f].pc
<1>1. ex \in [Executors -> Threads] /\ policy \in Policies
  BY DEF TypeInv
<1>2. ExAt(e, "wait") /\ policy' = IF Aligned(e) THEN wait(e) ELSE policy
  BY DEF WaitPolicy
<1>3. {"pal", "sleep"} \subseteq Points
  BY DEF Points
<1> DEFINE count == IF RunsFreely(e) THEN policy.mWaitingCount
                    ELSE IF LastToCome THEN 0 ELSE policy.mWaitingCount + 1
           runs == [policy.mRunCount EXCEPT ![e] = @ + 1]
           p == policy
<1>4. wait(e) = [p EXCEPT !.mRunCount = runs, !.mWaitingCount = count]
  BY <1>1 DEF wait, Policies
<1>5. p \in Policies
  BY <1>1
<1>6. count \in Nat
  <2>1. policy.mWaitingCount \in Nat
    BY <1>1 DEF Policies
  <2> QED BY <2>1
<1>7. runs \in [Bundle -> Nat]
  <2>1. policy.mRunCount \in [Bundle -> Nat]
    BY <1>1 DEF Policies
  <2>2. policy.mRunCount[e] + 1 \in Nat
    BY <2>1
  <2> QED BY <2>1, <2>2
<1> HIDE DEF count, runs, p
<1>8. /\ wait(e) \in Policies /\ wait(e).mRunCount = runs /\ wait(e).mWaitingCount = count
      /\ wait(e).mIsActive = p.mIsActive /\ wait(e).timedOut = p.timedOut
  BY <1>4, <1>5, <1>6, <1>7 DEF Policies
<1>9. CASE ~ Aligned(e) \/ RunsFreely(e)
  <2>1. ExGoto(e, "pal")
    BY <1>9 DEF WaitPolicy
  <2>2. /\ ex' \in [Executors -> Threads] /\ ex'[e].pc = "pal" /\ ex'[e].running = ex[e].running
        /\ ex'[e].seq = ex[e].seq /\ \A f \in Executors : f # e => ex'[f] = ex[f]
    BY <1>1, <1>3, <2>1, Goto
  <2>3. CASE ~ Aligned(e)
    BY <1>1, <1>2, <2>2, <2>3
  <2>4. CASE Aligned(e) /\ RunsFreely(e)
    BY <1>2, <1>8, <2>2, <2>4 DEF count, runs, p
  <2> QED BY <1>9, <2>3, <2>4
<1>10. CASE Aligned(e) /\ ~ RunsFreely(e) /\ ~ LastToCome
  <2>1. ExGoto(e, "sleep")
    BY <1>10 DEF WaitPolicy
  <2>2. /\ ex' \in [Executors -> Threads] /\ ex'[e].pc = "sleep" /\ ex'[e].running = ex[e].running
        /\ ex'[e].seq = ex[e].seq /\ \A f \in Executors : f # e => ex'[f] = ex[f]
    BY <1>1, <1>3, <2>1, Goto
  <2> QED BY <1>2, <1>8, <1>10, <2>2 DEF count, runs, p
<1>11. CASE Aligned(e) /\ ~ RunsFreely(e) /\ LastToCome
  <2>1. ex' = [f \in Executors |-> IF f = e \/ ExAt(f, "sleep")
                                   THEN [ex[f] EXCEPT !.pc = "pal"] ELSE ex[f]]
    BY <1>11 DEF WaitPolicy
  <2>2. ASSUME NEW f \in Executors
        PROVE  /\ ex'[f] \in Threads /\ ex'[f].running = ex[f].running /\ ex'[f].seq = ex[f].seq
               /\ ex'[f].pc = IF f = e \/ ExAt(f, "sleep") THEN "pal" ELSE ex[f].pc
    <3>1. ex[f] \in Threads
      BY <1>1
    <3>2. [ex[f] EXCEPT !.pc = "pal"] \in Threads
          /\ [ex[f] EXCEPT !.pc = "pal"].pc = "pal"
          /\ [ex[f] EXCEPT !.pc = "pal"].running = ex[f].running
          /\ [ex[f] EXCEPT !.pc = "pal"].seq = ex[f].seq
      BY <1>3, <3>1, ThreadExcept
    <3> QED BY <2>1, <3>1, <3>2
  <2>3. ex' \in [Executors -> Threads]
    BY <2>1, <2>2
  <2> QED BY <1>2, <1>8, <1>11, <2>2, <2>3 DEF count, runs, p
<1> QED BY <1>9, <1>10, <1>11

\* The places of the tasks that a buffer may belong to: the first is one of them.
LEMMA TaskOfPlace ==
  ASSUME TaskInv, NEW e, NEW p, TaskOf(e, p) # {}
  PROVE  Min(TaskOf(e, p)) \in DOMAIN mOngoingTasks
<1>1. TaskOf(e, p) \subseteq DOMAIN mOngoingTasks /\ DOMAIN mOngoingTasks = 1..Len(mOngoingTasks)
  BY DEF TaskInv, TaskType, TaskOf
<1>2. TaskOf(e, p) \in SUBSET Int /\ \A x \in TaskOf(e, p) : x >= -0
  BY <1>1
<1>3. Min(TaskOf(e, p)) \in TaskOf(e, p)
  BY <1>2, MinIsLeast
<1> QED BY <1>1, <1>3

\* onFrameDone goes on to the next port or to the callback.
LEMMA FrameDoneEffect ==
  ASSUME TypeInv, NEW e \in Executors, onFrameDone(e)
  PROVE  /\ ex' \in [Executors -> Threads] /\ TaskInv' /\ PalInv'
         /\ AtFrameDone(e) /\ ex'[e].running = ex[e].running
         /\ ex'[e].pc \in {"count", "return", "callback"} \/ (IsInputEdge(e) /\ ex'[e].pc = "loop")
         /\ \A f \in Executors : f # e => ex'[f] = ex[f]
<1> DEFINE p == CurrentPort(e)
           i == Min(TaskOf(e, p))
           task == mOngoingTasks[i]
           found == [ex[e] EXCEPT !.pc = "callback", !.pal = NoNode, !.task = task.n,
                                  !.complete = IsComplete(task)]
<1>1. ex \in [Executors -> Threads] /\ TaskInv /\ PalInv /\ AtFrameDone(e)
      /\ mOngoingTasks \in Seq([n : DOMAIN tasks, returned : Nat]) /\ tasks' = tasks
      /\ ispParam' = ispParam /\ mOngoingPalMap \in [Sequences0 -> SUBSET Streams]
  BY DEF TypeInv, onFrameDone, TaskInv, TaskType, PalInv, PalType
<1>2. CASE TaskOf(e, p) = {}
  <2>1. ex' = [ex EXCEPT ![e] = NextPort(e)] /\ mOngoingTasks' = mOngoingTasks
        /\ mOngoingPalMap' = mOngoingPalMap
    BY <1>2 DEF onFrameDone
  <2>2. NextPort(e) \in Threads
    BY <1>1, NextPortType
  <2>3. /\ ex' \in [Executors -> Threads] /\ ex'[e] = NextPort(e)
        /\ \A f \in Executors : f # e => ex'[f] = ex[f]
    BY <1>1, <2>1, <2>2, OneThread
  <2>4. NextPort(e).running = ex[e].running
        /\ (NextPort(e).pc \in {"count", "return"} \/ (IsInputEdge(e) /\ NextPort(e).pc = "loop"))
    BY <1>1, NextPortType
  <2>5. TaskInv' /\ PalInv'
    BY <1>1, <2>1 DEF TaskInv, TaskType, PalInv, PalType
  <2> QED BY <1>1, <2>3, <2>4, <2>5
<1>3. CASE TaskOf(e, p) # {}
  <2>1. i \in DOMAIN mOngoingTasks
    BY <1>1, <1>3, TaskOfPlace
  <2>2. /\ mOngoingTasks' = IF IsComplete(task) THEN RemoveAt(mOngoingTasks, i)
                            ELSE [mOngoingTasks EXCEPT ![i].returned = @ + 1]
        /\ mOngoingPalMap' = [mOngoingPalMap EXCEPT
                                ![ex[e].seq] = IF IsComplete(task) THEN {} ELSE @]
        /\ ex' = [ex EXCEPT ![e] = found]
    BY <1>3 DEF onFrameDone
  <2>3. task \in [n : DOMAIN tasks, returned : Nat]
    <3> HIDE DEF i
    <3>1. i \in 1..Len(mOngoingTasks)
      BY <1>1, <2>1
    <3> QED BY <1>1, <3>1, ElementOfSeq
  <2>4. IsComplete(task) \in BOOLEAN /\ task.n \in 0..MaxTasks
    <3>1. DOMAIN tasks = 1..Len(tasks) /\ Len(tasks) \in Nat /\ Len(tasks) <= MaxTasks
      BY <1>1 DEF TaskInv, TaskType
    <3> QED BY <2>3, <3>1, Constants DEF IsComplete
  <2> HIDE DEF i, task
  <2>5. mOngoingTasks' \in Seq([n : DOMAIN tasks, returned : Nat])
    <3>1. CASE IsComplete(task)
      BY <1>1, <2>1, <2>2, <3>1, RemoveAtType
    <3>2. CASE ~ IsComplete(task)
      <4> DEFINE S == [n : DOMAIN tasks, returned : Nat]
                 more == [mOngoingTasks[i] EXCEPT !.returned = @ + 1]
      <4>1. mOngoingTasks[i] \in S
        BY <2>3 DEF task
      <4>2. mOngoingTasks[i].returned + 1 \in Nat
        BY <4>1
      <4>3. more \in S
        BY <4>1, <4>2
      <4>4. mOngoingTasks' = [mOngoingTasks EXCEPT ![i] = more]
        BY <2>2, <3>2
      <4> HIDE DEF S, more
      <4>5. mOngoingTasks \in Seq(S)
        BY <1>1 DEF S
      <4>6. mOngoingTasks' \in Seq(S)
        BY <2>1, <4>3, <4>4, <4>5, ExceptSeq
      <4> QED BY <4>6 DEF S
    <3> QED BY <3>1, <3>2
  <2>6. TaskInv'
    BY <1>1, <2>5 DEF TaskInv, TaskType
  <2>7. PalInv'
    <3>1. mOngoingPalMap' \in [Sequences0 -> SUBSET Streams]
      BY <1>1, <2>2
    <3> QED BY <1>1, <3>1 DEF PalInv, PalType
  <2>8. found \in Threads /\ found.pc = "callback" /\ found.running = ex[e].running
    <3> DEFINE t == ex[e]
               n == task.n
               done == IsComplete(task)
               t2 == [t EXCEPT !.pc = "callback", !.pal = NoNode, !.task = n, !.complete = done]
    <3>1. t \in Threads /\ n \in 0..MaxTasks /\ done \in BOOLEAN /\ found = t2
      BY <1>1, <2>4
    <3> HIDE DEF t, n, done
    <3>2. t2 \in Threads /\ t2.pc = "callback" /\ t2.running = t.running
      BY <3>1, NoNodeType DEF Threads
    <3> QED BY <3>1, <3>2 DEF t
  <2>9. /\ ex' \in [Executors -> Threads] /\ ex'[e] = found
        /\ \A f \in Executors : f # e => ex'[f] = ex[f]
    <3> HIDE DEF found
    <3> QED BY <1>1, <2>2, <2>8, OneThread
  <2> QED BY <1>1, <2>6, <2>7, <2>8, <2>9
<1> QED BY <1>2, <1>3

\* The callbacks of onFrameDone, without the lock.
LEMMA CallbackEffect ==
  ASSUME TypeInv, NEW e \in Executors, BufferDone(e) \/ returnBuffers(e)
  PROVE  /\ ex' \in [Executors -> Threads]
         /\ ex[e].pc \in {"callback", "task"} /\ ex'[e].running = ex[e].running
         /\ ex'[e].pc \in {"task", "count", "return"} \/ (IsInputEdge(e) /\ ex'[e].pc = "loop")
         /\ \A f \in Executors : f # e => ex'[f] = ex[f]
<1>1. ex \in [Executors -> Threads] /\ ex[e].pc \in {"callback", "task"} /\ "task" \in Points
  BY DEF TypeInv, BufferDone, returnBuffers, ExAt, Points
<1>2. ExGoto(e, "task") \/ ex' = [ex EXCEPT ![e] = NextPort(e)]
  BY DEF BufferDone, returnBuffers
<1>3. CASE ExGoto(e, "task")
  <2>1. /\ ex' \in [Executors -> Threads] /\ ex'[e].pc = "task" /\ ex'[e].running = ex[e].running
        /\ \A f \in Executors : f # e => ex'[f] = ex[f]
    BY <1>1, <1>3, Goto
  <2> QED BY <1>1, <2>1
<1>4. CASE ex' = [ex EXCEPT ![e] = NextPort(e)]
  <2>1. NextPort(e) \in Threads
    BY <1>1, NextPortType
  <2>2. /\ ex' \in [Executors -> Threads] /\ ex'[e] = NextPort(e)
        /\ \A f \in Executors : f # e => ex'[f] = ex[f]
    BY <1>1, <1>4, <2>1, OneThread
  <2>3. NextPort(e).running = ex[e].running
        /\ (NextPort(e).pc \in {"count", "return"} \/ (IsInputEdge(e) /\ NextPort(e).pc = "loop"))
    BY <1>1, NextPortType
  <2> QED BY <1>1, <2>2, <2>3
<1> QED BY <1>2, <1>3, <1>4

\* A thread that is told to end exits at its loop.
LEMMA ExitsEffect ==
  ASSUME TypeInv, NEW e \in Executors, ThreadExits(e)
  PROVE  /\ ex' \in [Executors -> Threads]
         /\ ExAt(e, "loop") /\ ~ ex[e].running /\ ~ ex'[e].running /\ ex'[e].pc = "exited"
         /\ \A f \in Executors : f # e => ex'[f] = ex[f]
<1>1. ex \in [Executors -> Threads] /\ ExAt(e, "loop") /\ ~ ex[e].running /\ ExGoto(e, "exited")
      /\ "exited" \in Points
  BY DEF TypeInv, ThreadExits, Points
<1> QED BY <1>1, Goto

\* A wait that times out changes the thread and the mark only, not the counts.
LEMMA TimeoutEffect ==
  ASSUME TypeInv, NEW e \in Executors, WaitTimesOut(e)
  PROVE  /\ ex' \in [Executors -> Threads] /\ policy' \in Policies
         /\ ExAt(e, "sleep") /\ ex'[e].running = ex[e].running /\ ex'[e].pc = "pal"
         /\ ex'[e].seq = ex[e].seq
         /\ \A f \in Executors : f # e => ex'[f] = ex[f]
         /\ policy'.timedOut /\ policy'.mIsActive = policy.mIsActive
         /\ policy'.mWaitingCount = policy.mWaitingCount
         /\ policy'.mRunCount = policy.mRunCount
<1>1. ex \in [Executors -> Threads] /\ ExAt(e, "sleep") /\ ExGoto(e, "pal") /\ "pal" \in Points
  BY DEF TypeInv, WaitTimesOut, Points
<1>2. policy \in Policies /\ policy' = [policy EXCEPT !.timedOut = TRUE]
  BY DEF TypeInv, WaitTimesOut
<1>3. /\ policy' \in Policies /\ policy'.timedOut /\ policy'.mIsActive = policy.mIsActive
      /\ policy'.mWaitingCount = policy.mWaitingCount /\ policy'.mRunCount = policy.mRunCount
  BY <1>2 DEF Policies
<1>4. /\ ex' \in [Executors -> Threads] /\ ex'[e].running = ex[e].running /\ ex'[e].pc = "pal"
      /\ ex'[e].seq = ex[e].seq
      /\ \A f \in Executors : f # e => ex'[f] = ex[f]
  BY <1>1, Goto
<1> QED BY <1>1, <1>3, <1>4

\* Taking the parameters changes the thread only.
LEMMA GetPalEffect ==
  ASSUME TypeInv, NEW e \in Executors, GetPal(e)
  PROVE  /\ ex' \in [Executors -> Threads]
         /\ ExAt(e, "pal") /\ ex'[e].running = ex[e].running /\ ex'[e].pc = "run"
         /\ ex'[e].seq = ex[e].seq
         /\ \A f \in Executors : f # e => ex'[f] = ex[f]
<1> DEFINE node == getIpuParameter(ispParam[e[1]], ex[e].seq)
           t == ex[e]
           t2 == [t EXCEPT !.pc = "run", !.pal = node]
<1>1. ex \in [Executors -> Threads] /\ ExAt(e, "pal")
  BY DEF TypeInv, GetPal
<1>2. ispParam[e[1]].data \subseteq Nodes
  BY DagAssumption DEF TypeInv, PalInv, PalType, Executors
<1>3. node \in Nodes
  BY <1>2, GetParameterType
<1>4. t \in Threads
  BY <1>1
<1>5. ex' = [ex EXCEPT ![e] = t2]
  BY <1>1 DEF GetPal
<1> HIDE DEF node, t
<1>6. t2 \in Threads /\ t2.pc = "run" /\ t2.running = t.running /\ t2.seq = t.seq
  BY <1>3, <1>4 DEF Threads
<1> HIDE DEF t2
<1>7. /\ ex' \in [Executors -> Threads] /\ ex'[e] = t2
      /\ \A f \in Executors : f # e => ex'[f] = ex[f]
  BY <1>1, <1>5, <1>6, OneThread
<1> QED BY <1>1, <1>6, <1>7 DEF t

\* A pipe that fails ends its thread.
LEMMA FailEffect ==
  ASSUME TypeInv, NEW e \in Executors, RunFails(e)
  PROVE  /\ ex' \in [Executors -> Threads]
         /\ ExAt(e, "run") /\ ~ ex'[e].running /\ ex'[e].pc = "dead"
         /\ \A f \in Executors : f # e => ex'[f] = ex[f]
<1>1. ex \in [Executors -> Threads] /\ ExAt(e, "run") /\ ex' = [ex EXCEPT ![e] = IdleExecutor("dead")]
  BY DEF TypeInv, RunFails
<1>2. IdleExecutor("dead") \in Threads /\ IdleExecutor("dead").pc = "dead"
      /\ ~ IdleExecutor("dead").running
  BY IdleExecutorType DEF Points
<1>3. /\ ex' \in [Executors -> Threads] /\ ex'[e] = IdleExecutor("dead")
      /\ \A f \in Executors : f # e => ex'[f] = ex[f]
  BY <1>1, <1>2, OneThread
<1> QED BY <1>1, <1>2, <1>3

\* The consumer and the producer of an executor are executors.
LEMMA Neighbours ==
  ASSUME NEW e \in Executors
  PROVE  /\ ~ IsOutputEdge(e) =>
              /\ Consumer(e) \in Executors /\ Consumer(e) # e /\ ~ IsInputEdge(Consumer(e))
              /\ Producer(Consumer(e)) = e /\ Before(e, Consumer(e))
         /\ ~ IsInputEdge(e) => Producer(e) \in Executors /\ Producer(e) # e /\ Consumer(Producer(e)) = e
         /\ IsInputEdge(e) => Producer(e) \notin Executors
         /\ e = <<e[1], e[2]>> /\ e[1] \in Streams /\ e[2] \in Int
<1>1. PICK s \in Streams : e \in {s} \X (1..Depth[s])
  BY DEF Executors
<1>2. Depth[s] \in Nat /\ e[1] = s /\ e[2] \in 1..Depth[s] /\ e = <<s, e[2]>>
  BY <1>1, DagAssumption
<1>3. ASSUME NEW i \in 1..Depth[s] PROVE <<s, i>> \in Executors
  BY DEF Executors
<1>4. ~ IsOutputEdge(e) =>
        /\ Consumer(e) \in Executors /\ Consumer(e) # e /\ ~ IsInputEdge(Consumer(e))
        /\ Producer(Consumer(e)) = e /\ Before(e, Consumer(e))
  <2>1. SUFFICES ASSUME e[2] # Depth[s] PROVE
        /\ Consumer(e) \in Executors /\ Consumer(e) # e /\ ~ IsInputEdge(Consumer(e))
        /\ Producer(Consumer(e)) = e /\ Before(e, Consumer(e))
    BY <1>2 DEF IsOutputEdge
  <2> DEFINE i == e[2] + 1
  <2>2. i \in 1..Depth[s] /\ i # e[2] /\ i # 1 /\ i - 1 = e[2] /\ e[2] < i
    BY <1>2, <2>1
  <2>3. Consumer(e) = <<s, i>>
    BY <1>2 DEF Consumer
  <2> HIDE DEF i
  <2> QED BY <1>2, <1>3, <2>2, <2>3 DEF IsInputEdge, Producer, Before
<1>5. ~ IsInputEdge(e) => Producer(e) \in Executors /\ Producer(e) # e /\ Consumer(Producer(e)) = e
  <2>1. SUFFICES ASSUME e[2] # 1
        PROVE  Producer(e) \in Executors /\ Producer(e) # e /\ Consumer(Producer(e)) = e
    BY DEF IsInputEdge
  <2> DEFINE i == e[2] - 1
  <2>2. i \in 1..Depth[s] /\ i # e[2] /\ i + 1 = e[2]
    BY <1>2, <2>1
  <2>3. Producer(e) = <<s, i>>
    BY <1>2 DEF Producer
  <2> HIDE DEF i
  <2> QED BY <1>2, <1>3, <2>2, <2>3 DEF Consumer
<1>6. IsInputEdge(e) => Producer(e) \notin Executors
  <2>1. ASSUME IsInputEdge(e), Producer(e) \in Executors PROVE FALSE
    <3>1. Producer(e)[2] = 0
      BY <1>2, <2>1 DEF Producer, IsInputEdge
    <3>2. PICK t \in Streams : Producer(e) \in {t} \X (1..Depth[t])
      BY <2>1 DEF Executors
    <3>3. Depth[t] \in Nat
      BY DagAssumption
    <3> QED BY <3>1, <3>2, <3>3
  <2> QED BY <2>1
<1> QED BY <1>2, <1>4, <1>5, <1>6

\* A frame goes to the consumer.
LEMMA NotifyEffect ==
  ASSUME TypeInv, NEW e \in Executors, NotifyConsumer(e)
  PROVE  /\ ex' \in [Executors -> Threads] /\ QueueType'
         /\ ExAt(e, "run") /\ ~ IsOutputEdge(e) /\ ex'[e].running = ex[e].running
         /\ ex'[e].pc = IF IsInputEdge(e) THEN "loop" ELSE "return"
         /\ \A f \in Executors : f # e => ex'[f] = ex[f]
         /\ Len(mInputQueue'[Consumer(e)]) = Len(mInputQueue[Consumer(e)]) + 1
         /\ \A f \in Executors : f # Consumer(e) => mInputQueue'[f] = mInputQueue[f]
<1>1. ex \in [Executors -> Threads] /\ QueueType /\ ExAt(e, "run") /\ ~ IsOutputEdge(e)
      /\ ex' = [ex EXCEPT ![e] = AfterNotify(e)] /\ mOutputQueue' = mOutputQueue /\ free' = free
      /\ mInputQueue' = [mInputQueue EXCEPT ![Consumer(e)] = Append(@, ex[e].seq)]
  BY DEF TypeInv, NotifyConsumer
<1>2. AfterNotify(e) \in Threads /\ AfterNotify(e).running = ex[e].running
      /\ AfterNotify(e).pc = IF IsInputEdge(e) THEN "loop" ELSE "return"
  BY <1>1, AfterNotifyType
<1>3. /\ ex' \in [Executors -> Threads] /\ ex'[e] = AfterNotify(e)
      /\ \A f \in Executors : f # e => ex'[f] = ex[f]
  BY <1>1, <1>2, OneThread
<1>4. Consumer(e) \in Executors
  BY <1>1, Neighbours
<1>5. mInputQueue \in [Executors -> Seq(Sequences0)] /\ mInputQueue[Consumer(e)] \in Seq(Sequences0)
  BY <1>1, <1>4 DEF QueueType
<1>6. ex[e].seq \in Sequences0
  BY <1>1 DEF TypeInv, SeqInv, ExAt
<1>7. mInputQueue' \in [Executors -> Seq(Sequences0)]
  <2> DEFINE place == Consumer(e)
             seq == ex[e].seq
  <2>1. mInputQueue' = [mInputQueue EXCEPT ![place] = Append(@, seq)] /\ seq \in Sequences0
    BY <1>1, <1>6
  <2> HIDE DEF place, seq
  <2> QED BY <1>5, <2>1, AppendAt
<1>8. mInputQueue'[Consumer(e)] = Append(mInputQueue[Consumer(e)], ex[e].seq)
      /\ \A f \in Executors : f # Consumer(e) => mInputQueue'[f] = mInputQueue[f]
  BY <1>1, <1>4, <1>5
<1>9. Len(mInputQueue'[Consumer(e)]) = Len(mInputQueue[Consumer(e)]) + 1
  BY <1>5, <1>6, <1>8
<1>10. QueueType'
  BY <1>1, <1>7 DEF QueueType
<1> QED BY <1>1, <1>2, <1>3, <1>8, <1>9, <1>10

\* The input goes back to the producer.
LEMMA ReturnEffect ==
  ASSUME TypeInv, NEW e \in Executors, ReturnInput(e)
  PROVE  /\ ex' \in [Executors -> Threads] /\ QueueType'
         /\ ExAt(e, "return") /\ ex'[e].running = ex[e].running /\ ex'[e].pc = "loop"
         /\ \A f \in Executors : f # e => ex'[f] = ex[f]
         /\ ~ IsInputEdge(e) => free'[Producer(e)] = free[Producer(e)] + 1
         /\ \A f \in Executors : f # Producer(e) => free'[f] = free[f]
<1>1. ex \in [Executors -> Threads] /\ QueueType /\ ExAt(e, "return") /\ ExGoto(e, "loop")
      /\ "loop" \in Points /\ mInputQueue' = mInputQueue /\ mOutputQueue' = mOutputQueue
      /\ free' = [free EXCEPT ![Producer(e)] = @ + 1]
  BY DEF TypeInv, ReturnInput, Points
<1>2. /\ ex' \in [Executors -> Threads] /\ ex'[e].running = ex[e].running /\ ex'[e].pc = "loop"
      /\ \A f \in Executors : f # e => ex'[f] = ex[f]
  BY <1>1, Goto
<1>3. free \in [Executors -> Nat]
  BY <1>1 DEF QueueType
<1>4. ~ IsInputEdge(e) => Producer(e) \in Executors
  BY Neighbours
<1>5. \A f \in Executors : free[f] \in Nat /\ free[f] + 1 \in Nat
  BY <1>3
<1>6. free' \in [Executors -> Nat]
  BY <1>1, <1>3, <1>5
<1>7. /\ ~ IsInputEdge(e) => free'[Producer(e)] = free[Producer(e)] + 1
      /\ \A f \in Executors : f # Producer(e) => free'[f] = free[f]
  BY <1>1, <1>3, <1>4
<1>8. QueueType'
  BY <1>1, <1>6 DEF QueueType
<1> QED BY <1>1, <1>2, <1>7, <1>8

\* What wakes the executors leaves the rest of their threads alone.
LEMMA WakeEffect ==
  ASSUME ex \in [Executors -> Threads],
         ex' = [e \in Executors |-> IF ExAt(e, "sleep") THEN [ex[e] EXCEPT !.pc = "pal"] ELSE ex[e]]
  PROVE  /\ ex' \in [Executors -> Threads]
         /\ \A e \in Executors :
              /\ ex'[e].pc = IF ExAt(e, "sleep") THEN "pal" ELSE ex[e].pc
              /\ ex'[e].running = ex[e].running /\ ex'[e].seq = ex[e].seq
<1>1. ASSUME NEW e \in Executors
      PROVE  /\ ex'[e] \in Threads /\ ex'[e].running = ex[e].running /\ ex'[e].seq = ex[e].seq
             /\ ex'[e].pc = IF ExAt(e, "sleep") THEN "pal" ELSE ex[e].pc
  <2>1. ex[e] \in Threads /\ "pal" \in Points
    BY DEF Points
  <2>2. /\ [ex[e] EXCEPT !.pc = "pal"] \in Threads /\ [ex[e] EXCEPT !.pc = "pal"].pc = "pal"
        /\ [ex[e] EXCEPT !.pc = "pal"].running = ex[e].running
        /\ [ex[e] EXCEPT !.pc = "pal"].seq = ex[e].seq
    BY <2>1, ThreadExcept
  <2> QED BY <2>1, <2>2
<1> QED BY <1>1

\* The policy that is switched on or off forgets its counts.
LEMMA ForgetEffect ==
  ASSUME NEW p \in Policies, NEW active \in BOOLEAN, NEW q,
         q = [p EXCEPT !.mIsActive = active, !.mWaitingCount = 0,
                       !.mRunCount = [e \in Bundle |-> 0]]
  PROVE  /\ q \in Policies /\ q.mIsActive = active /\ q.mWaitingCount = 0
         /\ q.mRunCount = [e \in Bundle |-> 0] /\ q.timedOut = p.timedOut
  BY DEF Policies

\* setActive(active) forgets the counts unless the policy was like that before.
LEMMA SetActiveEffect ==
  ASSUME policy \in Policies, NEW active \in BOOLEAN, SetActive(active)
  PROVE  /\ policy' \in Policies /\ policy'.mIsActive = active
         /\ policy'.timedOut = policy.timedOut
         /\ \/ policy' = policy
            \/ policy'.mWaitingCount = 0 /\ policy'.mRunCount = [e \in Bundle |-> 0]
<1>1. CASE policy.mIsActive = active
  BY <1>1 DEF SetActive
<1>2. CASE policy.mIsActive # active
  <2>1. policy' = [policy EXCEPT !.mIsActive = active, !.mWaitingCount = 0,
                                 !.mRunCount = [e \in Bundle |-> 0]]
    BY <1>2 DEF SetActive
  <2> QED BY <2>1, ForgetEffect
<1> QED BY <1>1, <1>2

\* setActive of dispatchTask always switches.
LEMMA SwitchEffect ==
  ASSUME TypeInv, setActive
  PROVE  /\ policy' \in Policies /\ policy'.mIsActive = ~ policy.mIsActive
         /\ policy'.mWaitingCount = 0 /\ policy'.mRunCount = [e \in Bundle |-> 0]
         /\ policy'.timedOut = policy.timedOut
         /\ dag.state = "running" /\ dag' = dag
         /\ ex' \in [Executors -> Threads]
         /\ \A e \in Executors :
              /\ ex'[e].pc = IF ExAt(e, "sleep") THEN "pal" ELSE ex[e].pc
              /\ ex'[e].running = ex[e].running /\ ex'[e].seq = ex[e].seq
<1>1. policy \in Policies /\ policy.mIsActive \in BOOLEAN /\ ex \in [Executors -> Threads]
  BY DEF TypeInv, Policies
<1>2. policy' = [policy EXCEPT !.mIsActive = ~policy.mIsActive, !.mWaitingCount = 0,
                               !.mRunCount = [e \in Bundle |-> 0]]
      /\ dag.state = "running" /\ dag' = dag
      /\ ex' = [e \in Executors |-> IF ExAt(e, "sleep") THEN [ex[e] EXCEPT !.pc = "pal"] ELSE ex[e]]
  BY DEF setActive, ExAt
<1>3. (~ policy.mIsActive) \in BOOLEAN
  BY <1>1
<1>4. /\ policy' \in Policies /\ policy'.mIsActive = ~ policy.mIsActive
      /\ policy'.mWaitingCount = 0 /\ policy'.mRunCount = [e \in Bundle |-> 0]
      /\ policy'.timedOut = policy.timedOut
  <2> DEFINE active == ~ policy.mIsActive
  <2>1. active \in BOOLEAN /\ policy' = [policy EXCEPT !.mIsActive = active, !.mWaitingCount = 0,
                                                      !.mRunCount = [e \in Bundle |-> 0]]
    BY <1>2, <1>3
  <2> HIDE DEF active
  <2>2. /\ policy' \in Policies /\ policy'.mIsActive = active
        /\ policy'.mWaitingCount = 0 /\ policy'.mRunCount = [e \in Bundle |-> 0]
        /\ policy'.timedOut = policy.timedOut
    BY <1>1, <2>1, ForgetEffect
  <2> QED BY <2>2 DEF active
<1>5. ex' \in [Executors -> Threads]
      /\ \A e \in Executors :
           /\ ex'[e].pc = IF ExAt(e, "sleep") THEN "pal" ELSE ex[e].pc
           /\ ex'[e].running = ex[e].running /\ ex'[e].seq = ex[e].seq
  BY <1>1, <1>2, WakeEffect
<1> QED BY <1>2, <1>4, <1>5

\* start() puts every thread to its loop and adds NumInter buffers to every link.
LEMMA StartEffect ==
  ASSUME TypeInv, start
  PROVE  /\ ex' \in [Executors -> Threads] /\ \A e \in Executors : ex'[e].pc = "loop"
         /\ policy' \in Policies /\ policy'.mIsActive /\ policy'.timedOut = policy.timedOut
         /\ \/ policy' = policy
            \/ policy'.mWaitingCount = 0 /\ policy'.mRunCount = [e \in Bundle |-> 0]
         /\ dag' \in Dags /\ dag.state = "stopped" /\ dag'.state = "running"
         /\ dag'.session = dag.session + 1 /\ dag'.left = {}
         /\ QueueType' /\ \A e \in Executors : ~ IsOutputEdge(e) => free'[e] = free[e] + NumInter
         /\ mInputQueue' = mInputQueue
<1>1. policy \in Policies /\ dag \in Dags /\ QueueType /\ dag.state = "stopped" /\ SetActive(TRUE)
      /\ free' = [e \in Executors |-> IF IsOutputEdge(e) THEN 0 ELSE free[e] + NumInter]
      /\ ex' = [e \in Executors |-> [IdleExecutor("loop") EXCEPT !.running = TRUE]]
      /\ dag' = [state |-> "running", session |-> dag.session + 1, left |-> {}]
      /\ mInputQueue' = mInputQueue /\ mOutputQueue' = mOutputQueue
  BY DEF TypeInv, start
<1>2. dag.session \in Nat /\ dag.session + 1 \in Nat
  BY <1>1 DEF Dags
<1>3. dag' \in Dags /\ dag'.state = "running" /\ dag'.session = dag.session + 1 /\ dag'.left = {}
  BY <1>1, <1>2 DEF Dags
<1>4. /\ policy' \in Policies /\ policy'.mIsActive = TRUE /\ policy'.timedOut = policy.timedOut
      /\ \/ policy' = policy
         \/ policy'.mWaitingCount = 0 /\ policy'.mRunCount = [e \in Bundle |-> 0]
  BY <1>1, SetActiveEffect
<1> DEFINE t == IdleExecutor("loop")
           t2 == [t EXCEPT !.running = TRUE]
<1>5. t \in Threads /\ t.pc = "loop"
  BY IdleExecutorType DEF Points
<1> HIDE DEF t
<1>6. t2 \in Threads /\ t2.pc = "loop"
  BY <1>5, ThreadExcept
<1>7. ex' = [e \in Executors |-> t2]
  BY <1>1 DEF t
<1> HIDE DEF t2
<1>8. ex' \in [Executors -> Threads] /\ \A e \in Executors : ex'[e].pc = "loop"
  BY <1>6, <1>7
<1>9. \A e \in Executors : free[e] \in Nat /\ free[e] + NumInter \in Nat
  BY <1>1, Constants DEF QueueType
<1>10. free' \in [Executors -> Nat] /\ \A e \in Executors : ~ IsOutputEdge(e) => free'[e] = free[e] + NumInter
  BY <1>1, <1>9
<1>11. QueueType'
  BY <1>1, <1>10 DEF QueueType
<1> QED BY <1>1, <1>3, <1>4, <1>8, <1>10, <1>11

\* stopProcessing() wakes the executors and leaves the policy inactive.
LEMMA StopEffect ==
  ASSUME TypeInv, stopProcessing
  PROVE  /\ ex' \in [Executors -> Threads]
         /\ \A e \in Executors :
              /\ ex'[e].pc = IF ExAt(e, "sleep") THEN "pal" ELSE ex[e].pc
              /\ ex'[e].running = ex[e].running /\ ex'[e].seq = ex[e].seq
         /\ policy' \in Policies /\ ~ policy'.mIsActive /\ policy'.timedOut = policy.timedOut
         /\ \/ policy' = policy
            \/ policy'.mWaitingCount = 0 /\ policy'.mRunCount = [e \in Bundle |-> 0]
         /\ dag' \in Dags /\ dag.state = "running" /\ dag'.state = "notify"
         /\ dag'.session = dag.session /\ dag'.left = dag.left
<1>1. policy \in Policies /\ dag \in Dags /\ ex \in [Executors -> Threads]
      /\ dag.state = "running" /\ SetActive(FALSE) /\ dag' = [dag EXCEPT !.state = "notify"]
      /\ ex' = [e \in Executors |-> IF ExAt(e, "sleep") THEN [ex[e] EXCEPT !.pc = "pal"] ELSE ex[e]]
  BY DEF TypeInv, stopProcessing
<1>2. dag' \in Dags /\ dag'.state = "notify" /\ dag'.session = dag.session /\ dag'.left = dag.left
  BY <1>1 DEF Dags
<1>3. /\ policy' \in Policies /\ policy'.mIsActive = FALSE /\ policy'.timedOut = policy.timedOut
      /\ \/ policy' = policy
         \/ policy'.mWaitingCount = 0 /\ policy'.mRunCount = [e \in Bundle |-> 0]
  BY <1>1, SetActiveEffect
<1>4. ex' \in [Executors -> Threads]
      /\ \A e \in Executors :
           /\ ex'[e].pc = IF ExAt(e, "sleep") THEN "pal" ELSE ex[e].pc
           /\ ex'[e].running = ex[e].running /\ ex'[e].seq = ex[e].seq
  BY <1>1, WakeEffect
<1> QED BY <1>1, <1>2, <1>3, <1>4

\* notifyStop tells every thread to end and leaves it where it is.
LEMMA NotifyStopEffect ==
  ASSUME TypeInv, notifyStop
  PROVE  /\ ex' \in [Executors -> Threads]
         /\ \A e \in Executors :
              ex'[e].pc = ex[e].pc /\ ~ ex'[e].running /\ ex'[e].seq = ex[e].seq
         /\ dag' \in Dags /\ dag.state = "notify" /\ dag'.state = "join"
         /\ dag'.session = dag.session /\ dag'.left = Executors
<1>1. dag \in Dags /\ ex \in [Executors -> Threads] /\ dag.state = "notify"
      /\ dag' = [dag EXCEPT !.state = "join", !.left = Executors]
      /\ ex' = [e \in Executors |-> [ex[e] EXCEPT !.running = FALSE]]
  BY DEF TypeInv, notifyStop
<1>2. dag' \in Dags /\ dag'.state = "join" /\ dag'.session = dag.session /\ dag'.left = Executors
  BY <1>1 DEF Dags
<1>3. ASSUME NEW e \in Executors
      PROVE  ex'[e] \in Threads /\ ex'[e].pc = ex[e].pc /\ ~ ex'[e].running /\ ex'[e].seq = ex[e].seq
  <2>1. ex[e] \in Threads /\ ex'[e] = [ex[e] EXCEPT !.running = FALSE]
    BY <1>1
  <2>2. /\ [ex[e] EXCEPT !.running = FALSE] \in Threads
        /\ [ex[e] EXCEPT !.running = FALSE].pc = ex[e].pc
        /\ [ex[e] EXCEPT !.running = FALSE].seq = ex[e].seq
        /\ [ex[e] EXCEPT !.running = FALSE].running = FALSE
    BY <2>1, ThreadExcept
  <2> QED BY <2>1, <2>2
<1>4. ex' \in [Executors -> Threads]
  BY <1>1, <1>3
<1> QED BY <1>1, <1>2, <1>3, <1>4

\* A join takes the first executor that is left, when its thread has ended, and clears
\* its queues only.
LEMMA JoinEffect ==
  ASSUME TypeInv, JoinExecutor
  PROVE  /\ QueueType' /\ dag' \in Dags /\ dag.state = "join" /\ dag'.session = dag.session
         /\ dag.left \subseteq Executors
         /\ \E e \in dag.left :
              /\ \A f \in dag.left : ~ Before(f, e)
              /\ Ended(e) /\ dag'.left = dag.left \ {e}
              /\ dag'.state = IF dag.left = {e} THEN "stopped" ELSE "join"
              /\ free'[e] = 0 /\ mInputQueue'[e] = <<>>
              /\ \A f \in Executors :
                   f # e => free'[f] = free[f] /\ mInputQueue'[f] = mInputQueue[f]
<1>1. dag \in Dags /\ QueueType /\ dag.state = "join" /\ dag.left \subseteq Executors
  BY DEF TypeInv, JoinExecutor, Dags
<1>2. PICK e \in dag.left :
        /\ \A f \in dag.left : ~ Before(f, e)
        /\ Ended(e) /\ mInputQueue' = [mInputQueue EXCEPT ![e] = <<>>]
        /\ mOutputQueue' = [p \in Ports |-> IF p \in OutPorts(e) THEN <<>> ELSE mOutputQueue[p]]
        /\ free' = [free EXCEPT ![e] = 0]
        /\ dag' = [dag EXCEPT !.left = @ \ {e},
                              !.state = IF dag.left = {e} THEN "stopped" ELSE @]
  BY DEF JoinExecutor, Ended
<1>3. e \in Executors
  BY <1>1
<1> DEFINE left == dag.left \ {e}
           state == IF dag.left = {e} THEN "stopped" ELSE "join"
<1>4. dag' = [dag EXCEPT !.left = left, !.state = state] /\ left \subseteq Executors
      /\ state \in {"stopped", "join"}
  BY <1>1, <1>2
<1> HIDE DEF left, state
<1>5. dag' \in Dags /\ dag'.session = dag.session /\ dag'.left = left /\ dag'.state = state
  BY <1>1, <1>4 DEF Dags
<1>6. /\ mInputQueue' \in [Executors -> Seq(Sequences0)] /\ free' \in [Executors -> Nat]
      /\ mOutputQueue' \in [Ports -> Seq(0..MaxTasks)]
      /\ free'[e] = 0 /\ mInputQueue'[e] = <<>>
      /\ \A f \in Executors : f # e => free'[f] = free[f] /\ mInputQueue'[f] = mInputQueue[f]
  <2>1. /\ mInputQueue \in [Executors -> Seq(Sequences0)] /\ free \in [Executors -> Nat]
        /\ mOutputQueue \in [Ports -> Seq(0..MaxTasks)]
    BY <1>1 DEF QueueType
  <2>2. /\ mInputQueue' \in [Executors -> Seq(Sequences0)] /\ mInputQueue'[e] = <<>>
        /\ \A f \in Executors : f # e => mInputQueue'[f] = mInputQueue[f]
    BY <1>2, <1>3, <2>1
  <2>3. /\ free' \in [Executors -> Nat] /\ free'[e] = 0
        /\ \A f \in Executors : f # e => free'[f] = free[f]
    BY <1>2, <1>3, <2>1
  <2>4. mOutputQueue' \in [Ports -> Seq(0..MaxTasks)]
    <3> DEFINE S == Seq(0..MaxTasks)
    <3>1. <<>> \in S /\ mOutputQueue \in [Ports -> S]
      BY <2>1
    <3> HIDE DEF S
    <3>2. mOutputQueue' \in [Ports -> S]
      BY <1>2, <3>1
    <3> QED BY <3>2 DEF S
  <2> QED BY <2>2, <2>3, <2>4
<1>7. QueueType'
  BY <1>6 DEF QueueType
<1> QED BY <1>1, <1>2, <1>5, <1>6, <1>7 DEF left, state

-----------------------------------------------------------------------------
(* The types.                                                              *)

\* An executor that goes on has its sequence still, when it has one.
LEMMA SeqKept ==
  ASSUME SeqInv, NEW e \in Executors,
         \A f \in Executors : f # e => ex'[f] = ex[f],
         \/ ex'[e].seq = ex[e].seq /\ ex[e].pc \in {"wait", "sleep", "pal", "run"}
         \/ ex'[e].seq \in Sequences0
         \/ ex'[e].pc \notin {"wait", "sleep", "pal", "run"}
  PROVE  SeqInv'
<1>1. ASSUME NEW f \in Executors, ex'[f].pc \in {"wait", "sleep", "pal", "run"}
      PROVE  ex'[f].seq \in Sequences0
  <2>1. CASE f = e
    BY <1>1, <2>1 DEF SeqInv
  <2>2. CASE f # e
    BY <1>1, <2>2 DEF SeqInv
  <2> QED BY <2>1, <2>2
<1> QED BY <1>1 DEF SeqInv

\* Every step of an executor keeps the types.
LEMMA ExecutorType ==
  ASSUME TypeInv, SleepInv, NEW e \in Executors, ExecutorStep(e) \/ RunFails(e)
  PROVE  TypeInv' /\ dag' = dag
<1>1. /\ dag' = dag /\ ad' = ad /\ tasks' = tasks /\ ispParam' = ispParam /\ AdderInv'
      /\ (dag \in Dags)' /\ SeqInv
  BY DEF TypeInv, AdderInv, ExecutorStep, Fetch, ThreadExits, WaitPolicy, WaitTimesOut, GetPal,
         NotifyConsumer, onFrameDone, BufferDone, returnBuffers, ReturnInput, RunFails, taskVars,
         palVars
<1>2. CASE Fetch(e)
  <2>1. SeqInv' /\ ex' \in [Executors -> Threads] /\ QueueType'
    BY <1>1, <1>2, FetchEffect, SeqKept
  <2>2. (policy \in Policies)' /\ TaskInv' /\ PalInv'
    BY <1>2 DEF TypeInv, TaskInv, TaskType, PalInv, PalType, Fetch, taskVars, palVars
  <2> QED BY <1>1, <2>1, <2>2 DEF TypeInv
<1>3. CASE ThreadExits(e)
  <2>1. SeqInv' /\ ex' \in [Executors -> Threads]
    BY <1>1, <1>3, ExitsEffect, SeqKept
  <2>2. (policy \in Policies)' /\ TaskInv' /\ PalInv' /\ QueueType'
    BY <1>3 DEF TypeInv, TaskInv, TaskType, PalInv, PalType, ThreadExits, taskVars, palVars,
                QueueType, queueVars
  <2> QED BY <1>1, <2>1, <2>2 DEF TypeInv
<1>4. CASE WaitPolicy(e)
  <2>1. e \in Bundle
    BY <1>4 DEF WaitPolicy, ExAt, SleepInv
  <2>2. /\ ex' \in [Executors -> Threads] /\ policy' \in Policies
        /\ ExAt(e, "wait")
        /\ \A f \in Executors : ex'[f].running = ex[f].running /\ ex'[f].seq = ex[f].seq
        /\ \A f \in Executors : f = e \/ ex'[f].pc = ex[f].pc
                                \/ (ExAt(f, "sleep") /\ ex'[f].pc = "pal")
    BY <1>4, <2>1, WaitEffect
  <2>3. SeqInv'
    BY <1>1, <2>2 DEF SeqInv, ExAt
  <2>4. TaskInv' /\ PalInv' /\ QueueType'
    BY <1>4 DEF TypeInv, TaskInv, TaskType, PalInv, PalType, WaitPolicy, taskVars, palVars,
                QueueType, queueVars
  <2> QED BY <1>1, <2>2, <2>3, <2>4 DEF TypeInv
<1>5. CASE WaitTimesOut(e)
  <2>1. SeqInv' /\ ex' \in [Executors -> Threads] /\ policy' \in Policies
    BY <1>1, <1>5, TimeoutEffect, SeqKept DEF ExAt
  <2>2. TaskInv' /\ PalInv' /\ QueueType'
    BY <1>5 DEF TypeInv, TaskInv, TaskType, PalInv, PalType, WaitTimesOut, taskVars, palVars,
                QueueType, queueVars
  <2> QED BY <1>1, <2>1, <2>2 DEF TypeInv
<1>6. CASE GetPal(e)
  <2>1. SeqInv' /\ ex' \in [Executors -> Threads]
    BY <1>1, <1>6, GetPalEffect, SeqKept DEF ExAt
  <2>2. (policy \in Policies)' /\ TaskInv' /\ PalInv' /\ QueueType'
    BY <1>6 DEF TypeInv, TaskInv, TaskType, PalInv, PalType, GetPal, taskVars, palVars,
                QueueType, queueVars
  <2> QED BY <1>1, <2>1, <2>2 DEF TypeInv
<1>7. CASE NotifyConsumer(e)
  <2>1. SeqInv' /\ ex' \in [Executors -> Threads] /\ QueueType'
    BY <1>1, <1>7, NotifyEffect, SeqKept
  <2>2. (policy \in Policies)' /\ TaskInv' /\ PalInv'
    BY <1>7 DEF TypeInv, TaskInv, TaskType, PalInv, PalType, NotifyConsumer, taskVars, palVars
  <2> QED BY <1>1, <2>1, <2>2 DEF TypeInv
<1>8. CASE onFrameDone(e)
  <2>1. SeqInv' /\ ex' \in [Executors -> Threads] /\ TaskInv' /\ PalInv'
    BY <1>1, <1>8, FrameDoneEffect, SeqKept
  <2>2. (policy \in Policies)' /\ QueueType'
    BY <1>8 DEF TypeInv, onFrameDone, QueueType, queueVars
  <2> QED BY <1>1, <2>1, <2>2 DEF TypeInv
<1>9. CASE BufferDone(e) \/ returnBuffers(e)
  <2>1. SeqInv' /\ ex' \in [Executors -> Threads]
    BY <1>1, <1>9, CallbackEffect, SeqKept
  <2>2. (policy \in Policies)' /\ TaskInv' /\ PalInv' /\ QueueType'
    BY <1>9 DEF TypeInv, TaskInv, TaskType, PalInv, PalType, BufferDone, returnBuffers, taskVars,
                palVars, QueueType, queueVars
  <2> QED BY <1>1, <2>1, <2>2 DEF TypeInv
<1>10. CASE ReturnInput(e)
  <2>1. SeqInv' /\ ex' \in [Executors -> Threads] /\ QueueType'
    BY <1>1, <1>10, ReturnEffect, SeqKept
  <2>2. (policy \in Policies)' /\ TaskInv' /\ PalInv'
    BY <1>10 DEF TypeInv, TaskInv, TaskType, PalInv, PalType, ReturnInput, taskVars, palVars
  <2> QED BY <1>1, <2>1, <2>2 DEF TypeInv
<1>11. CASE RunFails(e)
  <2>1. SeqInv' /\ ex' \in [Executors -> Threads]
    BY <1>1, <1>11, FailEffect, SeqKept
  <2>2. (policy \in Policies)' /\ TaskInv' /\ PalInv' /\ QueueType'
    BY <1>11 DEF TypeInv, TaskInv, TaskType, PalInv, PalType, RunFails, taskVars, palVars,
                 QueueType, queueVars
  <2> QED BY <1>1, <2>1, <2>2 DEF TypeInv
<1> QED BY <1>2, <1>3, <1>4, <1>5, <1>6, <1>7, <1>8, <1>9, <1>10, <1>11 DEF ExecutorStep

\* So do the switches of the DAG.
LEMMA ControlType ==
  ASSUME TypeInv, setActive \/ start \/ stopProcessing \/ notifyStop \/ JoinExecutor
  PROVE  TypeInv'
<1>1. TaskInv' /\ PalInv' /\ AdderInv' /\ SeqInv
  BY DEF TypeInv, TaskInv, TaskType, PalInv, PalType, AdderInv, setActive, start, stopProcessing,
         notifyStop, JoinExecutor, taskVars, palVars
<1>2. CASE setActive
  <2>1. ex' \in [Executors -> Threads] /\ policy' \in Policies /\ SeqInv'
    BY <1>1, <1>2, SwitchEffect DEF SeqInv, ExAt
  <2>2. QueueType' /\ (dag \in Dags)'
    BY <1>2 DEF TypeInv, setActive, QueueType, queueVars
  <2> QED BY <1>1, <2>1, <2>2 DEF TypeInv
<1>3. CASE start
  <2>1. ex' \in [Executors -> Threads] /\ policy' \in Policies /\ SeqInv' /\ QueueType' /\ dag' \in Dags
    BY <1>3, StartEffect DEF SeqInv
  <2> QED BY <1>1, <2>1 DEF TypeInv
<1>4. CASE stopProcessing
  <2>1. ex' \in [Executors -> Threads] /\ policy' \in Policies /\ SeqInv' /\ dag' \in Dags
    BY <1>1, <1>4, StopEffect DEF SeqInv, ExAt
  <2>2. QueueType'
    BY <1>4 DEF TypeInv, stopProcessing, QueueType, queueVars
  <2> QED BY <1>1, <2>1, <2>2 DEF TypeInv
<1>5. CASE notifyStop
  <2>1. ex' \in [Executors -> Threads] /\ SeqInv' /\ dag' \in Dags
    BY <1>1, <1>5, NotifyStopEffect DEF SeqInv
  <2>2. QueueType' /\ (policy \in Policies)'
    BY <1>5 DEF TypeInv, notifyStop, QueueType, queueVars
  <2> QED BY <1>1, <2>1, <2>2 DEF TypeInv
<1>6. CASE JoinExecutor
  <2>1. QueueType' /\ dag' \in Dags
    BY <1>6, JoinEffect
  <2>2. (ex \in [Executors -> Threads])' /\ SeqInv' /\ (policy \in Policies)'
    BY <1>6 DEF TypeInv, JoinExecutor, SeqInv
  <2> QED BY <1>1, <2>1, <2>2 DEF TypeInv
<1> QED BY <1>2, <1>3, <1>4, <1>5, <1>6

\* A step that changes nothing.
LEMMA StutterType == TypeInv /\ UNCHANGED vars => TypeInv'
  BY DEF TypeInv, TaskInv, TaskType, PalInv, PalType, AdderInv, QueueType, SeqInv, vars, taskVars,
         palVars, queueVars

\* The types hold before the first start().
LEMMA InitType == Init => TypeInv
<1> SUFFICES ASSUME Init PROVE TypeInv
  OBVIOUS
<1>1. TaskInv
  BY Constants DEF Init, TaskInv, TaskType
<1>2. PalInv
  <2>1. mOngoingPalMap \in [Sequences0 -> SUBSET Streams]
    BY DEF Init, Sequences0
  <2> DEFINE data == {[key |-> IF i = PalSize THEN -1 ELSE -i - 1, buf |-> i,
                       valid |-> i = PalSize] : i \in 1..PalSize}
  <2>2. data \subseteq Nodes /\ data # {}
    <3>1. ASSUME NEW i \in 1..PalSize
          PROVE  [key |-> IF i = PalSize THEN -1 ELSE -i - 1, buf |-> i, valid |-> i = PalSize]
                    \in Nodes
      <4>1. (IF i = PalSize THEN -1 ELSE -i - 1) \in -(PalSize + 1)..MaxSequence
        BY Constants
      <4>2. i \in 0..PalSize /\ (i = PalSize) \in BOOLEAN
        BY Constants
      <4> QED BY <4>1, <4>2 DEF Nodes
    <3>2. 1 \in 1..PalSize
      BY Constants
    <3> QED BY <3>1, <3>2
  <2>3. InitialIspParameter(PalSize).data = data
    BY DEF InitialIspParameter
  <2> HIDE DEF data
  <2>4. DOMAIN ispParam = Streams /\ \A s \in Streams : ispParam[s].data = data
    BY <2>3 DEF Init
  <2> QED BY <2>1, <2>2, <2>4 DEF PalInv, PalType
<1>3. AdderInv
  BY NoNodeType DEF Init, AdderInv, IdleAdder, Adders
<1>4. QueueType
  BY DEF Init, QueueType
<1>5. IdleExecutor("exited") \in Threads /\ IdleExecutor("exited").pc = "exited"
  BY IdleExecutorType DEF Points
<1>6. ex \in [Executors -> Threads] /\ SeqInv
  BY <1>5 DEF Init, SeqInv
<1>7. policy \in Policies /\ dag \in Dags
  BY DEF Init, Policies, Dags
<1> QED BY <1>1, <1>2, <1>3, <1>4, <1>6, <1>7 DEF TypeInv

-----------------------------------------------------------------------------
(* How the threads end, and who sleeps.                                    *)

\* The steps of an executor that have nothing to do with the policy.
QuietStep(e) ==
    \/ Fetch(e) \/ ThreadExits(e) \/ GetPal(e) \/ NotifyConsumer(e) \/ onFrameDone(e)
    \/ BufferDone(e) \/ returnBuffers(e) \/ ReturnInput(e) \/ RunFails(e)

\* Where they take the executor.
LEMMA QuietMoves ==
  ASSUME TypeInv, NEW e \in Executors, QuietStep(e)
  PROVE  /\ ~ Ended(e) /\ policy' = policy
         /\ \A f \in Executors : f # e => ex'[f] = ex[f]
         /\ ex'[e].running => ex[e].running
         /\ ex[e].pc # "sleep" /\ ex'[e].pc # "sleep"
         /\ ex'[e].pc = "wait" => e \in Bundle
<1>1. CASE Fetch(e)
  <2>1. policy' = policy /\ ExAt(e, "loop")
    BY <1>1 DEF Fetch
  <2> QED BY <1>1, <2>1, FetchEffect DEF Ended, ExAt
<1>2. CASE ThreadExits(e)
  <2>1. policy' = policy
    BY <1>2 DEF ThreadExits
  <2> QED BY <1>2, <2>1, ExitsEffect DEF Ended, ExAt
<1>3. CASE GetPal(e)
  <2>1. policy' = policy
    BY <1>3 DEF GetPal
  <2> QED BY <1>3, <2>1, GetPalEffect DEF Ended, ExAt
<1>4. CASE NotifyConsumer(e)
  <2>1. policy' = policy
    BY <1>4 DEF NotifyConsumer
  <2> QED BY <1>4, <2>1, NotifyEffect DEF Ended, ExAt
<1>5. CASE onFrameDone(e)
  <2>1. policy' = policy /\ ex[e].pc \in {"run", "count"}
    BY <1>5 DEF onFrameDone, AtFrameDone, ExAt
  <2> QED BY <1>5, <2>1, FrameDoneEffect DEF Ended
<1>6. CASE BufferDone(e) \/ returnBuffers(e)
  <2>1. policy' = policy
    BY <1>6 DEF BufferDone, returnBuffers
  <2> QED BY <1>6, <2>1, CallbackEffect DEF Ended
<1>7. CASE ReturnInput(e)
  <2>1. policy' = policy
    BY <1>7 DEF ReturnInput
  <2> QED BY <1>7, <2>1, ReturnEffect DEF Ended, ExAt
<1>8. CASE RunFails(e)
  <2>1. policy' = policy
    BY <1>8 DEF RunFails
  <2> QED BY <1>8, <2>1, FailEffect DEF Ended, ExAt
<1> QED BY <1>1, <1>2, <1>3, <1>4, <1>5, <1>6, <1>7, <1>8 DEF QuietStep

\* A step of an executor is quiet, or it asks the policy, or its wait times out.
LEMMA StepKinds ==
  ASSUME NEW e, ExecutorStep(e) \/ RunFails(e)
  PROVE  QuietStep(e) \/ WaitPolicy(e) \/ WaitTimesOut(e)
  BY DEF ExecutorStep, QuietStep

\* An executor that is at work may go on, sleep if the policy is active, and end.
LEMMA ExecutorEnds ==
  ASSUME TypeInv, EndInv, SleepInv, NEW e \in Executors, ExecutorStep(e) \/ RunFails(e)
  PROVE  EndInv' /\ SleepInv'
<1>1. dag' = dag /\ TypeInv'
  BY ExecutorType
<1>2. /\ ~ Ended(e) /\ policy'.mIsActive = policy.mIsActive
      /\ \A f \in Executors : /\ ex'[f].running => ex[f].running
                              /\ Ended(f) => ex'[f].pc = ex[f].pc
                              /\ ex'[f].pc \in {"wait", "sleep"} => f \in Bundle
                              /\ ex'[f].pc = "sleep" => ex[f].pc = "sleep" \/ policy.mIsActive
  <2>1. CASE QuietStep(e)
    <3>1. /\ ~ Ended(e) /\ policy' = policy
          /\ \A f \in Executors : f # e => ex'[f] = ex[f]
          /\ ex'[e].running => ex[e].running
          /\ ex[e].pc # "sleep" /\ ex'[e].pc # "sleep"
          /\ ex'[e].pc = "wait" => e \in Bundle
      BY <2>1, QuietMoves
    <3> QED BY <3>1 DEF SleepInv, Ended
  <2>2. CASE WaitPolicy(e)
    <3>1. e \in Bundle /\ ExAt(e, "wait")
      BY <2>2 DEF WaitPolicy, ExAt, SleepInv
    <3>2. /\ \A f \in Executors : ex'[f].running = ex[f].running
          /\ \A f \in Executors : f = e \/ ex'[f].pc = ex[f].pc
                                  \/ (ExAt(f, "sleep") /\ ex'[f].pc = "pal")
          /\ policy'.mIsActive = policy.mIsActive
      BY <2>2, <3>1, WaitEffect
    <3>3. ex'[e].pc = "sleep" => policy.mIsActive
      BY <2>2, <3>1, WaitEffect DEF Aligned
    <3> QED BY <3>1, <3>2, <3>3 DEF SleepInv, Ended, ExAt
  <2>3. CASE WaitTimesOut(e)
    <3>1. /\ ExAt(e, "sleep") /\ ex'[e].running = ex[e].running /\ ex'[e].pc = "pal"
          /\ \A f \in Executors : f # e => ex'[f] = ex[f]
          /\ policy'.mIsActive = policy.mIsActive
      BY <2>3, TimeoutEffect
    <3> QED BY <3>1 DEF SleepInv, Ended, ExAt
  <2> QED BY <2>1, <2>2, <2>3, StepKinds
<1>3. EndInv'
  BY <1>1, <1>2 DEF EndInv, Ended
<1>4. SleepInv'
  BY <1>1, <1>2 DEF SleepInv, Asleep, ExAt
<1> QED BY <1>3, <1>4

\* start() and stop() keep EndInv and SleepInv: nobody is left asleep by a stop.
LEMMA ControlEnds ==
  ASSUME TypeInv, EndInv, SleepInv,
         setActive \/ start \/ stopProcessing \/ notifyStop \/ JoinExecutor
  PROVE  EndInv' /\ SleepInv'
<1>1. CASE setActive
  BY <1>1, SwitchEffect DEF EndInv, SleepInv, Ended, Asleep, ExAt
<1>2. CASE start
  <2>1. dag.session \in Nat
    BY DEF TypeInv, Dags
  <2>2. dag.session + 1 # 0
    BY <2>1
  <2>3. /\ \A e \in Executors : ex'[e].pc = "loop"
        /\ policy'.mIsActive /\ dag'.state = "running" /\ dag'.session = dag.session + 1
    BY <1>2, StartEffect
  <2> QED BY <2>2, <2>3 DEF EndInv, SleepInv, Asleep, ExAt
<1>3. CASE stopProcessing
  <2>1. /\ \A e \in Executors :
              /\ ex'[e].pc = IF ExAt(e, "sleep") THEN "pal" ELSE ex[e].pc
              /\ ex'[e].running = ex[e].running
        /\ ~ policy'.mIsActive /\ dag.state = "running" /\ dag'.state = "notify"
        /\ dag'.session = dag.session
    BY <1>3, StopEffect
  <2> QED BY <2>1 DEF EndInv, SleepInv, Asleep, ExAt
<1>4. CASE notifyStop
  <2>1. policy' = policy
    BY <1>4 DEF notifyStop
  <2>2. /\ \A e \in Executors : ex'[e].pc = ex[e].pc /\ ~ ex'[e].running
        /\ dag.state = "notify" /\ dag'.state = "join"
        /\ dag'.session = dag.session /\ dag'.left = Executors
    BY <1>4, NotifyStopEffect
  <2> QED BY <2>1, <2>2 DEF EndInv, SleepInv, Asleep, ExAt
<1>5. CASE JoinExecutor
  <2>1. policy' = policy /\ ex' = ex
    BY <1>5 DEF JoinExecutor
  <2>2. dag.state = "join" /\ dag'.session = dag.session
    BY <1>5, JoinEffect
  <2>3. PICK e \in dag.left :
              /\ Ended(e) /\ dag'.left = dag.left \ {e}
              /\ dag'.state = IF dag.left = {e} THEN "stopped" ELSE "join"
    BY <1>5, JoinEffect
  <2>4. EndInv'
    BY <2>1, <2>2, <2>3 DEF EndInv, Ended
  <2>5. SleepInv'
    BY <2>1, <2>2, <2>3 DEF SleepInv, Asleep, ExAt
  <2> QED BY <2>4, <2>5
<1> QED BY <1>1, <1>2, <1>3, <1>4, <1>5

\* The adding thread does not touch the threads of the executors.
LEMMA AddingKeeps ==
  ASSUME AddTask \/ AddingThread \/ UNCHANGED vars
  PROVE  ex' = ex /\ policy' = policy /\ dag' = dag /\ free' = free
  BY DEF AddTask, AddingThread, PalDone, runIspAdapt, PalWritten, QueueInput, QueueOutput, vars,
         queueVars

-----------------------------------------------------------------------------
(* The count of the executors that sleep.                                  *)

\* The executors that sleep are of the bundle, so they can be counted.
LEMMA SleepersFinite ==
  ASSUME SleepInv
  PROVE  Asleep \subseteq Bundle /\ IsFiniteSet(Asleep) /\ Cardinality(Asleep) \in Nat
<1>1. Asleep \subseteq Bundle
  BY DEF SleepInv, Asleep, ExAt
<1>2. IsFiniteSet(Asleep)
  BY <1>1, DagAssumption, FS_Subset
<1> QED BY <1>1, <1>2, FS_CardinalityType


\* The count stays right when executors sleep, wake the others, or time out.
LEMMA ExecutorCounts ==
  ASSUME TypeInv, SleepInv, CountInv, NEW e \in Executors, ExecutorStep(e) \/ RunFails(e)
  PROVE  CountInv'
<1>1. policy.mWaitingCount \in Nat /\ Cardinality(Asleep) \in Nat /\ Cardinality(Bundle) \in Nat
      /\ IsFiniteSet(Asleep)
  BY SleepersFinite, Constants DEF TypeInv, Policies
<1>2. CASE QuietStep(e)
  <2>1. policy' = policy /\ Asleep' = Asleep
    BY <1>2, QuietMoves DEF Asleep, ExAt
  <2> QED BY <2>1 DEF CountInv
<1>3. CASE WaitPolicy(e)
  <2>1. e \in Bundle /\ ExAt(e, "wait") /\ e \notin Asleep
    BY <1>3 DEF WaitPolicy, ExAt, SleepInv, Asleep
  <2>2. policy'.timedOut = policy.timedOut
    BY <1>3, <2>1, WaitEffect
  <2>3. CASE ~ Aligned(e) \/ RunsFreely(e)
    <3>1. /\ ex'[e].pc = "pal" /\ \A f \in Executors : f # e => ex'[f] = ex[f]
          /\ policy'.mWaitingCount = policy.mWaitingCount
      BY <1>3, <2>1, <2>3, WaitEffect
    <3>2. Asleep' = Asleep
      BY <2>1, <3>1 DEF Asleep, ExAt
    <3> QED BY <2>2, <3>1, <3>2 DEF CountInv
  <2>4. CASE Aligned(e) /\ ~ RunsFreely(e) /\ ~ LastToCome
    <3>1. /\ ex'[e].pc = "sleep" /\ \A f \in Executors : f # e => ex'[f] = ex[f]
          /\ policy'.mWaitingCount = policy.mWaitingCount + 1
      BY <1>3, <2>1, <2>4, WaitEffect
    <3>2. Asleep' = Asleep \cup {e}
      BY <2>1, <3>1 DEF Asleep, ExAt
    <3>3. Cardinality(Asleep') = Cardinality(Asleep) + 1
      BY <1>1, <2>1, <3>2, FS_AddElement
    <3>4. ~ (policy.mWaitingCount + 1 >= Cardinality(Bundle))
      BY <2>4 DEF LastToCome
    <3> QED BY <1>1, <2>2, <3>1, <3>3, <3>4 DEF CountInv
  <2>5. CASE Aligned(e) /\ ~ RunsFreely(e) /\ LastToCome
    <3>1. /\ \A f \in Executors : ex'[f].pc = IF f = e \/ ExAt(f, "sleep") THEN "pal" ELSE ex[f].pc
          /\ policy'.mWaitingCount = 0
      BY <1>3, <2>1, <2>5, WaitEffect
    <3>2. Asleep' = {}
      BY <3>1 DEF Asleep, ExAt
    <3>3. Cardinality(Asleep') = 0
      BY <3>2, FS_EmptySet
    <3>4. Cardinality(Bundle) # 0
      BY <2>1, DagAssumption, FS_EmptySet
    <3> QED BY <1>1, <3>1, <3>3, <3>4 DEF CountInv
  <2> QED BY <2>3, <2>4, <2>5
<1>4. CASE WaitTimesOut(e)
  <2>1. /\ ExAt(e, "sleep") /\ ex'[e].pc = "pal"
        /\ \A f \in Executors : f # e => ex'[f] = ex[f]
        /\ policy'.timedOut /\ policy'.mWaitingCount = policy.mWaitingCount
    BY <1>4, TimeoutEffect
  <2>2. Asleep' = Asleep \ {e} /\ e \in Asleep
    BY <2>1 DEF Asleep, ExAt
  <2>3. Cardinality(Asleep') = Cardinality(Asleep) - 1
    BY <1>1, <2>2, FS_RemoveElement
  <2> QED BY <1>1, <2>1, <2>3 DEF CountInv
<1> QED BY <1>2, <1>3, <1>4, StepKinds

\* The count stays right over a pause, a start and a stop.
LEMMA ControlCounts ==
  ASSUME TypeInv, EndInv, SleepInv, CountInv,
         setActive \/ start \/ stopProcessing \/ notifyStop \/ JoinExecutor
  PROVE  CountInv'
<1>1. policy.mWaitingCount \in Nat /\ Cardinality(Asleep) \in Nat /\ Cardinality(Bundle) \in Nat
  BY SleepersFinite, Constants DEF TypeInv, Policies
<1>2. Bundle # {} => Cardinality(Bundle) > 0
  BY <1>1, DagAssumption, FS_EmptySet
<1>3. ASSUME Asleep' = {}, Asleep = {} \/ policy' # policy, policy'.timedOut = policy.timedOut,
             policy' = policy \/ policy'.mWaitingCount = 0
      PROVE  CountInv'
  <2>1. Cardinality(Asleep') = 0
    BY <1>3, FS_EmptySet
  <2>2. CASE policy' = policy
    <3>1. Cardinality(Asleep) = 0
      BY <1>3, <2>2, FS_EmptySet
    <3> QED BY <1>1, <2>1, <2>2, <3>1 DEF CountInv
  <2>3. CASE policy'.mWaitingCount = 0
    BY <1>1, <1>2, <2>1, <2>3 DEF CountInv
  <2> QED BY <1>3, <2>2, <2>3
<1>4. CASE setActive
  <2>1. Asleep' = {} /\ policy'.timedOut = policy.timedOut /\ policy'.mWaitingCount = 0
    BY <1>4, SwitchEffect DEF Asleep, ExAt
  <2>2. policy' # policy
    <3>1. policy'.mIsActive = ~ policy.mIsActive /\ policy.mIsActive \in BOOLEAN
      BY <1>4, SwitchEffect DEF TypeInv, Policies
    <3> QED BY <3>1
  <2> QED BY <1>3, <2>1, <2>2
<1>5. CASE start
  <2>1. /\ Asleep' = {} /\ policy'.timedOut = policy.timedOut
        /\ policy' = policy \/ policy'.mWaitingCount = 0
    BY <1>5, StartEffect DEF Asleep, ExAt
  <2>2. Asleep = {}
    BY <1>5, StartEffect DEF EndInv, Ended, Asleep, ExAt
  <2> QED BY <1>3, <2>1, <2>2
<1>6. CASE stopProcessing
  <2>1. /\ Asleep' = {} /\ policy'.timedOut = policy.timedOut
        /\ policy' = policy \/ policy'.mWaitingCount = 0
    BY <1>6, StopEffect DEF Asleep, ExAt
  <2>2. policy' = policy => Asleep = {}
    BY <1>6, StopEffect DEF SleepInv
  <2> QED BY <1>3, <2>1, <2>2
<1>7. CASE notifyStop
  <2>1. policy' = policy /\ Asleep' = Asleep
    BY <1>7, NotifyStopEffect DEF notifyStop, Asleep, ExAt
  <2> QED BY <2>1 DEF CountInv
<1>8. CASE JoinExecutor
  <2>1. policy' = policy /\ Asleep' = Asleep
    BY <1>8 DEF JoinExecutor, Asleep, ExAt
  <2> QED BY <2>1 DEF CountInv
<1> QED BY <1>4, <1>5, <1>6, <1>7, <1>8

-----------------------------------------------------------------------------
(* The executors of a bundle run together.                                 *)

\* MaxDepth is the greatest of the depths.
LEMMA Depths ==
  ASSUME Bundle # {}
  PROVE  MaxDepth \in Nat /\ \A e \in Bundle : BundleDepth[e] \in Nat /\ BundleDepth[e] <= MaxDepth
<1> DEFINE n == Cardinality(Bundle)
           S == {BundleDepth[e] : e \in Bundle}
<1>1. n \in Nat /\ ExistsBijection(1..n, Bundle)
  BY DagAssumption, FS_CardinalityType
<1>2. PICK g \in [1..n -> Bundle] : \A e \in Bundle : \E i \in 1..n : g[i] = e
  BY <1>1 DEF ExistsBijection, Bijection, Surjection
<1>3. BundleDepth \in [Bundle -> Nat]
  BY DagAssumption
<1> DEFINE f == [i \in 1..n |-> BundleDepth[g[i]]]
<1>4. f \in [1..n -> Nat]
  BY <1>2, <1>3
<1>5. \A e \in Bundle : \E i \in 1..n : f[i] = BundleDepth[e]
  BY <1>2
<1> HIDE DEF f, n
<1>6. PICK b \in Nat : \A i \in 1..n : f[i] <= b
  BY <1>1, <1>4, FiniteBounded
<1>7. S \in SUBSET Nat /\ S # {} /\ \A y \in S : y <= b
  BY <1>3, <1>5, <1>6
<1>8. Max(S) \in S /\ \A y \in S : Max(S) >= y
  <2> HIDE DEF S
  <2> QED BY <1>7, MaxIsGreatest
<1>9. \A e \in Bundle : BundleDepth[e] \in S /\ BundleDepth[e] \in Nat
  BY <1>3
<1>10. MaxDepth = Max(S)
  BY DEF MaxDepth
<1> HIDE DEF S
<1>11. MaxDepth \in Nat
  BY <1>7, <1>8, <1>10
<1>12. ASSUME NEW e \in Bundle PROVE BundleDepth[e] <= MaxDepth
  <2>1. MaxDepth >= BundleDepth[e] /\ BundleDepth[e] \in Nat
    BY <1>8, <1>9, <1>10
  <2> QED BY <1>11, <2>1
<1> QED BY <1>9, <1>11, <1>12

\* The numbers of an executor of the bundle.
LEMMA Runs ==
  ASSUME TypeInv, NEW e \in Bundle
  PROVE  /\ policy.mRunCount[e] \in Nat /\ BundleDepth[e] \in Nat /\ MaxDepth \in Nat
         /\ BundleDepth[e] <= MaxDepth /\ e \in Executors /\ Passed(e) \in Int
         /\ ExAt(e, "sleep") => Passed(e) = (policy.mRunCount[e] - 1) + BundleDepth[e]
         /\ ~ ExAt(e, "sleep") => Passed(e) = policy.mRunCount[e] + BundleDepth[e]
<1>1. policy.mRunCount[e] \in Nat
  BY DEF TypeInv, Policies
<1>2. BundleDepth[e] \in Nat /\ MaxDepth \in Nat /\ BundleDepth[e] <= MaxDepth /\ e \in Executors
  BY Depths, DagAssumption
<1> QED BY <1>1, <1>2 DEF Passed

\* Nothing changes for the policy.
LEMMA RunKept ==
  ASSUME RunInv, policy' = policy, \A e \in Bundle : ExAt(e, "sleep")' = ExAt(e, "sleep")
  PROVE  RunInv'
<1>1. ASSUME NEW e \in Bundle PROVE Passed(e)' = Passed(e)
  BY DEF Passed
<1> QED BY <1>1 DEF RunInv

\* All counts are reset and nobody sleeps.
LEMMA RunReset ==
  ASSUME TypeInv', policy'.mRunCount = [e \in Bundle |-> 0], Asleep' = {}
  PROVE  RunInv'
<1>1. ASSUME NEW e \in Bundle
      PROVE  ~ ExAt(e, "sleep")' /\ Passed(e)' <= MaxDepth
  <2>1. e \in Executors /\ BundleDepth[e] \in Nat /\ MaxDepth \in Nat /\ BundleDepth[e] <= MaxDepth
    BY Depths, DagAssumption
  <2>2. ~ (ex'[e].pc = "sleep") /\ policy'.mRunCount[e] = 0
    BY <2>1 DEF Asleep, ExAt
  <2>3. Passed(e)' = (0 - 0) + BundleDepth[e]
    BY <2>2 DEF Passed, ExAt
  <2> QED BY <2>1, <2>2, <2>3 DEF ExAt
<1> QED BY <1>1 DEF RunInv

\* The last one of the bundle comes: all the others sleep.
LEMMA LastFindsAsleep ==
  ASSUME TypeInv, SleepInv, CountInv, ~ policy.timedOut, NEW e \in Bundle, ~ ExAt(e, "sleep"),
         LastToCome
  PROVE  \A f \in Bundle : f # e => ExAt(f, "sleep")
<1>1. Asleep \subseteq Bundle \ {e} /\ IsFiniteSet(Asleep) /\ Cardinality(Asleep) \in Nat
  BY SleepersFinite DEF Asleep
<1>2. IsFiniteSet(Bundle \ {e}) /\ Cardinality(Bundle \ {e}) = Cardinality(Bundle) - 1
  BY DagAssumption, FS_RemoveElement
<1>3. Cardinality(Asleep) + 1 >= Cardinality(Bundle)
  BY DEF CountInv, LastToCome
<1>4. Cardinality(Asleep) <= Cardinality(Bundle \ {e})
  BY <1>1, <1>2, FS_Subset
<1>5. Cardinality(Bundle \ {e}) = Cardinality(Asleep)
  BY <1>1, <1>2, <1>3, <1>4, Constants
<1>6. Bundle \ {e} = Asleep
  BY <1>1, <1>2, <1>5, FS_Subset
<1> QED BY <1>6 DEF Asleep

\* PolicyManager::wait keeps the executors of the bundle together.
LEMMA WaitRuns ==
  ASSUME TypeInv, TypeInv', SleepInv, CountInv, RunInv, NEW e \in Executors, WaitPolicy(e)
  PROVE  RunInv'
<1>1. e \in Bundle /\ ExAt(e, "wait") /\ ~ ExAt(e, "sleep")
  BY DEF WaitPolicy, ExAt, SleepInv
<1>2. /\ policy.mRunCount[e] \in Nat /\ BundleDepth[e] \in Nat /\ MaxDepth \in Nat
      /\ Passed(e) = policy.mRunCount[e] + BundleDepth[e] /\ policy.mRunCount \in [Bundle -> Nat]
  BY <1>1, Runs DEF TypeInv, Policies
<1>3. policy'.timedOut = policy.timedOut
  BY <1>1, WaitEffect
<1>4. CASE ~ Aligned(e)
  <2>1. policy' = policy /\ ex'[e].pc = "pal" /\ \A f \in Executors : f # e => ex'[f] = ex[f]
    BY <1>1, <1>4, WaitEffect
  <2>2. \A f \in Bundle : ExAt(f, "sleep")' = ExAt(f, "sleep")
    BY <1>1, <2>1, DagAssumption DEF ExAt
  <2> QED BY <2>1, <2>2, RunKept
<1>5. ASSUME Aligned(e), NEW f \in Bundle, f # e, ex'[f].pc = ex[f].pc
      PROVE  Passed(f)' = Passed(f) /\ ExAt(f, "sleep")' = ExAt(f, "sleep")
  <2>1. policy'.mRunCount = [policy.mRunCount EXCEPT ![e] = @ + 1]
    BY <1>1, <1>5, WaitEffect
  <2>2. policy'.mRunCount[f] = policy.mRunCount[f]
    BY <1>2, <1>5, <2>1
  <2> QED BY <1>5, <2>2 DEF Passed, ExAt
<1>6. ASSUME Aligned(e) PROVE policy'.mRunCount[e] = policy.mRunCount[e] + 1
  BY <1>1, <1>2, <1>6, WaitEffect, ZenonT(60)
<1>7. CASE Aligned(e) /\ RunsFreely(e)
  <2>1. ex'[e].pc = "pal" /\ \A f \in Executors : f # e => ex'[f] = ex[f]
    BY <1>1, <1>7, WaitEffect
  <2>2. \A f \in Bundle : f # e => Passed(f)' = Passed(f) /\ ExAt(f, "sleep")' = ExAt(f, "sleep")
    BY <1>5, <1>7, <2>1, DagAssumption
  <2>3. Passed(e)' = (policy.mRunCount[e] + 1) + BundleDepth[e] /\ ~ ExAt(e, "sleep")'
    <3>1. ~ ExAt(e, "sleep")'
      BY <2>1 DEF ExAt
    <3> QED BY <1>1, <1>2, <1>6, <1>7, <3>1 DEF Passed
  <2>4. Passed(e)' <= MaxDepth /\ Passed(e)' \in Int /\ Passed(e) <= Passed(e)'
    BY <1>2, <1>7, <2>3 DEF RunsFreely
  <2>5. ASSUME NEW f \in Bundle, NEW g \in Bundle, ~ policy.timedOut
        PROVE  Passed(f)' <= MaxDepth \/ Passed(f)' <= Passed(g)'
    <3>1. CASE f = e
      BY <2>4, <3>1
    <3>2. CASE f # e /\ g # e
      BY <2>2, <2>5, <3>2 DEF RunInv
    <3>3. CASE f # e /\ g = e
      <4>1. Passed(f) <= MaxDepth \/ Passed(f) <= Passed(e)
        BY <1>1, <2>5 DEF RunInv
      <4>2. Passed(f)' = Passed(f) /\ Passed(f) \in Int /\ Passed(e) \in Int
        BY <1>1, <2>2, <3>3, Runs
      <4> QED BY <1>2, <2>4, <3>3, <4>1, <4>2
    <3> QED BY <3>1, <3>2, <3>3
  <2>6. \A f \in Bundle : ExAt(f, "sleep")' => Passed(f)' >= MaxDepth
    BY <2>2, <2>3 DEF RunInv
  <2> QED BY <1>3, <2>5, <2>6 DEF RunInv
<1>8. CASE Aligned(e) /\ ~ RunsFreely(e) /\ ~ LastToCome
  <2>1. ex'[e].pc = "sleep" /\ \A f \in Executors : f # e => ex'[f] = ex[f]
    BY <1>1, <1>8, WaitEffect
  <2>2. \A f \in Bundle : f # e => Passed(f)' = Passed(f) /\ ExAt(f, "sleep")' = ExAt(f, "sleep")
    BY <1>5, <1>8, <2>1, DagAssumption
  <2>3. Passed(e)' = Passed(e)
    <3>1. ExAt(e, "sleep")'
      BY <2>1 DEF ExAt
    <3>2. Passed(e)' = ((policy.mRunCount[e] + 1) - 1) + BundleDepth[e]
      BY <1>6, <1>8, <3>1 DEF Passed
    <3> QED BY <1>2, <3>2
  <2>4. Passed(e) >= MaxDepth
    BY <1>2, <1>8 DEF RunsFreely
  <2>5. \A f \in Bundle : Passed(f)' = Passed(f)
    BY <2>2, <2>3
  <2>6. \A f \in Bundle : ExAt(f, "sleep")' => Passed(f)' >= MaxDepth
    BY <2>2, <2>4, <2>5 DEF RunInv
  <2> QED BY <1>3, <2>5, <2>6 DEF RunInv
<1>9. CASE Aligned(e) /\ ~ RunsFreely(e) /\ LastToCome
  <2>1. \A f \in Executors : ex'[f].pc = IF f = e \/ ExAt(f, "sleep") THEN "pal" ELSE ex[f].pc
    BY <1>1, <1>9, WaitEffect
  <2>2. \A f \in Bundle : ~ ExAt(f, "sleep")'
    BY <2>1, DagAssumption DEF ExAt
  <2>3. ASSUME ~ policy.timedOut, NEW f \in Bundle
        PROVE  Passed(f)' = Passed(f) + 1 /\ Passed(f) >= MaxDepth /\ Passed(f) \in Int
    <3>1. CASE f = e
      <4>1. Passed(e)' = (policy.mRunCount[e] + 1) + BundleDepth[e]
        BY <1>1, <1>2, <1>6, <1>9, <2>2 DEF Passed
      <4> QED BY <1>2, <1>9, <3>1, <4>1 DEF RunsFreely
    <3>2. CASE f # e
      <4>1. ExAt(f, "sleep")
        BY <1>1, <1>9, <2>3, <3>2, LastFindsAsleep
      <4>2. policy'.mRunCount = [policy.mRunCount EXCEPT ![e] = @ + 1]
        BY <1>1, <1>9, WaitEffect
      <4>3. policy'.mRunCount[f] = policy.mRunCount[f] /\ policy.mRunCount[f] \in Nat
        BY <1>2, <3>2, <4>2
      <4>4. Passed(f)' = policy.mRunCount[f] + BundleDepth[f]
        <5>1. Passed(f)' = (policy.mRunCount[f] - 0) + BundleDepth[f]
          BY <2>2, <4>3 DEF Passed
        <5> QED BY <4>3, <5>1, Runs
      <4>5. Passed(f) = (policy.mRunCount[f] - 1) + BundleDepth[f] /\ BundleDepth[f] \in Nat
        BY <4>1, Runs
      <4>6. Passed(f) >= MaxDepth
        BY <4>1 DEF RunInv
      <4> QED BY <4>3, <4>4, <4>5, <4>6
    <3> QED BY <3>1, <3>2
  <2>4. ASSUME NEW f \in Bundle, NEW g \in Bundle, ~ policy.timedOut
        PROVE  Passed(f)' <= Passed(g)'
    <3>1. Passed(f) <= MaxDepth \/ Passed(f) <= Passed(g)
      BY <2>4 DEF RunInv
    <3>2. /\ Passed(f)' = Passed(f) + 1 /\ Passed(f) \in Int
          /\ Passed(g)' = Passed(g) + 1 /\ Passed(g) >= MaxDepth /\ Passed(g) \in Int
      BY <2>3, <2>4
    <3> QED BY <1>2, <3>1, <3>2
  <2> QED BY <1>3, <2>2, <2>4 DEF RunInv
<1> QED BY <1>4, <1>7, <1>8, <1>9

\* So does every step of an executor.
LEMMA ExecutorRuns ==
  ASSUME TypeInv, TypeInv', SleepInv, CountInv, RunInv, NEW e \in Executors,
         ExecutorStep(e) \/ RunFails(e)
  PROVE  RunInv'
<1>1. CASE QuietStep(e)
  <2>1. policy' = policy /\ \A f \in Bundle : ExAt(f, "sleep")' = ExAt(f, "sleep")
    BY <1>1, QuietMoves, DagAssumption DEF ExAt
  <2> QED BY <2>1, RunKept
<1>2. CASE WaitPolicy(e)
  BY <1>2, WaitRuns
<1>3. CASE WaitTimesOut(e)
  <2>1. /\ ex'[e].pc = "pal" /\ \A f \in Executors : f # e => ex'[f] = ex[f]
        /\ policy'.timedOut /\ policy'.mRunCount = policy.mRunCount
    BY <1>3, TimeoutEffect
  <2>2. ASSUME NEW f \in Bundle, ExAt(f, "sleep")'
        PROVE  Passed(f)' >= MaxDepth
    <3>1. f # e /\ f \in Executors
      BY <2>1, <2>2, DagAssumption DEF ExAt
    <3>2. ex'[f] = ex[f]
      BY <2>1, <3>1
    <3>3. ExAt(f, "sleep") /\ Passed(f)' = Passed(f)
      BY <2>1, <2>2, <3>2 DEF Passed, ExAt
    <3> QED BY <3>3 DEF RunInv
  <2> QED BY <2>1, <2>2 DEF RunInv
<1> QED BY <1>1, <1>2, <1>3, StepKinds

\* The counts are reset for all together, or stay.
LEMMA ControlRuns ==
  ASSUME TypeInv, TypeInv', EndInv, SleepInv, RunInv,
         setActive \/ start \/ stopProcessing \/ notifyStop \/ JoinExecutor
  PROVE  RunInv'
<1>1. CASE setActive
  <2>1. Asleep' = {} /\ policy'.mRunCount = [e \in Bundle |-> 0]
    BY <1>1, SwitchEffect DEF Asleep, ExAt
  <2> QED BY <2>1, RunReset
<1>2. ASSUME Asleep' = {}, policy' = policy => Asleep = {},
             policy' = policy \/ policy'.mRunCount = [e \in Bundle |-> 0]
      PROVE  RunInv'
  <2>1. CASE policy' = policy
    <3>1. \A e \in Bundle : ExAt(e, "sleep")' = ExAt(e, "sleep")
      BY <1>2, <2>1, DagAssumption DEF Asleep, ExAt
    <3> QED BY <2>1, <3>1, RunKept
  <2>2. CASE policy'.mRunCount = [e \in Bundle |-> 0]
    BY <1>2, <2>2, RunReset
  <2> QED BY <1>2, <2>1, <2>2
<1>3. CASE start
  <2>1. Asleep' = {} /\ (policy' = policy \/ policy'.mRunCount = [e \in Bundle |-> 0])
    BY <1>3, StartEffect DEF Asleep, ExAt
  <2>2. Asleep = {}
    BY <1>3, StartEffect DEF EndInv, Ended, Asleep, ExAt
  <2> QED BY <1>2, <2>1, <2>2
<1>4. CASE stopProcessing
  <2>1. Asleep' = {} /\ (policy' = policy \/ policy'.mRunCount = [e \in Bundle |-> 0])
    BY <1>4, StopEffect DEF Asleep, ExAt
  <2>2. policy' = policy => Asleep = {}
    BY <1>4, StopEffect DEF SleepInv
  <2> QED BY <1>2, <2>1, <2>2
<1>5. CASE notifyStop
  <2>1. policy' = policy /\ \A e \in Bundle : ExAt(e, "sleep")' = ExAt(e, "sleep")
    BY <1>5, NotifyStopEffect, DagAssumption DEF notifyStop, ExAt
  <2> QED BY <2>1, RunKept
<1>6. CASE JoinExecutor
  <2>1. policy' = policy /\ \A e \in Bundle : ExAt(e, "sleep")' = ExAt(e, "sleep")
    BY <1>6 DEF JoinExecutor, ExAt
  <2> QED BY <2>1, RunKept
<1> QED BY <1>1, <1>3, <1>4, <1>5, <1>6

-----------------------------------------------------------------------------
(* The buffers of a link.                                                  *)

\* The buffer in the hands of the producer, and the one in the hands of the consumer
Hold(e) == IF ex[e].pc \in {"wait", "sleep", "pal", "run", "dead"} THEN 1 ELSE 0
Take(e) == IF ex[e].pc \notin {"loop", "exited"} THEN 1 ELSE 0

\* The places of the buffers of a link, and their numbers.
LEMMA LinkSum ==
  ASSUME TypeInv, NEW e \in Executors, ~ IsOutputEdge(e)
  PROVE  /\ InterBuffers(e) = free[e] + Len(mInputQueue[Consumer(e)]) + Hold(e) + Take(Consumer(e))
         /\ free[e] \in Nat /\ Len(mInputQueue[Consumer(e)]) \in Nat
         /\ Hold(e) \in {0, 1} /\ Take(Consumer(e)) \in {0, 1} /\ Busy(Consumer(e)) \in {0, 1}
         /\ Consumer(e) \in Executors /\ Consumer(e) # e /\ ~ IsInputEdge(Consumer(e))
         /\ Producer(Consumer(e)) = e
         /\ InterBuffers(e) \in Nat
<1>1. /\ Consumer(e) \in Executors /\ Consumer(e) # e /\ ~ IsInputEdge(Consumer(e))
      /\ Producer(Consumer(e)) = e
  BY Neighbours
<1>2. free[e] \in Nat /\ Len(mInputQueue[Consumer(e)]) \in Nat
  BY <1>1 DEF TypeInv, QueueType
<1>3. Hold(e) \in {0, 1} /\ Take(Consumer(e)) \in {0, 1} /\ Busy(Consumer(e)) \in {0, 1}
  BY DEF Hold, Take, Busy
<1>4. InterBuffers(e) = free[e] + Len(mInputQueue[Consumer(e)]) + Hold(e) + Take(Consumer(e))
  BY DEF InterBuffers, Hold, Take
<1> QED BY <1>1, <1>2, <1>3, <1>4

\* The steps that touch no queue.
SilentStep(a) ==
    \/ ThreadExits(a) \/ GetPal(a) \/ onFrameDone(a) \/ BufferDone(a) \/ returnBuffers(a)
    \/ RunFails(a) \/ WaitPolicy(a) \/ WaitTimesOut(a)

\* They leave the buffers in the same hands; a thread that dies keeps its buffers.
LEMMA SilentHands ==
  ASSUME TypeInv, SleepInv, NEW a \in Executors, SilentStep(a), NEW f \in Executors
  PROVE  /\ free' = free /\ mInputQueue' = mInputQueue
         /\ ~ IsOutputEdge(f) => Hold(f)' = Hold(f)
         /\ ~ IsInputEdge(f) => Take(f)' = Take(f) /\ Busy(f)' <= Busy(f)
<1>1. free' = free /\ mInputQueue' = mInputQueue
  BY DEF SilentStep, ThreadExits, GetPal, onFrameDone, BufferDone, returnBuffers, RunFails,
         WaitPolicy, WaitTimesOut, queueVars
<1>2. CASE ThreadExits(a)
  BY <1>1, <1>2, ExitsEffect DEF Hold, Take, Busy, ExAt
<1>3. CASE GetPal(a)
  BY <1>1, <1>3, GetPalEffect DEF Hold, Take, Busy, ExAt
<1>4. CASE onFrameDone(a)
  BY <1>1, <1>4, FrameDoneEffect DEF Hold, Take, Busy, ExAt, AtFrameDone
<1>5. CASE BufferDone(a) \/ returnBuffers(a)
  BY <1>1, <1>5, CallbackEffect DEF Hold, Take, Busy
<1>6. CASE RunFails(a)
  BY <1>1, <1>6, FailEffect DEF Hold, Take, Busy, ExAt
<1>7. CASE WaitPolicy(a)
  <2>1. a \in Bundle
    BY <1>7 DEF WaitPolicy, ExAt, SleepInv
  <2>2. /\ ExAt(a, "wait") /\ ex'[a].pc \in {"pal", "sleep"}
        /\ f = a \/ ex'[f].pc = ex[f].pc \/ (ExAt(f, "sleep") /\ ex'[f].pc = "pal")
    BY <1>7, <2>1, WaitEffect
  <2> QED BY <1>1, <2>2 DEF Hold, Take, Busy, ExAt
<1>8. CASE WaitTimesOut(a)
  BY <1>1, <1>8, TimeoutEffect DEF Hold, Take, Busy, ExAt
<1> QED BY <1>2, <1>3, <1>4, <1>5, <1>6, <1>7, <1>8 DEF SilentStep

\* A step of an executor moves a buffer of the link from one place to another; only the
\* producer, and a fetch of the consumer, make more of it than the consumer returns.
LEMMA ExecutorMoves ==
  ASSUME TypeInv, TypeInv', SleepInv, NEW a \in Executors, ExecutorStep(a) \/ RunFails(a),
         NEW e \in Executors, ~ IsOutputEdge(e)
  PROVE  /\ InterBuffers(e)' = InterBuffers(e)
         /\ a # e /\ ~ (a = Consumer(e) /\ Fetch(a)) =>
              /\ mInputQueue'[Consumer(e)] = mInputQueue[Consumer(e)]
              /\ free'[e] + Busy(Consumer(e))' <= free[e] + Busy(Consumer(e))
<1> DEFINE c == Consumer(e)
<1>1. /\ InterBuffers(e) = free[e] + Len(mInputQueue[c]) + Hold(e) + Take(c)
      /\ free[e] \in Nat /\ Len(mInputQueue[c]) \in Nat
      /\ Hold(e) \in {0, 1} /\ Take(c) \in {0, 1} /\ Busy(c) \in {0, 1}
      /\ c \in Executors /\ c # e /\ ~ IsInputEdge(c) /\ Producer(c) = e
  BY LinkSum
<1>2. /\ InterBuffers(e)' = free'[e] + Len(mInputQueue'[c]) + Hold(e)' + Take(c)'
      /\ free'[e] \in Nat /\ Len(mInputQueue'[c]) \in Nat
      /\ Hold(e)' \in {0, 1} /\ Take(c)' \in {0, 1} /\ Busy(c)' \in {0, 1}
  <2>1. c \in Executors
    BY <1>1
  <2>2. free'[e] \in Nat /\ Len(mInputQueue'[c]) \in Nat
    BY <2>1 DEF TypeInv, QueueType
  <2>3. InterBuffers(e)' = free'[e] + Len(mInputQueue'[c]) + Hold(e)' + Take(c)'
    BY DEF InterBuffers, Hold, Take, Consumer
  <2>4. Hold(e)' \in {0, 1} /\ Take(c)' \in {0, 1} /\ Busy(c)' \in {0, 1}
    BY DEF Hold, Take, Busy, Consumer
  <2> QED BY <2>2, <2>3, <2>4
<1>3. \A f \in Executors : (f # e /\ ~ IsOutputEdge(f) => Consumer(f) # c)
                           /\ (f # c /\ ~ IsInputEdge(f) => Producer(f) # e)
                           /\ (IsInputEdge(f) => Producer(f) # e)
  <2>1. ASSUME NEW f \in Executors, ~ IsOutputEdge(f), Consumer(f) = c PROVE f = e
    BY <1>1, <2>1, Neighbours
  <2>2. ASSUME NEW f \in Executors, ~ IsInputEdge(f), Producer(f) = e PROVE f = c
    BY <2>2, Neighbours
  <2>3. ASSUME NEW f \in Executors, IsInputEdge(f) PROVE Producer(f) # e
    BY <2>3, Neighbours
  <2> QED BY <2>1, <2>2, <2>3
<1> HIDE DEF c
<1>4. CASE SilentStep(a)
  <2>1. /\ free'[e] = free[e] /\ mInputQueue'[c] = mInputQueue[c]
        /\ Hold(e)' = Hold(e) /\ Take(c)' = Take(c) /\ Busy(c)' <= Busy(c)
    <3>1. free' = free /\ mInputQueue' = mInputQueue /\ Hold(e)' = Hold(e)
      BY <1>4, SilentHands
    <3>2. Take(c)' = Take(c) /\ Busy(c)' <= Busy(c)
      BY <1>1, <1>4, SilentHands
    <3> QED BY <3>1, <3>2
  <2>2. InterBuffers(e)' = InterBuffers(e)
    BY <1>1, <1>2, <2>1
  <2>3. free'[e] + Busy(c)' <= free[e] + Busy(c)
    BY <1>1, <1>2, <2>1
  <2> QED BY <2>1, <2>2, <2>3 DEF c
<1>5. CASE Fetch(a)
  <2>1. /\ ExAt(a, "loop") /\ ex'[a].pc \in {"wait", "pal"}
        /\ \A f \in Executors : f # a =>
             ex'[f] = ex[f] /\ mInputQueue'[f] = mInputQueue[f] /\ free'[f] = free[f]
        /\ mInputQueue[a] # <<>> /\ mInputQueue'[a] = Tail(mInputQueue[a])
        /\ ~ IsOutputEdge(a) => free[a] > 0 /\ free'[a] = free[a] - 1
    <3>1. ExAt(a, "loop")
      BY <1>5 DEF Fetch
    <3> QED BY <1>5, <3>1, FetchEffect
  <2>2. CASE a = e
    <3>1. free'[e] = free[e] - 1 /\ mInputQueue'[c] = mInputQueue[c] /\ Take(c)' = Take(c)
      BY <1>1, <2>1, <2>2 DEF Take
    <3>2. Hold(e) = 0 /\ Hold(e)' = 1
      BY <2>1, <2>2 DEF Hold, ExAt
    <3>3. InterBuffers(e)' = InterBuffers(e)
      BY <1>1, <1>2, <3>1, <3>2
    <3> QED BY <2>2, <3>3
  <2>3. CASE a = c
    <3>1. free'[e] = free[e] /\ Hold(e)' = Hold(e)
      BY <1>1, <2>1, <2>3 DEF Hold
    <3>2. Take(c) = 0 /\ Take(c)' = 1
      BY <2>1, <2>3 DEF Take, ExAt
    <3>3. Len(mInputQueue'[c]) = Len(mInputQueue[c]) - 1
      <4>1. mInputQueue[c] \in Seq(Sequences0)
        BY <1>1 DEF TypeInv, QueueType
      <4>2. mInputQueue[c] # <<>> /\ mInputQueue'[c] = Tail(mInputQueue[c])
        BY <2>1, <2>3
      <4> QED BY <4>1, <4>2, HeadTailProperties
    <3>4. InterBuffers(e)' = InterBuffers(e)
      BY <1>1, <1>2, <3>1, <3>2, <3>3
    <3> QED BY <1>5, <2>3, <3>4 DEF c
  <2>4. CASE a # e /\ a # c
    <3>1. /\ free'[e] = free[e] /\ mInputQueue'[c] = mInputQueue[c]
          /\ Hold(e)' = Hold(e) /\ Take(c)' = Take(c) /\ Busy(c)' = Busy(c)
      BY <1>1, <2>1, <2>4 DEF Hold, Take, Busy
    <3>2. InterBuffers(e)' = InterBuffers(e) /\ free'[e] + Busy(c)' <= free[e] + Busy(c)
      BY <1>1, <1>2, <3>1
    <3> QED BY <3>1, <3>2 DEF c
  <2> QED BY <2>2, <2>3, <2>4
<1>6. CASE NotifyConsumer(a)
  <2>1. /\ ExAt(a, "run") /\ ~ IsOutputEdge(a)
        /\ ex'[a].pc = IF IsInputEdge(a) THEN "loop" ELSE "return"
        /\ \A f \in Executors : f # a => ex'[f] = ex[f]
        /\ Len(mInputQueue'[Consumer(a)]) = Len(mInputQueue[Consumer(a)]) + 1
        /\ \A f \in Executors : f # Consumer(a) => mInputQueue'[f] = mInputQueue[f]
        /\ free' = free
    <3>1. free' = free
      BY <1>6 DEF NotifyConsumer
    <3> QED BY <1>6, <3>1, NotifyEffect
  <2>2. CASE a = e
    <3>1. free'[e] = free[e] /\ Take(c)' = Take(c) /\ Hold(e) = 1 /\ Hold(e)' = 0
      BY <1>1, <2>1, <2>2 DEF Take, Hold, ExAt
    <3>2. Len(mInputQueue'[c]) = Len(mInputQueue[c]) + 1
      BY <2>1, <2>2 DEF c
    <3>3. InterBuffers(e)' = InterBuffers(e)
      BY <1>1, <1>2, <3>1, <3>2
    <3> QED BY <2>2, <3>3
  <2>3. CASE a # e
    <3>1. mInputQueue'[c] = mInputQueue[c] /\ free'[e] = free[e] /\ Hold(e)' = Hold(e)
      BY <1>1, <1>3, <2>1, <2>3 DEF Hold
    <3>2. Take(c)' = Take(c) /\ Busy(c)' = Busy(c)
      BY <1>1, <2>1 DEF Take, Busy, ExAt
    <3>3. InterBuffers(e)' = InterBuffers(e) /\ free'[e] + Busy(c)' <= free[e] + Busy(c)
      BY <1>1, <1>2, <3>1, <3>2
    <3> QED BY <3>1, <3>3 DEF c
  <2> QED BY <2>2, <2>3
<1>7. CASE ReturnInput(a)
  <2>1. /\ ExAt(a, "return") /\ ex'[a].pc = "loop"
        /\ \A f \in Executors : f # a => ex'[f] = ex[f]
        /\ ~ IsInputEdge(a) => free'[Producer(a)] = free[Producer(a)] + 1
        /\ \A f \in Executors : f # Producer(a) => free'[f] = free[f]
        /\ mInputQueue' = mInputQueue
    <3>1. mInputQueue' = mInputQueue
      BY <1>7 DEF ReturnInput
    <3> QED BY <1>7, <3>1, ReturnEffect
  <2>2. CASE a = c
    <3>1. free'[e] = free[e] + 1 /\ Hold(e)' = Hold(e)
      BY <1>1, <2>1, <2>2 DEF Hold
    <3>2. Take(c) = 1 /\ Take(c)' = 0 /\ Busy(c) = 1 /\ Busy(c)' = 0
      BY <2>1, <2>2 DEF Take, Busy, ExAt
    <3>3. InterBuffers(e)' = InterBuffers(e) /\ free'[e] + Busy(c)' <= free[e] + Busy(c)
      BY <1>1, <1>2, <2>1, <3>1, <3>2
    <3> QED BY <2>1, <3>3 DEF c
  <2>3. CASE a # c
    <3>1. free'[e] = free[e]
      BY <1>3, <2>1, <2>3
    <3>2. Hold(e)' = Hold(e) /\ Take(c)' = Take(c) /\ Busy(c)' = Busy(c)
      BY <1>1, <2>1, <2>3 DEF Hold, Take, Busy, ExAt
    <3>3. InterBuffers(e)' = InterBuffers(e) /\ free'[e] + Busy(c)' <= free[e] + Busy(c)
      BY <1>1, <1>2, <2>1, <3>1, <3>2
    <3> QED BY <2>1, <3>3 DEF c
  <2> QED BY <2>2, <2>3
<1> QED BY <1>4, <1>5, <1>6, <1>7 DEF ExecutorStep, SilentStep

\* Every step of an executor keeps the buffers of every link.
LEMMA ExecutorLinks ==
  ASSUME TypeInv, TypeInv', EndInv, SleepInv, LinkInv, NEW a \in Executors,
         ExecutorStep(a) \/ RunFails(a)
  PROVE  LinkInv'
<1> SUFFICES ASSUME NEW e \in Executors, ~ IsOutputEdge(e) PROVE Link(e)'
  BY DEF LinkInv, IsOutputEdge
<1> DEFINE c == Consumer(e)
<1>1. dag' = dag /\ Link(e)
  BY ExecutorType DEF LinkInv
<1>2. InterBuffers(e)' = InterBuffers(e)
  BY ExecutorMoves
<1>3. ~ Ended(a)
  <2>1. CASE QuietStep(a)
    BY <2>1, QuietMoves
  <2>2. CASE WaitPolicy(a) \/ WaitTimesOut(a)
    BY <2>2 DEF WaitPolicy, WaitTimesOut, ExAt, Ended
  <2> QED BY <2>1, <2>2, StepKinds
<1>4. dag.state # "stopped" /\ (dag.state = "join" => a \in dag.left /\ ~ Fetch(a))
  BY <1>3 DEF EndInv, Fetch
<1>5. CASE InUse(e)
  <2>1. dag.state = "join" => e \in dag.left
    BY <1>5 DEF InUse
  <2>2. dag.state = "join" => Consumer(e) \in dag.left
    BY <1>1, <2>1 DEF Link
  <2>3. InterBuffers(e)' \in NumInter..(NumInter + Extra)
    BY <1>1, <1>2, <1>5 DEF Link
  <2>4. Extra' = Extra /\ Consumer(e)' = Consumer(e)
    BY <1>1 DEF Extra, Consumer
  <2> QED BY <1>1, <1>4, <2>1, <2>2, <2>3, <2>4 DEF Link
<1>6. CASE ~ InUse(e)
  <2>1. dag.state = "join" /\ e \notin dag.left
    <3>1. dag.state \in {"stopped", "running", "notify", "join"}
      BY DEF TypeInv, Dags
    <3> QED BY <1>4, <1>6, <3>1 DEF InUse
  <2>2. a # e /\ ~ Fetch(a)
    BY <1>4, <2>1
  <2>3. mInputQueue'[c] = mInputQueue[c] /\ free'[e] + Busy(c)' <= free[e] + Busy(c)
    BY <2>2, ExecutorMoves
  <2>4. free[e] + Busy(c) <= 1
    BY <1>1, <2>1 DEF Link
  <2>5. free'[e] + Busy(c)' <= 1
    <3>1. c \in Executors /\ free[e] \in Nat /\ Busy(c) \in {0, 1}
      BY LinkSum
    <3>2. free'[e] \in Nat /\ Busy(c)' \in {0, 1}
      BY DEF TypeInv, QueueType, Busy, Consumer
    <3> QED BY <2>3, <2>4, <3>1, <3>2
  <2>6. Consumer(e)' = c /\ Busy(Consumer(e))' = Busy(c)'
    BY DEF Consumer
  <2> QED BY <1>1, <2>1, <2>3, <2>5, <2>6 DEF Link, InUse
<1> QED BY <1>5, <1>6

\* A link that nothing touches.
LEMMA LinkKept ==
  ASSUME NEW e \in Executors, Link(e), dag' = dag, ex' = ex, free' = free,
         mInputQueue'[Consumer(e)] = mInputQueue[Consumer(e)]
  PROVE  Link(e)'
  BY DEF Link, InUse, InterBuffers, Extra, Busy, Consumer

\* The adding thread queues frames for input edges only, which end no link.
LEMMA AddingLinks ==
  ASSUME TypeInv, LinkInv, AddTask \/ AddingThread \/ UNCHANGED vars
  PROVE  LinkInv'
<1> SUFFICES ASSUME NEW e \in Executors, ~ IsOutputEdge(e) PROVE Link(e)'
  BY DEF LinkInv, IsOutputEdge
<1>1. ex' = ex /\ dag' = dag /\ free' = free
  BY AddingKeeps
<1>2. mInputQueue'[Consumer(e)] = mInputQueue[Consumer(e)]
  <2>1. CASE QueueInput
    <3> DEFINE place == <<Min(ad.todo), 1>>
    <3>1. mInputQueue' = [mInputQueue EXCEPT ![place] = Append(@, LastSequence)]
      BY <2>1 DEF QueueInput
    <3>2. ~ IsInputEdge(Consumer(e)) /\ Consumer(e) \in Executors
      BY Neighbours
    <3>3. place[2] = 1
      OBVIOUS
    <3>4. Consumer(e) # place
      BY <3>2, <3>3 DEF IsInputEdge
    <3>5. mInputQueue \in [Executors -> Seq(Sequences0)]
      BY DEF TypeInv, QueueType
    <3> HIDE DEF place
    <3> QED BY <3>1, <3>2, <3>4, <3>5
  <2>2. CASE ~ QueueInput
    <3>1. mInputQueue' = mInputQueue
      BY <2>2 DEF AddTask, AddingThread, PalDone, runIspAdapt, PalWritten, QueueOutput, vars, queueVars
    <3> QED BY <3>1
  <2> QED BY <2>1, <2>2
<1>3. Link(e)
  BY DEF LinkInv
<1> QED BY <1>1, <1>2, <1>3, LinkKept

\* Start and stop keep LinkInv: producers are joined before their consumers.
LEMMA ControlLinks ==
  ASSUME TypeInv, TypeInv', EndInv, LinkInv,
         setActive \/ start \/ stopProcessing \/ notifyStop \/ JoinExecutor
  PROVE  LinkInv'
<1> SUFFICES ASSUME NEW e \in Executors, ~ IsOutputEdge(e) PROVE Link(e)'
  BY DEF LinkInv, IsOutputEdge
<1> DEFINE c == Consumer(e)
<1>1. Link(e)
  BY DEF LinkInv
<1>2. /\ InterBuffers(e) = free[e] + Len(mInputQueue[c]) + Hold(e) + Take(c)
      /\ free[e] \in Nat /\ Len(mInputQueue[c]) \in Nat
      /\ Hold(e) \in {0, 1} /\ Take(c) \in {0, 1} /\ Busy(c) \in {0, 1}
      /\ c \in Executors /\ c # e
  BY LinkSum
<1>3. /\ InterBuffers(e)' = free'[e] + Len(mInputQueue'[c]) + Hold(e)' + Take(c)'
      /\ free'[e] \in Nat /\ Busy(Consumer(e))' = Busy(c)' /\ Consumer(e)' = c
  <2>1. free'[e] \in Nat
    BY DEF TypeInv, QueueType
  <2> QED BY <2>1 DEF InterBuffers, Hold, Take, Consumer
<1>4. dag.session \in Nat /\ NumInter \in Nat
  BY Constants DEF TypeInv, Dags
\* the threads that are woken keep their buffers
<1>5. ASSUME free' = free, mInputQueue' = mInputQueue,
             \A f \in Executors : ex'[f].pc = ex[f].pc \/ (ex[f].pc = "sleep" /\ ex'[f].pc = "pal")
      PROVE  InterBuffers(e)' = InterBuffers(e)
  <2>1. Hold(e)' = Hold(e) /\ Take(c)' = Take(c)
    BY <1>2, <1>5 DEF Hold, Take
  <2> QED BY <1>2, <1>3, <1>5, <2>1
<1>6. CASE setActive
  <2>1. free' = free /\ mInputQueue' = mInputQueue
    BY <1>6 DEF setActive, queueVars
  <2>2. /\ \A f \in Executors : ex'[f].pc = IF ExAt(f, "sleep") THEN "pal" ELSE ex[f].pc
        /\ dag' = dag /\ dag.state = "running"
    BY <1>6, SwitchEffect
  <2>3. InterBuffers(e)' = InterBuffers(e)
    BY <1>5, <2>1, <2>2 DEF ExAt
  <2> QED BY <1>1, <2>2, <2>3 DEF Link, InUse, Extra
<1>7. CASE stopProcessing
  <2>1. free' = free /\ mInputQueue' = mInputQueue
    BY <1>7 DEF stopProcessing, queueVars
  <2>2. /\ \A f \in Executors : ex'[f].pc = IF ExAt(f, "sleep") THEN "pal" ELSE ex[f].pc
        /\ dag.state = "running" /\ dag'.state = "notify" /\ dag'.session = dag.session
    BY <1>7, StopEffect
  <2>3. InterBuffers(e)' = InterBuffers(e)
    BY <1>5, <2>1, <2>2 DEF ExAt
  <2> QED BY <1>1, <2>2, <2>3 DEF Link, InUse, Extra
<1>8. CASE notifyStop
  <2>1. free' = free /\ mInputQueue' = mInputQueue
    BY <1>8 DEF notifyStop, queueVars
  <2>2. /\ \A f \in Executors : ex'[f].pc = ex[f].pc
        /\ dag.state = "notify" /\ dag'.state = "join" /\ dag'.session = dag.session
        /\ dag'.left = Executors
    BY <1>8, NotifyStopEffect
  <2>3. InterBuffers(e)' = InterBuffers(e)
    BY <1>5, <2>1, <2>2
  <2> QED BY <1>1, <1>2, <1>3, <2>2, <2>3 DEF Link, InUse, Extra
<1>9. CASE start
  <2>1. /\ \A f \in Executors : ex'[f].pc = "loop"
        /\ dag.state = "stopped" /\ dag'.state = "running" /\ dag'.session = dag.session + 1
        /\ free'[e] = free[e] + NumInter /\ mInputQueue' = mInputQueue
    BY <1>9, StartEffect
  <2>2. free[e] <= (IF dag.session = 0 THEN 0 ELSE 1) /\ mInputQueue[c] = <<>>
    BY <1>1, <2>1 DEF Link
  <2>3. Hold(e)' = 0 /\ Take(c)' = 0 /\ Len(mInputQueue'[c]) = 0
    BY <1>2, <2>1, <2>2 DEF Hold, Take
  <2>4. InterBuffers(e)' = free[e] + NumInter
    BY <1>2, <1>3, <1>4, <2>1, <2>3
  <2>5. Extra' = IF dag.session = 0 THEN 0 ELSE 1
    BY <1>4, <2>1 DEF Extra
  <2>6. InterBuffers(e)' \in NumInter..(NumInter + Extra')
    BY <1>2, <1>4, <2>2, <2>4, <2>5
  <2> QED BY <2>1, <2>6 DEF Link, InUse
<1>10. CASE JoinExecutor
  <2>1. dag.state = "join" /\ dag'.session = dag.session /\ dag.left \subseteq Executors
        /\ dag.session # 0 /\ ex' = ex
    BY <1>10, JoinEffect DEF EndInv, JoinExecutor
  <2>2. PICK a \in dag.left :
              /\ \A f \in dag.left : ~ Before(f, a)
              /\ Ended(a) /\ dag'.left = dag.left \ {a}
              /\ dag'.state = IF dag.left = {a} THEN "stopped" ELSE "join"
              /\ free'[a] = 0 /\ mInputQueue'[a] = <<>>
              /\ \A f \in Executors :
                   f # a => free'[f] = free[f] /\ mInputQueue'[f] = mInputQueue[f]
    BY <1>10, JoinEffect
  <2>3. Hold(e)' = Hold(e) /\ Take(c)' = Take(c) /\ Busy(c)' = Busy(c)
    BY <2>1 DEF Hold, Take, Busy
  <2>4. a = c => e \notin dag.left
    BY <2>2, Neighbours
  \* the queue of the producer is cleared, what the consumer holds comes back later
  <2>5. CASE e \in dag.left /\ a # e
    <3>1. c \in dag.left /\ a # c
      BY <1>1, <2>1, <2>4, <2>5 DEF Link
    <3>2. dag.left # {a} /\ e \in dag'.left /\ c \in dag'.left
      BY <2>2, <2>5, <3>1
    <3>3. free'[e] = free[e] /\ mInputQueue'[c] = mInputQueue[c]
      BY <1>2, <2>2, <2>5, <3>1
    <3>4. InterBuffers(e)' = InterBuffers(e)
      BY <1>2, <1>3, <2>3, <3>3
    <3>5. InterBuffers(e) \in NumInter..(NumInter + Extra) /\ Extra' = Extra
      BY <1>1, <2>1, <2>5 DEF Link, InUse, Extra
    <3> QED BY <1>3, <2>2, <3>2, <3>4, <3>5 DEF Link, InUse
  <2>6. CASE a = e
    <3>1. c \in dag.left /\ c \in dag'.left /\ e \notin dag'.left /\ dag'.state = "join"
      BY <1>1, <1>2, <2>1, <2>2, <2>6 DEF Link
    <3>2. free'[e] = 0 /\ Busy(c)' \in {0, 1}
      BY <1>2, <2>2, <2>3, <2>6
    <3>3. free'[e] + Busy(c)' <= 1
      BY <3>2
    <3> QED BY <1>3, <3>1, <3>3 DEF Link, InUse
  <2>7. CASE e \notin dag.left
    <3>1. a # e /\ free'[e] = free[e] /\ e \notin dag'.left
      BY <2>2, <2>7
    <3>2. free[e] + Busy(c) <= 1
      BY <1>1, <2>1, <2>7 DEF Link
    <3>3. free'[e] + Busy(c)' <= 1
      BY <2>3, <3>1, <3>2
    <3>4. c \notin dag'.left => mInputQueue'[c] = <<>>
      <4>1. CASE a = c
        BY <2>2, <4>1
      <4>2. CASE a # c
        <5>1. c \notin dag'.left => c \notin dag.left
          BY <2>2, <4>2
        <5>2. mInputQueue'[c] = mInputQueue[c]
          BY <1>2, <2>2, <4>2
        <5> QED BY <1>1, <2>1, <5>1, <5>2 DEF Link
      <4> QED BY <4>1, <4>2
    <3>5. dag'.state = "stopped" => c \notin dag'.left
      BY <2>2
    <3>6. free'[e] <= 1
      BY <1>2, <1>3, <2>3, <3>3
    <3> QED BY <1>3, <2>1, <2>2, <3>1, <3>3, <3>4, <3>5, <3>6 DEF Link, InUse
  <2> QED BY <2>5, <2>6, <2>7
<1> QED BY <1>6, <1>7, <1>8, <1>9, <1>10

-----------------------------------------------------------------------------
(* The theorems.                                                           *)

IInv == TypeInv /\ EndInv /\ SleepInv /\ CountInv /\ RunInv /\ LinkInv

\* The invariant holds when the DAG has not been started.
LEMMA InitInv == Init => IInv
<1> SUFFICES ASSUME Init PROVE IInv
  OBVIOUS
<1>1. TypeInv
  BY InitType
<1>2. \A e \in Executors : ex[e].pc = "exited"
  BY IdleExecutorType DEF Init, Points
<1>3. /\ dag.state = "stopped" /\ dag.session = 0
      /\ policy.mIsActive /\ policy.mWaitingCount = 0 /\ policy.mRunCount = [e \in Bundle |-> 0]
  BY DEF Init
<1>4. Asleep = {} /\ Cardinality(Asleep) = 0
  BY <1>2, FS_EmptySet DEF Asleep, ExAt
<1>5. EndInv
  BY <1>2, <1>3 DEF EndInv, Ended
<1>6. SleepInv
  BY <1>2, <1>3 DEF SleepInv
<1>7. CountInv
  <2>1. Bundle # {} => Cardinality(Bundle) > 0
    BY DagAssumption, Constants, FS_EmptySet
  <2> QED BY <1>3, <1>4, <2>1 DEF CountInv
<1>8. RunInv
  <2>1. ASSUME NEW e \in Bundle PROVE ~ ExAt(e, "sleep") /\ Passed(e) <= MaxDepth
    <3>1. e \in Executors /\ BundleDepth[e] \in Nat /\ MaxDepth \in Nat /\ BundleDepth[e] <= MaxDepth
      BY Depths, DagAssumption
    <3>2. ~ ExAt(e, "sleep") /\ policy.mRunCount[e] = 0
      BY <1>2, <1>3, <3>1 DEF ExAt
    <3> QED BY <3>1, <3>2 DEF Passed
  <2> QED BY <2>1 DEF RunInv
<1>9. LinkInv
  <2>1. ASSUME NEW e \in Executors, ~ IsOutputEdge(e) PROVE Link(e)
    <3>1. free[e] = 0 /\ mInputQueue[Consumer(e)] = <<>>
      BY <2>1, Neighbours DEF Init
    <3> QED BY <1>3, <3>1 DEF Link, InUse
  <2> QED BY <2>1 DEF LinkInv
<1> QED BY <1>1, <1>5, <1>6, <1>7, <1>8, <1>9 DEF IInv

\* Every step keeps it.
LEMMA NextInv == IInv /\ [Next]_vars => IInv'
<1> SUFFICES ASSUME IInv, [Next]_vars PROVE IInv'
  OBVIOUS
<1>1. TypeInv /\ EndInv /\ SleepInv /\ CountInv /\ RunInv /\ LinkInv
  BY DEF IInv
<1>2. CASE AddTask \/ AddingThread \/ UNCHANGED vars
  <2>1. ex' = ex /\ policy' = policy /\ dag' = dag
    BY <1>2, AddingKeeps
  <2>2. TypeInv'
    BY <1>1, <1>2, AddTaskType, AdapterType, QueueBuffersType, StutterType DEF AddingThread
  <2>3. EndInv' /\ SleepInv' /\ CountInv'
    BY <1>1, <2>1 DEF EndInv, Ended, SleepInv, Asleep, CountInv, ExAt
  <2>4. RunInv'
    BY <1>1, <2>1, RunKept DEF ExAt
  <2>5. LinkInv'
    BY <1>1, <1>2, AddingLinks
  <2> QED BY <2>2, <2>3, <2>4, <2>5 DEF IInv
<1>3. CASE \E e \in Executors : ExecutorStep(e) \/ RunFails(e)
  <2>1. PICK e \in Executors : ExecutorStep(e) \/ RunFails(e)
    BY <1>3
  <2>2. TypeInv'
    BY <1>1, <2>1, ExecutorType
  <2>3. EndInv' /\ SleepInv'
    BY <1>1, <2>1, ExecutorEnds
  <2>4. CountInv'
    BY <1>1, <2>1, ExecutorCounts
  <2>5. RunInv'
    BY <1>1, <2>1, <2>2, ExecutorRuns
  <2>6. LinkInv'
    BY <1>1, <2>1, <2>2, ExecutorLinks
  <2> QED BY <2>2, <2>3, <2>4, <2>5, <2>6 DEF IInv
<1>4. CASE setActive \/ start \/ stopProcessing \/ notifyStop \/ JoinExecutor
  <2>1. TypeInv'
    BY <1>1, <1>4, ControlType
  <2>2. EndInv' /\ SleepInv'
    BY <1>1, <1>4, ControlEnds
  <2>3. CountInv'
    BY <1>1, <1>4, ControlCounts
  <2>4. RunInv'
    BY <1>1, <1>4, <2>1, ControlRuns
  <2>5. LinkInv'
    BY <1>1, <1>4, <2>1, ControlLinks
  <2> QED BY <2>1, <2>2, <2>3, <2>4, <2>5 DEF IInv
<1> QED BY <1>2, <1>3, <1>4 DEF Next, Stopping

\* So it is an invariant.
LEMMA Invariance == Spec => []IInv
<1> QED BY InitInv, NextInv, PTL DEF Spec

\* The tasks, the ISP parameters, the queues, the threads and the policy keep their types,
\* and a frame that an executor hands on has a sequence of a task.
THEOREM TypeCorrect == Spec => []TypeOK
<1>1. IInv => TypeOK
  BY DEF IInv, TypeInv, TaskInv, PalInv, AdderInv, TypeOK
<1> QED BY <1>1, Invariance, PTL

\* PolicyManager counts every executor that sleeps, and the count stays below the size of
\* the bundle, whether waits time out, the DAG is paused, or stopped and started again: an
\* executor that comes always finds that it has to wait or to wake the others.
THEOREM SleepersAreCounted == Spec => []SleepersCounted
<1>1. IInv => SleepersCounted
  BY DEF IInv, CountInv, SleepersCounted, Asleep
<1> QED BY <1>1, Invariance, PTL

\* Unless a wait timed out, no executor of the bundle is let through more often than the
\* others, its depth taken off, whatever the size and the depths of the bundle.
THEOREM BundleRunsTogether == Spec => []RunTogether
<1>1. IInv => RunTogether
  <2> SUFFICES ASSUME IInv, ~ policy.timedOut, NEW e \in Bundle, NEW f \in Bundle
      PROVE  Passed(e) <= Max({MaxDepth, policy.mRunCount[f] + BundleDepth[f]})
    BY DEF RunTogether, Passed, ExAt
  <2>1. TypeInv /\ RunInv
    BY DEF IInv
  <2> DEFINE r == policy.mRunCount[f]
             d == BundleDepth[f]
             v == r + d
             S == {MaxDepth, v}
  <2>2. r \in Nat /\ d \in Nat /\ MaxDepth \in Nat /\ Passed(e) \in Int
        /\ (Passed(f) = v \/ Passed(f) = (r - 1) + d)
    BY <2>1, Runs
  <2>3. v \in Nat /\ Passed(f) <= v /\ Passed(f) \in Int
    BY <2>2
  <2>4. Passed(e) <= MaxDepth \/ Passed(e) <= Passed(f)
    BY <2>1 DEF RunInv
  <2> HIDE DEF v, r, d
  <2>5. S \in SUBSET Nat /\ S # {} /\ MaxDepth + v \in Nat /\ \A y \in S : y <= MaxDepth + v
    BY <2>2, <2>3
  <2>6. Max(S) \in S /\ \A y \in S : Max(S) >= y
    <3> HIDE DEF S
    <3> QED BY <2>5, MaxIsGreatest
  <2>7. Max(S) \in Nat /\ Max(S) >= MaxDepth /\ Max(S) >= v
    BY <2>2, <2>3, <2>6
  <2>8. Passed(e) <= Max(S)
    <3> HIDE DEF S
    <3> QED BY <2>2, <2>3, <2>4, <2>7
  <2> QED BY <2>8 DEF v, r, d
<1> QED BY <1>1, Invariance, PTL

\* No link loses or gains a buffer while the DAG runs: in the first session it has NumInter,
\* in a later one also the one that its consumer returned after stop() cleared the queue of
\* the producer, whatever failed, and however the stops and the executors interleave.
THEOREM LinksKeepBuffers == Spec => []InterConserved
<1>1. IInv => InterConserved
  BY DEF IInv, LinkInv, Link, InUse, Extra, InterConserved
<1> QED BY <1>1, Invariance, PTL

-----------------------------------------------------------------------------
(* The order of the frames.  No variable holds it: it is told with two       *)
(* functions that exist in every state.  act: stream -> the tasks that are  *)
(* active on it, oldest first; c: executor -> how many of them it has       *)
(* fetched, or left behind when the DAG was stopped.                        *)

\* A frame, or none
One(b) == IF b THEN 1 ELSE 0

\* addTask has still to queue the input of a stream, the buffer of a port of it
InputDue(s) ==
    \/ ad.pc \in {"adapt", "write"} /\ s \in getActiveStreamIds(Newest)
    \/ ad.pc = "inputs" /\ s \in ad.todo
OutputDue(s, p) ==
    \/ ad.pc \in {"adapt", "write", "inputs"} /\ s \in getActiveStreamIds(Newest)
    \/ ad.pc = "outputs" /\ p \in ad.todo

\* What addTask has still to do is there and of the newest task
TodoInv ==
    /\ ad.pc # "idle" => ad.todo # {}
    /\ ad.pc \in {"adapt", "write", "inputs"} => ad.todo \subseteq getActiveStreamIds(Newest)
    /\ ad.pc = "outputs" => ad.todo \subseteq UNION {PortsOf[s] : s \in getActiveStreamIds(Newest)}

\* An executor has a frame in its hands, ...
HoldPoints == {"wait", "sleep", "pal", "run", "count", "callback", "task"}
Holds(e) == ex[e].pc \in HoldPoints
\* ... and its consumer has not got it.
Kept(e) == One(ex[e].pc \in {"wait", "sleep", "pal", "run", "dead"})

\* Executors are joined in the order of the pool; the queues of a joined one stay empty.
JoinInv ==
    /\ dag.state = "join" => \A e \in dag.left, f \in Executors : Before(e, f) => f \in dag.left
    /\ \A e \in Executors : ~ InUse(e) =>
          mInputQueue[e] = <<>> /\ \A p \in OutPorts(e) : mOutputQueue[p] = <<>>

\* The active tasks of a stream are the ones that have a buffer for a port of it.
ActiveTasks(act) == \A s \in Streams :
    /\ \A j, k \in DOMAIN act[s] : j < k => act[s][j] < act[s][k]
    /\ \A k \in DOMAIN act[s] : act[s][k] \in DOMAIN tasks /\ s \in getActiveStreamIds(act[s][k])
    /\ \A n \in DOMAIN tasks : s \in getActiveStreamIds(n) => \E k \in DOMAIN act[s] : act[s][k] = n

\* Each frame of a queue is of the next task that has not been fetched yet.
InputLine(act, c, e) ==
    /\ c[e] + Len(mInputQueue[e]) <= Len(act[e[1]])
    /\ IF IsInputEdge(e)
       THEN c[e] + Len(mInputQueue[e]) + One(InputDue(e[1])) = Len(act[e[1]])
       ELSE c[e] + Len(mInputQueue[e]) + Kept(Producer(e)) = c[Producer(e)]
    /\ \A k \in DOMAIN mInputQueue[e] : mInputQueue[e][k] = tasks[act[e[1]][c[e] + k]].seq

\* Each port of the chain has an entry of every active task, a null one too.
BufferOf(n, p) == IF p \in tasks[n].ports THEN n ELSE 0
OutputLine(act, c, e) == \A p \in OutPorts(e) :
    /\ c[e] + Len(mOutputQueue[p]) + One(OutputDue(e[1], p)) = Len(act[e[1]])
    /\ \A k \in DOMAIN mOutputQueue[p] : mOutputQueue[p][k] = BufferOf(act[e[1]][c[e] + k], p)

\* What an executor has in its hands is all of one task.
HandsLine(act, c, e) == Holds(e) =>
    /\ c[e] # 0
    /\ ex[e].seq = tasks[act[e[1]][c[e]]].seq
    /\ \A p \in OutPorts(e) : ex[e].out[p] = BufferOf(act[e[1]][c[e]], p)
    /\ ex[e].left \subseteq OutPorts(e) \cap tasks[act[e[1]][c[e]]].ports
    /\ IsOutputEdge(e) => ex[e].left # {}

\* The frames of the executors that are in use
Lines(act, c) ==
    /\ act \in [Streams -> Seq(Nat)] /\ c \in [Executors -> Nat] /\ ActiveTasks(act)
    /\ \A e \in Executors : InUse(e) =>
          InputLine(act, c, e) /\ OutputLine(act, c, e) /\ HandsLine(act, c, e)

-----------------------------------------------------------------------------
\* mOngoingTasks are the tasks with a buffer to come, with the number that came.
OngoingInv ==
    /\ counted \in Seq(SUBSET Ports) /\ called \in Seq(SUBSET Ports)
    /\ DOMAIN counted = DOMAIN tasks /\ DOMAIN called = DOMAIN tasks
    /\ \A i, j \in DOMAIN mOngoingTasks : i < j => mOngoingTasks[i].n < mOngoingTasks[j].n
    /\ \A i \in DOMAIN mOngoingTasks :
          mOngoingTasks[i].returned = Cardinality(counted[mOngoingTasks[i].n])
    /\ \A n \in DOMAIN tasks :
          /\ called[n] \subseteq counted[n] /\ counted[n] \subseteq tasks[n].ports
          /\ counted[n] # tasks[n].ports <=> \E i \in DOMAIN mOngoingTasks : mOngoingTasks[i].n = n

\* An executor between onFrameDone's lock and the callbacks
Calls(e) == ex[e].pc \in {"callback", "task"}
\* A buffer that is counted and was not handed back is in the callback of one executor; only
\* one of them saw its task complete; a stop leaves no callback behind.
CallInv ==
    /\ finished \subseteq DOMAIN tasks /\ abandoned \subseteq DOMAIN tasks
    /\ \A n \in finished : counted[n] = tasks[n].ports
    /\ \A e \in Executors : Calls(e) =>
          /\ IsOutputEdge(e)
          /\ ex[e].complete =>
               counted[ex[e].task] = tasks[ex[e].task].ports /\ ex[e].task \notin finished
          /\ ex[e].pc = "callback" => CurrentPort(e) \notin called[ex[e].task]
          /\ ex[e].pc = "task" => ex[e].complete /\ CurrentPort(e) \in called[ex[e].task]
    /\ \A e, f \in Executors :
          Calls(e) /\ Calls(f) /\ ex[e].complete /\ ex[f].complete /\ e # f
            => ex[e].task # ex[f].task
    /\ \A n \in DOMAIN tasks : \A p \in counted[n] \ called[n] :
          \E e \in Executors : ExAt(e, "callback") /\ ex[e].task = n /\ CurrentPort(e) = p
    /\ dag.state = "stopped" => abandoned = DOMAIN tasks \ finished

\* What an executor at the end of a chain has counted: all before the frame it has in its
\* hands, and of that frame the ports it is through with
CountLine(act, c, e) == IsOutputEdge(e) =>
    /\ \A k \in DOMAIN act[e[1]] : k > c[e] =>
          act[e[1]][k] \notin abandoned /\ counted[act[e[1]][k]] \cap OutPorts(e) = {}
    /\ \A k \in DOMAIN act[e[1]] : (k < c[e] \/ (k = c[e] /\ ~ Holds(e) /\ ~ ExAt(e, "dead"))) =>
          \/ act[e[1]][k] \in abandoned
          \/ OutPorts(e) \cap tasks[act[e[1]][k]].ports \subseteq counted[act[e[1]][k]]
    /\ Holds(e) => LET n == act[e[1]][c[e]]
                   IN  /\ n \notin abandoned
                       /\ counted[n] \cap OutPorts(e) =
                            ((OutPorts(e) \cap tasks[n].ports) \ ex[e].left)
                              \cup (IF Calls(e) THEN {CurrentPort(e)} ELSE {})
                       /\ Calls(e) => ex[e].task = n
CountLines(act, c) == \A e \in Executors : InUse(e) => CountLine(act, c, e)

-----------------------------------------------------------------------------
(* What the callers of PSysDAG have to keep.                               *)

\* A user buffer is not queued a second time, for the same port and sequence, while the task
\* that has it is ongoing.  (A task that stop() dropped stays ongoing, PSysDAG.cpp:573.)
UsedOnce == \A i, j \in DOMAIN mOngoingTasks :
    LET m == mOngoingTasks[i].n
        n == mOngoingTasks[j].n
    IN  i # j /\ tasks[m].seq = tasks[n].seq /\ tasks[m].ports \cap tasks[n].ports # {}
        => UserBuffer(m) # UserBuffer(n)
\* No task is added from the begin of stop() to the next start().
AddedWhileRunning == dag.state # "running" => ad.pc = "idle"

-----------------------------------------------------------------------------
(* Ports, points and what the threads have in their hands.                 *)

\* A port belongs to one executor.
LEMMA PortOwner ==
  ASSUME NEW e \in Executors, NEW f \in Executors, NEW p, p \in OutPorts(e), p \in OutPorts(f)
  PROVE  e = f
<1>1. IsOutputEdge(e) /\ IsOutputEdge(f) /\ p \in PortsOf[e[1]] /\ p \in PortsOf[f[1]]
  BY DEF OutPorts
<1>2. e = <<e[1], e[2]>> /\ f = <<f[1], f[2]>> /\ e[1] \in Streams /\ f[1] \in Streams
  BY Neighbours
<1>3. e[1] = f[1]
  BY <1>1, <1>2, DagAssumption
<1>4. e[2] = f[2]
  BY <1>1, <1>3 DEF IsOutputEdge
<1> QED BY <1>2, <1>3, <1>4

\* The ports of an executor are ports of the DAG, and numbers.
LEMMA PortTypes ==
  /\ Ports \subseteq Nat
  /\ \A e \in Executors : OutPorts(e) \subseteq Ports
  /\ \A e \in Executors : IsOutputEdge(e) => OutPorts(e) = PortsOf[e[1]] /\ OutPorts(e) # {}
  /\ \A e \in Executors : ~ IsOutputEdge(e) => OutPorts(e) = {}
<1>1. Ports \subseteq Nat
  BY DagAssumption DEF Ports
<1>2. \A e \in Executors : e[1] \in Streams
  BY Neighbours
<1> QED BY <1>1, <1>2, DagAssumption DEF OutPorts, Ports

\* The least of a set of natural numbers is in it.
LEMMA LeastIsIn ==
  ASSUME NEW S \in SUBSET Nat, S # {}
  PROVE  Min(S) \in S
<1>1. S \in SUBSET Int /\ \A x \in S : x >= -0
  OBVIOUS
<1> QED BY <1>1, MinIsLeast

\* The only element of a set is its least.
LEMMA OnlyIsLeast ==
  ASSUME NEW n \in Nat
  PROVE  Min({n}) = n
<1>1. {n} \in SUBSET Nat /\ {n} # {}
  OBVIOUS
<1>2. Min({n}) \in {n}
  BY <1>1, LeastIsIn
<1> QED BY <1>2

\* A thread that has not ended belongs to an executor in use.
LEMMA AtWork ==
  ASSUME TypeInv, EndInv, NEW e \in Executors, ~ Ended(e)
  PROVE  InUse(e)
  BY DEF EndInv, InUse, TypeInv, Dags

\* The consumer of an executor in use is in use.
LEMMA ConsumerInUse ==
  ASSUME JoinInv, NEW e \in Executors, InUse(e), ~ IsOutputEdge(e)
  PROVE  InUse(Consumer(e))
  BY Neighbours DEF JoinInv, InUse

\* The points between which an executor moves with its frame, and the ones without a frame
MovePoints == {"wait", "sleep", "pal", "run"}
RestPoints == {"loop", "return", "exited"}

\* An executor keeps what it has in its hands.
SameHands(e) ==
    /\ \/ ex'[e].pc = ex[e].pc
       \/ ex[e].pc \in MovePoints /\ ex'[e].pc \in MovePoints
       \/ ex[e].pc \in RestPoints /\ ex'[e].pc \in RestPoints
    /\ \/ ex[e].pc \in RestPoints
       \/ /\ ex'[e].seq = ex[e].seq /\ ex'[e].out = ex[e].out /\ ex'[e].left = ex[e].left
          /\ ex'[e].task = ex[e].task /\ ex'[e].complete = ex[e].complete

\* So the operators that speak of it keep their values.
LEMMA SamePoints ==
  ASSUME NEW e, SameHands(e)
  PROVE  /\ Holds(e)' <=> Holds(e)
         /\ Kept(e)' = Kept(e)
         /\ Calls(e)' <=> Calls(e)
         /\ ExAt(e, "dead")' <=> ExAt(e, "dead")
         /\ ExAt(e, "callback")' <=> ExAt(e, "callback")
         /\ Holds(e) => /\ ex'[e].seq = ex[e].seq /\ ex'[e].out = ex[e].out
                        /\ ex'[e].left = ex[e].left /\ ex'[e].task = ex[e].task
                        /\ ex'[e].complete = ex[e].complete /\ CurrentPort(e)' = CurrentPort(e)
         /\ Calls(e) => Holds(e) /\ ex'[e].pc = ex[e].pc
<1>1. Holds(e)' <=> Holds(e)
  BY DEF SameHands, MovePoints, RestPoints, Holds, HoldPoints
<1>2. Kept(e)' = Kept(e)
  BY DEF SameHands, MovePoints, RestPoints, Kept, One
<1>3. Calls(e)' <=> Calls(e)
  BY DEF SameHands, MovePoints, RestPoints, Calls
<1>4. ExAt(e, "dead")' <=> ExAt(e, "dead")
  BY DEF SameHands, MovePoints, RestPoints, ExAt
<1>5. ExAt(e, "callback")' <=> ExAt(e, "callback")
  BY DEF SameHands, MovePoints, RestPoints, ExAt
<1>6. Holds(e) => ex[e].pc \notin RestPoints
  BY DEF RestPoints, Holds, HoldPoints
<1>7. Calls(e) => Holds(e) /\ ex'[e].pc = ex[e].pc
  BY DEF SameHands, MovePoints, RestPoints, Holds, HoldPoints, Calls
<1> QED BY <1>1, <1>2, <1>3, <1>4, <1>5, <1>6, <1>7 DEF SameHands, CurrentPort

\* What the lines say of an executor stays while nothing of it changes.
LEMMA LinesKept ==
  ASSUME NEW act, NEW c, NEW c2, NEW e \in Executors,
         InputLine(act, c, e), OutputLine(act, c, e), HandsLine(act, c, e),
         tasks' = tasks, c2[e] = c[e], SameHands(e),
         mInputQueue'[e] = mInputQueue[e], \A p \in OutPorts(e) : mOutputQueue'[p] = mOutputQueue[p],
         ~ IsInputEdge(e) => /\ c2[Producer(e)] = c[Producer(e)]
                             /\ Kept(Producer(e))' = Kept(Producer(e)),
         IsInputEdge(e) => One(InputDue(e[1]))' = One(InputDue(e[1])),
         \A p \in OutPorts(e) : One(OutputDue(e[1], p))' = One(OutputDue(e[1], p))
  PROVE  InputLine(act, c2, e)' /\ OutputLine(act, c2, e)' /\ HandsLine(act, c2, e)'
<1>1. InputLine(act, c2, e)'
  BY DEF InputLine
<1>2. OutputLine(act, c2, e)'
  BY DEF OutputLine, BufferOf
<1>3. HandsLine(act, c2, e)'
  BY SamePoints DEF HandsLine, BufferOf
<1> QED BY <1>1, <1>2, <1>3

\* What it has counted stays while no buffer of its ports is counted.
LEMMA CountsKept ==
  ASSUME NEW act, NEW c, NEW c2, NEW e \in Executors, CountLine(act, c, e),
         tasks' = tasks, c2[e] = c[e], SameHands(e),
         ActiveTasks(act), e[1] \in Streams, Holds(e) => c[e] \in DOMAIN act[e[1]],
         \A n \in DOMAIN tasks : /\ counted'[n] \cap OutPorts(e) = counted[n] \cap OutPorts(e)
                                 /\ n \in abandoned' <=> n \in abandoned
  PROVE  CountLine(act, c2, e)'
<1>1. \A k \in DOMAIN act[e[1]] : act[e[1]][k] \in DOMAIN tasks
  BY DEF ActiveTasks
<1> SUFFICES ASSUME IsOutputEdge(e) PROVE CountLine(act, c2, e)'
  BY DEF CountLine
<1>2. ASSUME NEW k \in DOMAIN act[e[1]], k > c[e]
      PROVE  act[e[1]][k] \notin abandoned' /\ counted'[act[e[1]][k]] \cap OutPorts(e) = {}
  BY <1>1, <1>2 DEF CountLine
<1>3. ASSUME NEW k \in DOMAIN act[e[1]], k < c[e] \/ (k = c[e] /\ ~ Holds(e)' /\ ~ ExAt(e, "dead")')
      PROVE  \/ act[e[1]][k] \in abandoned'
             \/ OutPorts(e) \cap tasks[act[e[1]][k]].ports \subseteq counted'[act[e[1]][k]]
  <2>1. k < c[e] \/ (k = c[e] /\ ~ Holds(e) /\ ~ ExAt(e, "dead"))
    BY <1>3, SamePoints
  <2>2. \/ act[e[1]][k] \in abandoned
        \/ OutPorts(e) \cap tasks[act[e[1]][k]].ports \subseteq counted[act[e[1]][k]]
    BY <2>1 DEF CountLine
  <2> QED BY <1>1, <2>2
<1>4. ASSUME Holds(e)'
      PROVE  LET n == act[e[1]][c[e]]
             IN  /\ n \notin abandoned'
                 /\ counted'[n] \cap OutPorts(e) =
                      ((OutPorts(e) \cap tasks[n].ports) \ ex'[e].left)
                        \cup (IF Calls(e)' THEN {CurrentPort(e)'} ELSE {})
                 /\ Calls(e)' => ex'[e].task = n
  <2>1. /\ Holds(e) /\ (Calls(e)' <=> Calls(e)) /\ ex'[e].left = ex[e].left
        /\ ex'[e].task = ex[e].task /\ CurrentPort(e)' = CurrentPort(e)
    BY <1>4, SamePoints
  <2> QED BY <1>1, <2>1 DEF CountLine
<1> QED BY <1>2, <1>3, <1>4 DEF CountLine

\* The calls stay while no thread moves on in them.
LEMMA CallsKept ==
  ASSUME CallInv, \A e \in Executors : SameHands(e), tasks' = tasks, counted' = counted,
         called' = called, finished' = finished, abandoned' = abandoned,
         dag'.state = "stopped" => dag.state = "stopped"
  PROVE  CallInv'
<1>1. \A e \in Executors :
        /\ Calls(e)' <=> Calls(e)
        /\ ExAt(e, "callback")' <=> ExAt(e, "callback")
        /\ Calls(e) => /\ ex'[e].task = ex[e].task /\ ex'[e].complete = ex[e].complete
                       /\ CurrentPort(e)' = CurrentPort(e) /\ ex'[e].pc = ex[e].pc
  BY SamePoints
<1>2. \A e \in Executors : ExAt(e, "callback") => Calls(e)
  BY DEF ExAt, Calls
<1>3. ASSUME NEW e \in Executors, Calls(e)'
      PROVE  /\ IsOutputEdge(e)
             /\ ex'[e].complete => counted'[ex'[e].task] = tasks'[ex'[e].task].ports
                                   /\ ex'[e].task \notin finished'
             /\ ex'[e].pc = "callback" => CurrentPort(e)' \notin called'[ex'[e].task]
             /\ ex'[e].pc = "task" => ex'[e].complete /\ CurrentPort(e)' \in called'[ex'[e].task]
  BY <1>1, <1>3 DEF CallInv
<1>4. ASSUME NEW e \in Executors, NEW f \in Executors, Calls(e)', Calls(f)', ex'[e].complete,
             ex'[f].complete, e # f
      PROVE  ex'[e].task # ex'[f].task
  BY <1>1, <1>4 DEF CallInv
<1>5. ASSUME NEW n \in DOMAIN tasks, NEW p \in counted[n] \ called[n]
      PROVE  \E e \in Executors : ExAt(e, "callback")' /\ ex'[e].task = n /\ CurrentPort(e)' = p
  <2>1. PICK e \in Executors : ExAt(e, "callback") /\ ex[e].task = n /\ CurrentPort(e) = p
    BY <1>5 DEF CallInv
  <2> QED BY <1>1, <1>2, <2>1
<1>6. /\ finished' \subseteq DOMAIN tasks' /\ abandoned' \subseteq DOMAIN tasks'
      /\ \A n \in finished' : counted'[n] = tasks'[n].ports
      /\ dag'.state = "stopped" => abandoned' = DOMAIN tasks' \ finished'
  BY DEF CallInv
<1> QED BY <1>3, <1>4, <1>5, <1>6 DEF CallInv

-----------------------------------------------------------------------------
(* Steps that move no frame.                                               *)

\* The parts together are inductive, with TypeInv and EndInv.
DagInv(act, c) ==
    /\ TodoInv /\ JoinInv /\ OngoingInv /\ CallInv /\ Lines(act, c) /\ CountLines(act, c)

\* What an executor has in its hands is of a task that is active on its stream.
LEMMA HandsPlace ==
  ASSUME QueueType, NEW act, NEW c, Lines(act, c), NEW e \in Executors, InUse(e), Holds(e)
  PROVE  /\ c[e] \in DOMAIN act[e[1]] /\ act[e[1]][c[e]] \in DOMAIN tasks
         /\ e[1] \in getActiveStreamIds(act[e[1]][c[e]])
<1>1. e[1] \in Streams
  BY Neighbours
<1>2. act[e[1]] \in Seq(Nat) /\ c[e] \in Nat /\ Len(mInputQueue[e]) \in Nat
  BY <1>1 DEF Lines, QueueType
<1>3. c[e] + Len(mInputQueue[e]) <= Len(act[e[1]]) /\ c[e] # 0
  BY DEF Lines, InputLine, HandsLine
<1>4. c[e] \in DOMAIN act[e[1]]
  BY <1>2, <1>3
<1> QED BY <1>1, <1>4 DEF Lines, ActiveTasks

\* What addTask has to do depends on the adding thread and on the tasks.
LEMMA DueKept ==
  ASSUME tasks' = tasks, ad' = ad
  PROVE  /\ \A s : InputDue(s)' <=> InputDue(s)
         /\ \A s : \A p : OutputDue(s, p)' <=> OutputDue(s, p)
         /\ \A s : One(InputDue(s))' = One(InputDue(s))
         /\ \A s : \A p : One(OutputDue(s, p))' = One(OutputDue(s, p))
         /\ TodoInv => TodoInv'
<1>1. /\ \A s : InputDue(s)' <=> InputDue(s)
      /\ \A s : \A p : OutputDue(s, p)' <=> OutputDue(s, p)
  BY DEF InputDue, OutputDue, getActiveStreamIds, Newest
<1>2. /\ \A s : One(InputDue(s))' = One(InputDue(s))
      /\ \A s : \A p : One(OutputDue(s, p))' = One(OutputDue(s, p))
  BY <1>1 DEF One
<1>3. TodoInv => TodoInv'
  BY DEF TodoInv, getActiveStreamIds, Newest
<1> QED BY <1>1, <1>2, <1>3

\* A step that moves no frame, adds no task and counts nothing
Quiet ==
    /\ UNCHANGED <<tasks, mOngoingTasks, ad, mInputQueue, mOutputQueue, pipeVars>>
    /\ \A e \in Executors : SameHands(e) /\ (InUse(e)' <=> InUse(e))
    /\ dag'.state = "join" => dag' = dag \/ dag'.left = Executors
    /\ dag'.state = "stopped" => dag.state = "stopped"

\* keeps the order.
LEMMA QuietKeeps ==
  ASSUME TypeInv, NEW act, NEW c, DagInv(act, c), Quiet
  PROVE  DagInv(act, c)'
<1>1. /\ tasks' = tasks /\ mOngoingTasks' = mOngoingTasks /\ ad' = ad
      /\ mInputQueue' = mInputQueue /\ mOutputQueue' = mOutputQueue
      /\ counted' = counted /\ called' = called /\ finished' = finished /\ abandoned' = abandoned
      /\ \A e \in Executors : SameHands(e) /\ (InUse(e)' <=> InUse(e))
  BY DEF Quiet, pipeVars
<1>2. TodoInv'
  BY <1>1, DueKept DEF DagInv
<1>3. JoinInv'
  <2>1. JoinInv
    BY DEF DagInv
  <2>2. \A e \in Executors : ~ InUse(e)' =>
          mInputQueue'[e] = <<>> /\ \A p \in OutPorts(e) : mOutputQueue'[p] = <<>>
    BY <1>1, <2>1 DEF JoinInv
  <2>3. dag'.state = "join" =>
          \A e \in dag'.left, f \in Executors : Before(e, f) => f \in dag'.left
    BY <2>1 DEF JoinInv, Quiet
  <2> QED BY <2>2, <2>3 DEF JoinInv
<1>4. OngoingInv'
  BY <1>1 DEF DagInv, OngoingInv
<1>5. CallInv'
  BY <1>1, CallsKept DEF DagInv, Quiet
<1>6. Lines(act, c)'
  <2>1. Lines(act, c) /\ ActiveTasks(act)'
    BY <1>1 DEF DagInv, Lines, ActiveTasks, getActiveStreamIds
  <2>2. ASSUME NEW e \in Executors, InUse(e)
        PROVE  InputLine(act, c, e)' /\ OutputLine(act, c, e)' /\ HandsLine(act, c, e)'
    <3>1. InputLine(act, c, e) /\ OutputLine(act, c, e) /\ HandsLine(act, c, e)
      BY <2>1, <2>2 DEF Lines
    <3>2. ~ IsInputEdge(e) => Kept(Producer(e))' = Kept(Producer(e))
      BY <1>1, Neighbours, SamePoints
    <3>3. One(InputDue(e[1]))' = One(InputDue(e[1]))
          /\ \A p \in OutPorts(e) : One(OutputDue(e[1], p))' = One(OutputDue(e[1], p))
      BY <1>1, DueKept
    <3> QED BY <1>1, <3>1, <3>2, <3>3, LinesKept
  <2> QED BY <1>1, <2>1, <2>2 DEF Lines
<1>7. CountLines(act, c)'
  <2>1. Lines(act, c) /\ CountLines(act, c) /\ QueueType
    BY DEF DagInv, TypeInv
  <2>2. ASSUME NEW e \in Executors, InUse(e)
        PROVE  CountLine(act, c, e)'
    <3>1. CountLine(act, c, e) /\ (Holds(e) => c[e] \in DOMAIN act[e[1]]) /\ e[1] \in Streams
      BY <2>1, <2>2, HandsPlace, Neighbours DEF CountLines
    <3> QED BY <1>1, <2>1, <3>1, CountsKept DEF Lines
  <2> QED BY <1>1, <2>2 DEF CountLines
<1> QED BY <1>2, <1>3, <1>4, <1>5, <1>6, <1>7 DEF DagInv

\* A step of one executor that changes its point only
LEMMA GotoHands ==
  ASSUME ex \in [Executors -> Threads], NEW e \in Executors, NEW point, ExGoto(e, point)
  PROVE  /\ ex'[e].pc = point /\ ex'[e].seq = ex[e].seq /\ ex'[e].out = ex[e].out
         /\ ex'[e].left = ex[e].left /\ ex'[e].task = ex[e].task
         /\ ex'[e].complete = ex[e].complete
         /\ \A f \in Executors : f # e => ex'[f] = ex[f] /\ SameHands(f)
<1>1. ex' = [ex EXCEPT ![e].pc = point] /\ ex[e] \in Threads
  BY DEF ExGoto
<1>2. ex'[e] = [ex[e] EXCEPT !.pc = point] /\ \A f \in Executors : f # e => ex'[f] = ex[f]
  BY <1>1
<1>3. \A f \in Executors : f # e => SameHands(f)
  BY <1>2 DEF SameHands
<1> QED BY <1>1, <1>2, <1>3 DEF Threads

\* Executors that are woken keep what they have in their hands.
LEMMA WakeHands ==
  ASSUME ex \in [Executors -> Threads],
         ex' = [e \in Executors |-> IF ex[e].pc = "sleep" THEN [ex[e] EXCEPT !.pc = "pal"] ELSE ex[e]]
  PROVE  \A e \in Executors : SameHands(e)
<1>1. ASSUME NEW e \in Executors PROVE SameHands(e)
  <2>1. ex'[e] = (IF ex[e].pc = "sleep" THEN [ex[e] EXCEPT !.pc = "pal"] ELSE ex[e]) /\ ex[e] \in Threads
    OBVIOUS
  <2> QED BY <2>1 DEF SameHands, MovePoints, Threads
<1> QED BY <1>1

\* The steps in which a thread waits, gets its parameters, gives its input back or ends,
\* and the ones that pause and stop the DAG, are quiet.
LEMMA QuietExecutor ==
  ASSUME TypeInv, NEW e \in Executors,
         WaitPolicy(e) \/ WaitTimesOut(e) \/ GetPal(e) \/ ThreadExits(e) \/ ReturnInput(e)
  PROVE  Quiet
<1>1. ex \in [Executors -> Threads]
  BY DEF TypeInv
<1>2. /\ UNCHANGED <<tasks, mOngoingTasks, ad, mInputQueue, mOutputQueue, pipeVars>> /\ dag' = dag
  BY DEF WaitPolicy, WaitTimesOut, GetPal, ThreadExits, ReturnInput, taskVars, queueVars
<1>3. \A f \in Executors : SameHands(f)
  <2>1. CASE WaitPolicy(e)
    <3>1. CASE ExGoto(e, "pal") \/ ExGoto(e, "sleep")
      <4>1. SameHands(e)
        BY <1>1, <2>1, <3>1, GotoHands DEF SameHands, MovePoints, WaitPolicy, ExAt
      <4> QED BY <1>1, <3>1, <4>1, GotoHands
    <3>2. CASE ex' = [f \in Executors |-> IF f = e \/ ExAt(f, "sleep")
                                          THEN [ex[f] EXCEPT !.pc = "pal"] ELSE ex[f]]
      <4>1. ASSUME NEW f \in Executors PROVE SameHands(f)
        <5>1. ex'[f] = (IF f = e \/ ExAt(f, "sleep") THEN [ex[f] EXCEPT !.pc = "pal"] ELSE ex[f])
              /\ ex[f] \in Threads
          BY <1>1, <3>2
        <5>2. ExAt(e, "wait")
          BY <2>1 DEF WaitPolicy
        <5>3. CASE f = e \/ ExAt(f, "sleep")
          <6>1. ex'[f] = [ex[f] EXCEPT !.pc = "pal"] /\ ex[f].pc \in {"wait", "sleep"}
            BY <5>1, <5>2, <5>3 DEF ExAt
          <6> QED BY <5>1, <6>1 DEF SameHands, MovePoints, Threads
        <5>4. CASE ~ (f = e \/ ExAt(f, "sleep"))
          BY <5>1, <5>4 DEF SameHands
        <5> QED BY <5>3, <5>4
      <4> QED BY <4>1
    <3> QED BY <2>1, <3>1, <3>2 DEF WaitPolicy
  <2>2. CASE WaitTimesOut(e)
    <3>1. SameHands(e)
      BY <1>1, <2>2, GotoHands DEF SameHands, MovePoints, WaitTimesOut, ExAt
    <3> QED BY <1>1, <2>2, <3>1, GotoHands DEF WaitTimesOut
  <2>3. CASE GetPal(e)
    <3>1. ex' = [ex EXCEPT ![e].pc = "run", ![e].pal = getIpuParameter(ispParam[e[1]], ex[e].seq)]
          /\ ExAt(e, "pal")
      BY <2>3 DEF GetPal
    <3> DEFINE node == getIpuParameter(ispParam[e[1]], ex[e].seq)
    <3>2. ex'[e] = [ex[e] EXCEPT !.pc = "run", !.pal = node] /\ ex[e] \in Threads
      BY <1>1, <3>1
    <3> HIDE DEF node
    <3> DEFINE t == ex[e]
               u == [t EXCEPT !.pc = "run", !.pal = node]
    <3>5. t \in Threads /\ ex'[e] = u
      BY <3>2
    <3> HIDE DEF t
    <3>6. u.pc = "run" /\ u.seq = t.seq /\ u.out = t.out /\ u.left = t.left
          /\ u.task = t.task /\ u.complete = t.complete
      BY <3>5 DEF Threads
    <3> HIDE DEF u
    <3>3. SameHands(e)
      BY <3>1, <3>5, <3>6 DEF SameHands, MovePoints, ExAt, t
    <3>4. \A f \in Executors : f # e => ex'[f] = ex[f]
      BY <1>1, <3>1
    <3> QED BY <3>3, <3>4 DEF SameHands
  <2>4. CASE ThreadExits(e)
    <3>1. SameHands(e)
      BY <1>1, <2>4, GotoHands DEF SameHands, RestPoints, ThreadExits, ExAt
    <3> QED BY <1>1, <2>4, <3>1, GotoHands DEF ThreadExits
  <2>5. CASE ReturnInput(e)
    <3>1. SameHands(e)
      BY <1>1, <2>5, GotoHands DEF SameHands, RestPoints, ReturnInput, ExAt
    <3> QED BY <1>1, <2>5, <3>1, GotoHands DEF ReturnInput
  <2> QED BY <2>1, <2>2, <2>3, <2>4, <2>5
<1> QED BY <1>2, <1>3 DEF Quiet, InUse

\* The steps that pause the DAG and that begin to stop it are quiet.
LEMMA QuietControl ==
  ASSUME TypeInv, setActive \/ stopProcessing \/ notifyStop
  PROVE  Quiet
<1>1. ex \in [Executors -> Threads] /\ dag \in Dags
  BY DEF TypeInv
<1>2. UNCHANGED <<tasks, mOngoingTasks, ad, mInputQueue, mOutputQueue, pipeVars>>
  BY DEF setActive, stopProcessing, notifyStop, taskVars, queueVars
<1>3. \A f \in Executors : SameHands(f)
  <2>1. CASE setActive \/ stopProcessing
    BY <1>1, <2>1, WakeHands DEF setActive, stopProcessing, ExAt
  <2>2. CASE notifyStop
    <3>1. ASSUME NEW f \in Executors PROVE SameHands(f)
      <4>1. ex'[f] = [ex[f] EXCEPT !.running = FALSE] /\ ex[f] \in Threads
        BY <1>1, <2>2 DEF notifyStop
      <4> QED BY <4>1 DEF SameHands, Threads
    <3> QED BY <3>1
  <2> QED BY <2>1, <2>2
<1>4. /\ \A e \in Executors : InUse(e)' <=> InUse(e)
      /\ dag'.state = "join" => dag' = dag \/ dag'.left = Executors
      /\ dag'.state = "stopped" => dag.state = "stopped"
  <2>1. CASE setActive
    BY <2>1 DEF setActive, InUse
  <2>2. CASE stopProcessing
    BY <1>1, <2>2, StopEffect DEF InUse
  <2>3. CASE notifyStop
    BY <1>1, <2>3, NotifyStopEffect DEF InUse
  <2> QED BY <2>1, <2>2, <2>3
<1> QED BY <1>2, <1>3, <1>4 DEF Quiet

\* A stuttering step is quiet.
LEMMA QuietStutter ==
  ASSUME UNCHANGED vars
  PROVE  Quiet
<1> QED BY DEF vars, taskVars, queueVars, Quiet, InUse, SameHands

-----------------------------------------------------------------------------
(* The steps of one executor.                                              *)

\* The parts of a line depend on few things.
LEMMA InputKept ==
  ASSUME NEW act, NEW c, NEW c2, NEW e \in Executors, InputLine(act, c, e),
         tasks' = tasks, c2[e] = c[e], mInputQueue'[e] = mInputQueue[e],
         ~ IsInputEdge(e) => /\ c2[Producer(e)] = c[Producer(e)]
                             /\ Kept(Producer(e))' = Kept(Producer(e)),
         IsInputEdge(e) => One(InputDue(e[1]))' = One(InputDue(e[1]))
  PROVE  InputLine(act, c2, e)'
  BY DEF InputLine

\* The entries of the ports stay with the queues of the ports.
LEMMA OutputKept ==
  ASSUME NEW act, NEW c, NEW c2, NEW e \in Executors, OutputLine(act, c, e),
         tasks' = tasks, c2[e] = c[e], \A p \in OutPorts(e) : mOutputQueue'[p] = mOutputQueue[p],
         \A p \in OutPorts(e) : One(OutputDue(e[1], p))' = One(OutputDue(e[1], p))
  PROVE  OutputLine(act, c2, e)'
  BY DEF OutputLine, BufferOf

\* What an executor has in its hands stays of its task.
LEMMA HandsKept ==
  ASSUME NEW act, NEW c, NEW c2, NEW e \in Executors, HandsLine(act, c, e), SameHands(e),
         tasks' = tasks, c2[e] = c[e]
  PROVE  HandsLine(act, c2, e)'
  BY SamePoints DEF HandsLine, BufferOf

\* A step of executor e: the others keep their frames.
OneStep(e) ==
    /\ tasks' = tasks /\ ad' = ad /\ dag' = dag
    /\ \A f \in Executors : f # e => ex'[f] = ex[f]
    /\ \A f \in Executors : f # e =>
          /\ Producer(f) # e \/ IsInputEdge(f) => mInputQueue'[f] = mInputQueue[f]
          /\ \A p \in OutPorts(f) : mOutputQueue'[p] = mOutputQueue[p]

\* All of it is kept, but for the input of the consumer.
LEMMA OthersKept ==
  ASSUME TypeInv, NEW act, NEW c, NEW c2, Lines(act, c), CountLines(act, c),
         NEW e \in Executors, OneStep(e), \A f \in Executors : f # e => c2[f] = c[f],
         NEW f \in Executors, f # e, InUse(f), abandoned' = abandoned,
         \A n \in DOMAIN tasks : counted'[n] \cap OutPorts(f) = counted[n] \cap OutPorts(f)
  PROVE  /\ OutputLine(act, c2, f)' /\ HandsLine(act, c2, f)' /\ CountLine(act, c2, f)'
         /\ Producer(f) # e \/ IsInputEdge(f) => InputLine(act, c2, f)'
<1>1. tasks' = tasks /\ ad' = ad /\ SameHands(f) /\ c2[f] = c[f] /\ QueueType
  BY DEF OneStep, SameHands, TypeInv
<1>2. InputLine(act, c, f) /\ OutputLine(act, c, f) /\ HandsLine(act, c, f) /\ CountLine(act, c, f)
      /\ ActiveTasks(act)
  BY DEF Lines, CountLines
<1>3. /\ One(InputDue(f[1]))' = One(InputDue(f[1]))
      /\ \A p \in OutPorts(f) : One(OutputDue(f[1], p))' = One(OutputDue(f[1], p))
  BY <1>1, DueKept
<1>4. \A p \in OutPorts(f) : mOutputQueue'[p] = mOutputQueue[p]
  BY DEF OneStep
<1>5. OutputLine(act, c2, f)'
  BY <1>1, <1>2, <1>3, <1>4, OutputKept
<1>6. HandsLine(act, c2, f)'
  BY <1>1, <1>2, HandsKept
<1>7. CountLine(act, c2, f)'
  <2>1. f[1] \in Streams /\ (Holds(f) => c[f] \in DOMAIN act[f[1]])
    BY <1>1, HandsPlace, Neighbours
  <2>2. \A n \in DOMAIN tasks : /\ counted'[n] \cap OutPorts(f) = counted[n] \cap OutPorts(f)
                                /\ n \in abandoned' <=> n \in abandoned
    OBVIOUS
  <2> QED BY <1>1, <1>2, <2>1, <2>2, CountsKept
<1>8. ASSUME Producer(f) # e \/ IsInputEdge(f)
      PROVE  InputLine(act, c2, f)'
  <2>1. mInputQueue'[f] = mInputQueue[f]
    BY <1>8 DEF OneStep
  <2>2. ~ IsInputEdge(f) => /\ c2[Producer(f)] = c[Producer(f)]
                            /\ Kept(Producer(f))' = Kept(Producer(f))
    <3> SUFFICES ASSUME ~ IsInputEdge(f)
        PROVE  c2[Producer(f)] = c[Producer(f)] /\ Kept(Producer(f))' = Kept(Producer(f))
      OBVIOUS
    <3>1. Producer(f) \in Executors /\ Producer(f) # e
      BY <1>8, Neighbours
    <3> QED BY <3>1 DEF OneStep, Kept
  <2> QED BY <1>1, <1>2, <1>3, <2>1, <2>2, InputKept
<1> QED BY <1>5, <1>6, <1>7, <1>8

\* The calls stay while no executor in them moves on.
LEMMA CallsSame ==
  ASSUME CallInv, \A e \in Executors : Calls(e) \/ Calls(e)' => ex'[e] = ex[e],
         tasks' = tasks, counted' = counted, called' = called, finished' = finished,
         abandoned' = abandoned, dag' = dag
  PROVE  CallInv'
<1>1. \A e \in Executors :
        /\ Calls(e)' <=> Calls(e)
        /\ ExAt(e, "callback")' <=> ExAt(e, "callback")
        /\ Calls(e) => ex'[e] = ex[e] /\ CurrentPort(e)' = CurrentPort(e)
  BY DEF Calls, ExAt, CurrentPort
<1>2. \A e \in Executors : ExAt(e, "callback") => Calls(e)
  BY DEF ExAt, Calls
<1>3. ASSUME NEW e \in Executors, Calls(e)'
      PROVE  /\ IsOutputEdge(e)
             /\ ex'[e].complete => counted'[ex'[e].task] = tasks'[ex'[e].task].ports
                                   /\ ex'[e].task \notin finished'
             /\ ex'[e].pc = "callback" => CurrentPort(e)' \notin called'[ex'[e].task]
             /\ ex'[e].pc = "task" => ex'[e].complete /\ CurrentPort(e)' \in called'[ex'[e].task]
  BY <1>1, <1>3 DEF CallInv
<1>4. ASSUME NEW e \in Executors, NEW f \in Executors, Calls(e)', Calls(f)', ex'[e].complete,
             ex'[f].complete, e # f
      PROVE  ex'[e].task # ex'[f].task
  BY <1>1, <1>4 DEF CallInv
<1>5. ASSUME NEW n \in DOMAIN tasks, NEW p \in counted[n] \ called[n]
      PROVE  \E e \in Executors : ExAt(e, "callback")' /\ ex'[e].task = n /\ CurrentPort(e)' = p
  <2>1. PICK e \in Executors : ExAt(e, "callback") /\ ex[e].task = n /\ CurrentPort(e) = p
    BY <1>5 DEF CallInv
  <2> QED BY <1>1, <1>2, <2>1
<1>6. /\ finished' \subseteq DOMAIN tasks' /\ abandoned' \subseteq DOMAIN tasks'
      /\ \A n \in finished' : counted'[n] = tasks'[n].ports
      /\ dag'.state = "stopped" => abandoned' = DOMAIN tasks' \ finished'
  BY DEF CallInv
<1> QED BY <1>3, <1>4, <1>5, <1>6 DEF CallInv

\* The queues of an executor that is not in use stay empty.
LEMMA JoinKept ==
  ASSUME JoinInv, dag' = dag,
         \A f \in Executors : ~ InUse(f) =>
           /\ mInputQueue'[f] = mInputQueue[f]
           /\ \A p \in OutPorts(f) : mOutputQueue'[p] = mOutputQueue[p]
  PROVE  JoinInv'
<1>1. \A f \in Executors : InUse(f)' <=> InUse(f)
  BY DEF InUse
<1> QED BY <1>1 DEF JoinInv

\* The ongoing tasks stay while nothing is counted.
LEMMA OngoingKept ==
  ASSUME OngoingInv, tasks' = tasks, mOngoingTasks' = mOngoingTasks, counted' = counted,
         called' = called
  PROVE  OngoingInv'
  BY DEF OngoingInv

\* A pipe that fails loses its frame, and its thread ends.
LEMMA FailKeeps ==
  ASSUME TypeInv, EndInv, NEW act, NEW c, DagInv(act, c), NEW e \in Executors, RunFails(e)
  PROVE  DagInv(act, c)'
<1>1. /\ tasks' = tasks /\ mOngoingTasks' = mOngoingTasks /\ ad' = ad /\ dag' = dag
      /\ mInputQueue' = mInputQueue /\ mOutputQueue' = mOutputQueue
      /\ counted' = counted /\ called' = called /\ finished' = finished /\ abandoned' = abandoned
  BY DEF RunFails, taskVars, queueVars, pipeVars
<1>2. /\ ExAt(e, "run") /\ ex'[e].pc = "dead" /\ \A f \in Executors : f # e => ex'[f] = ex[f]
  BY FailEffect
<1>3. OneStep(e)
  BY <1>1, <1>2 DEF OneStep
<1>4. \A f \in Executors : InUse(f)' <=> InUse(f)
  BY <1>1 DEF InUse
<1>5. TodoInv' /\ JoinInv' /\ OngoingInv'
  BY <1>1, DueKept, JoinKept, OngoingKept DEF DagInv
<1>6. CallInv'
  <2>1. \A f \in Executors : Calls(f) \/ Calls(f)' => ex'[f] = ex[f]
    BY <1>2 DEF Calls, ExAt
  <2> QED BY <1>1, <2>1, CallsSame DEF DagInv
<1>7. Lines(act, c) /\ CountLines(act, c) /\ ActiveTasks(act)'
  BY <1>1 DEF DagInv, Lines, ActiveTasks, getActiveStreamIds
<1>8. /\ One(InputDue(e[1]))' = One(InputDue(e[1]))
      /\ \A p \in OutPorts(e) : One(OutputDue(e[1], p))' = One(OutputDue(e[1], p))
  BY <1>1, DueKept
<1>9. \A f \in Executors : Kept(f)' = Kept(f)
  BY <1>2 DEF Kept, ExAt
<1>10. ASSUME NEW f \in Executors, InUse(f)
       PROVE  InputLine(act, c, f)' /\ OutputLine(act, c, f)' /\ HandsLine(act, c, f)'
              /\ CountLine(act, c, f)'
  <2>1. InputLine(act, c, f) /\ OutputLine(act, c, f) /\ HandsLine(act, c, f) /\ CountLine(act, c, f)
    BY <1>7, <1>10 DEF Lines, CountLines
  <2>2. InputLine(act, c, f)'
    <3>1. ~ IsInputEdge(f) => Producer(f) \in Executors
      BY Neighbours
    <3>2. One(InputDue(f[1]))' = One(InputDue(f[1]))
      BY <1>1, DueKept
    <3> QED BY <1>1, <1>9, <2>1, <3>1, <3>2, InputKept
  <2>3. CASE f # e
    BY <1>1, <1>3, <1>7, <1>10, <2>2, <2>3, OthersKept
  <2>4. CASE f = e
    <3>1. OutputLine(act, c, e)'
      BY <1>1, <1>8, <2>1, <2>4, OutputKept
    <3>2. HandsLine(act, c, e)'
      BY <1>2 DEF HandsLine, Holds, HoldPoints
    <3>3. CountLine(act, c, e)'
      <4>1. ~ Holds(e)' /\ ExAt(e, "dead")'
        BY <1>2 DEF Holds, HoldPoints, ExAt
      <4> QED BY <1>1, <2>1, <2>4, <4>1 DEF CountLine
    <3> QED BY <2>2, <2>4, <3>1, <3>2, <3>3
  <2> QED BY <2>3, <2>4
<1>11. Lines(act, c)' /\ CountLines(act, c)'
  <2>1. act \in [Streams -> Seq(Nat)] /\ c \in [Executors -> Nat]
    BY <1>7 DEF Lines
  <2> QED BY <1>4, <1>7, <1>10, <2>1 DEF Lines, CountLines
<1> QED BY <1>5, <1>6, <1>11 DEF DagInv

\* The first of a queue is taken out, the others move up.
LEMMA TakeFirst ==
  ASSUME NEW S, NEW q \in Seq(S), q # <<>>
  PROVE  /\ Head(q) = q[1] /\ Tail(q) \in Seq(S) /\ Len(q) >= 1 /\ Len(Tail(q)) = Len(q) - 1
         /\ \A k \in DOMAIN Tail(q) : k + 1 \in DOMAIN q /\ Tail(q)[k] = q[k + 1]
<1>1. Len(q) \in Nat /\ Len(q) >= 1 /\ Head(q) = q[1]
  OBVIOUS
<1>2. Tail(q) \in Seq(S) /\ Len(Tail(q)) = Len(q) - 1
  OBVIOUS
<1>3. \A k \in DOMAIN Tail(q) : k + 1 \in DOMAIN q /\ Tail(q)[k] = q[k + 1]
  BY <1>1, <1>2
<1> QED BY <1>1, <1>2, <1>3

\* The frame and the buffers that an executor takes.
LEMMA FetchHands ==
  ASSUME TypeInv, NEW e \in Executors, Fetch(e)
  PROVE  /\ ExAt(e, "loop") /\ ex'[e].seq = Head(mInputQueue[e])
         /\ \A p \in OutPorts(e) : ex'[e].out[p] = Head(mOutputQueue[p])
         /\ ex'[e].left = {p \in OutPorts(e) : Head(mOutputQueue[p]) # 0}
         /\ \A p \in OutPorts(e) : mOutputQueue[p] # <<>> /\ mOutputQueue'[p] = Tail(mOutputQueue[p])
         /\ \A p \in Ports : p \notin OutPorts(e) => mOutputQueue'[p] = mOutputQueue[p]
<1> DEFINE out == [p \in Ports |-> IF p \in OutPorts(e) THEN Head(mOutputQueue[p]) ELSE 0]
           point == IF e \in Bundle THEN "wait" ELSE "pal"
           full == {p \in OutPorts(e) : out[p] # 0}
           seq == Head(mInputQueue[e])
           t == ex[e]
           t2 == [t EXCEPT !.pc = point, !.seq = seq, !.out = out, !.left = full]
<1>1. ex' = [ex EXCEPT ![e] = t2] /\ ExAt(e, "loop")
  BY DEF Fetch
<1>2. t \in Threads /\ ex \in [Executors -> Threads] /\ OutPorts(e) \subseteq Ports
  BY PortTypes DEF TypeInv
<1>3. \A p \in OutPorts(e) : mOutputQueue[p] # <<>>
  BY DEF Fetch, BuffersWait, OutPorts
<1>4. mOutputQueue' = [p \in Ports |-> IF p \in OutPorts(e) THEN Tail(mOutputQueue[p])
                                       ELSE mOutputQueue[p]]
  BY DEF Fetch
<1>5. \A p \in OutPorts(e) : out[p] = Head(mOutputQueue[p])
  BY <1>2
<1>6. full = {p \in OutPorts(e) : Head(mOutputQueue[p]) # 0}
  BY <1>5
<1> HIDE DEF out, point, full, seq, t
<1>7. t2.seq = seq /\ t2.out = out /\ t2.left = full
  BY <1>2 DEF Threads
<1> HIDE DEF t2
<1>8. ex'[e] = t2
  BY <1>1, <1>2
<1> QED BY <1>1, <1>2, <1>3, <1>4, <1>5, <1>6, <1>7, <1>8 DEF seq

\* An executor fetches the next frame of its stream, and all of it is of one task.
LEMMA FetchKeeps ==
  ASSUME TypeInv, EndInv, NEW act, NEW c, DagInv(act, c), NEW e \in Executors, Fetch(e)
  PROVE  DagInv(act, [c EXCEPT ![e] = c[e] + 1])'
<1> DEFINE c2 == [c EXCEPT ![e] = c[e] + 1]
           n == act[e[1]][c[e] + 1]
<1>1. /\ tasks' = tasks /\ mOngoingTasks' = mOngoingTasks /\ ad' = ad /\ dag' = dag
      /\ counted' = counted /\ called' = called /\ finished' = finished /\ abandoned' = abandoned
  BY DEF Fetch, taskVars, pipeVars
<1>2. /\ ExAt(e, "loop") /\ ex'[e].pc \in {"wait", "pal"}
      /\ \A f \in Executors : f # e => ex'[f] = ex[f] /\ mInputQueue'[f] = mInputQueue[f]
      /\ mInputQueue[e] # <<>> /\ mInputQueue'[e] = Tail(mInputQueue[e])
      /\ QueueType /\ QueueType'
  BY FetchEffect, FetchHands DEF TypeInv
<1>3. \A f \in Executors : f # e => \A p \in OutPorts(f) : mOutputQueue'[p] = mOutputQueue[p]
  BY PortOwner, PortTypes, FetchHands
<1>4. OneStep(e)
  BY <1>1, <1>2, <1>3 DEF OneStep
<1>5. \A f \in Executors : InUse(f)' <=> InUse(f)
  BY <1>1 DEF InUse
<1>6. InUse(e)
  BY <1>2, AtWork DEF Ended, ExAt
<1>7. TodoInv' /\ JoinInv' /\ OngoingInv'
  <2>1. \A f \in Executors : ~ InUse(f) => f # e
    BY <1>6
  <2>2. JoinInv'
    BY <1>1, <1>2, <1>3, <2>1, JoinKept DEF DagInv
  <2> QED BY <1>1, <2>2, DueKept, OngoingKept DEF DagInv
<1>8. CallInv'
  <2>1. \A f \in Executors : Calls(f) \/ Calls(f)' => ex'[f] = ex[f]
    BY <1>2 DEF Calls, ExAt
  <2> QED BY <1>1, <2>1, CallsSame DEF DagInv
<1>9. Lines(act, c) /\ CountLines(act, c) /\ ActiveTasks(act) /\ ActiveTasks(act)'
  BY <1>1 DEF DagInv, Lines, ActiveTasks, getActiveStreamIds
<1>10. /\ InputLine(act, c, e) /\ OutputLine(act, c, e) /\ CountLine(act, c, e)
       /\ act \in [Streams -> Seq(Nat)] /\ c \in [Executors -> Nat] /\ e[1] \in Streams
  BY <1>6, <1>9, Neighbours DEF Lines, CountLines
<1>11. c2 \in [Executors -> Nat] /\ c2[e] = c[e] + 1 /\ c[e] \in Nat
       /\ \A f \in Executors : f # e => c2[f] = c[f]
  BY <1>10
<1> HIDE DEF c2
<1>12. /\ One(InputDue(e[1]))' = One(InputDue(e[1]))
       /\ \A p \in OutPorts(e) : One(OutputDue(e[1], p))' = One(OutputDue(e[1], p))
  BY <1>1, DueKept
<1> DEFINE q == mInputQueue[e]
<1>13. /\ q \in Seq(Sequences0) /\ Head(q) = q[1] /\ Len(q) \in Nat /\ Len(q) >= 1
       /\ Len(Tail(q)) = Len(q) - 1
       /\ \A k \in DOMAIN Tail(q) : k + 1 \in DOMAIN q /\ Tail(q)[k] = q[k + 1]
       /\ \A k \in DOMAIN Tail(q) : k \in Nat
       /\ 1 \in DOMAIN q
  <2>1. q \in Seq(Sequences0) /\ q # <<>>
    BY <1>2 DEF QueueType
  <2> HIDE DEF q
  <2> QED BY <2>1, TakeFirst
<1>14. /\ c[e] + 1 \in DOMAIN act[e[1]] /\ n \in DOMAIN tasks /\ n \in Nat /\ n # 0
       /\ e[1] \in getActiveStreamIds(n) /\ Len(act[e[1]]) \in Nat
  <2>1. act[e[1]] \in Seq(Nat) /\ c[e] \in Nat /\ c[e] + Len(q) <= Len(act[e[1]])
    BY <1>10 DEF InputLine
  <2>2. c[e] + 1 \in DOMAIN act[e[1]]
    BY <1>13, <2>1
  <2>3. n \in DOMAIN tasks /\ e[1] \in getActiveStreamIds(n)
    BY <1>9, <1>10, <2>2 DEF ActiveTasks
  <2>4. tasks \in Seq([ports : SUBSET Ports, seq : Sequences0])
    BY DEF TypeInv, TaskInv, TaskType
  <2>5. n \in 1..Len(tasks) /\ Len(tasks) \in Nat
    BY <2>3, <2>4
  <2> QED BY <2>1, <2>2, <2>3, <2>5
<1>15. InputLine(act, c2, e)'
  <2>6. c2[e] = c[e] + 1 /\ c[e] \in Nat /\ Len(q) \in Nat /\ Len(Tail(q)) = Len(q) - 1
    BY <1>11, <1>13
  <2>1. c2[e] + Len(Tail(q)) = c[e] + Len(q)
    BY <2>6
  <2>2. \A k \in DOMAIN Tail(q) : Tail(q)[k] = tasks[act[e[1]][c2[e] + k]].seq
    <3> SUFFICES ASSUME NEW k \in DOMAIN Tail(q) PROVE Tail(q)[k] = tasks[act[e[1]][c2[e] + k]].seq
      OBVIOUS
    <3>1. k + 1 \in DOMAIN q /\ Tail(q)[k] = q[k + 1] /\ k \in Nat
      BY <1>13
    <3>3. \A i, j, m \in Nat : j = i + 1 => i + (m + 1) = j + m
      OBVIOUS
    <3>2. c[e] + (k + 1) = c2[e] + k
      <4> HIDE DEF c2
      <4>1. c[e] \in Nat /\ c2[e] = c[e] + 1 /\ c2[e] \in Nat
        BY <2>6
      <4> QED BY <3>1, <3>3, <4>1
    <3> QED BY <1>10, <3>1, <3>2 DEF InputLine
  <2>3. ~ IsInputEdge(e) => /\ c2[Producer(e)] = c[Producer(e)]
                            /\ Kept(Producer(e))' = Kept(Producer(e))
    BY <1>2, <1>11, Neighbours DEF Kept
  <2>4. mInputQueue'[e] = Tail(q)
    BY <1>2
  <2> HIDE DEF q
  <2>5. mInputQueue[e] = q
    BY DEF q
  <2> QED BY <1>1, <1>10, <1>12, <2>1, <2>2, <2>3, <2>4, <2>5 DEF InputLine
<1>16. OutputLine(act, c2, e)'
  <2>1. ASSUME NEW p \in OutPorts(e)
        PROVE  /\ c2[e] + Len(mOutputQueue'[p]) + One(OutputDue(e[1], p))' = Len(act[e[1]])
               /\ \A k \in DOMAIN mOutputQueue'[p] :
                    mOutputQueue'[p][k] = BufferOf(act[e[1]][c2[e] + k], p)'
    <3> DEFINE r == mOutputQueue[p]
               due == One(OutputDue(e[1], p))
    <3>1. mOutputQueue'[p] = Tail(r) /\ r # <<>> /\ r \in Seq(0..MaxTasks)
      BY <1>2, <2>1, FetchHands, PortTypes DEF QueueType
    <3>2. due \in Nat
      BY DEF One
    <3>3. /\ c[e] + Len(r) + due = Len(act[e[1]])
          /\ \A k \in DOMAIN r : r[k] = BufferOf(act[e[1]][c[e] + k], p)
      BY <1>10, <2>1 DEF OutputLine
    <3>4. \A m : BufferOf(m, p)' = BufferOf(m, p)
      BY <1>1 DEF BufferOf
    <3>5. One(OutputDue(e[1], p))' = due
      BY <1>12, <2>1
    <3> HIDE DEF r, due
    <3>6. /\ Len(r) \in Nat /\ Len(Tail(r)) = Len(r) - 1
          /\ \A k \in DOMAIN Tail(r) : k + 1 \in DOMAIN r /\ Tail(r)[k] = r[k + 1] /\ k \in Nat
      BY <3>1, TakeFirst
    <3>7. c2[e] + Len(Tail(r)) + due = Len(act[e[1]])
      BY <1>11, <3>2, <3>3, <3>6
    <3>8. ASSUME NEW k \in DOMAIN Tail(r)
          PROVE  Tail(r)[k] = BufferOf(act[e[1]][c2[e] + k], p)
      <4>1. k + 1 \in DOMAIN r /\ Tail(r)[k] = r[k + 1] /\ k \in Nat
        BY <3>6
      <4>2. c2[e] = c[e] + 1 /\ c[e] \in Nat
        BY <1>11
      <4>3. c[e] + (k + 1) = c2[e] + k
        BY <4>1, <4>2
      <4> QED BY <3>3, <4>1, <4>3
    <3> QED BY <3>1, <3>4, <3>5, <3>7, <3>8
  <2> QED BY <1>1, <2>1 DEF OutputLine, BufferOf
<1>17. ex'[e].left = OutPorts(e) \cap tasks[n].ports
  <2>1. ASSUME NEW p \in OutPorts(e)
        PROVE  Head(mOutputQueue[p]) = BufferOf(n, p)
    <3>1. mOutputQueue[p] # <<>> /\ mOutputQueue[p] \in Seq(0..MaxTasks)
      BY <1>2, <2>1, FetchHands, PortTypes DEF QueueType
    <3>2. Head(mOutputQueue[p]) = mOutputQueue[p][1] /\ 1 \in DOMAIN mOutputQueue[p]
      BY <3>1
    <3> QED BY <1>10, <2>1, <3>2 DEF OutputLine
  <2> QED BY <1>14, <2>1, FetchHands DEF BufferOf
<1>18. HandsLine(act, c2, e)'
  <2>1. c2[e] # 0 /\ act[e[1]][c2[e]] = n
    BY <1>11
  <2>2. ex'[e].seq = tasks[n].seq
    BY <1>10, <1>13, FetchHands DEF InputLine
  <2>3. ASSUME NEW p \in OutPorts(e) PROVE ex'[e].out[p] = BufferOf(n, p)
    <3>1. mOutputQueue[p] # <<>> /\ mOutputQueue[p] \in Seq(0..MaxTasks)
      BY <1>2, <2>3, FetchHands, PortTypes DEF QueueType
    <3>2. Head(mOutputQueue[p]) = mOutputQueue[p][1] /\ 1 \in DOMAIN mOutputQueue[p]
      BY <3>1
    <3> QED BY <1>10, <2>3, <3>2, FetchHands DEF OutputLine
  <2>4. IsOutputEdge(e) => ex'[e].left # {}
    BY <1>14, <1>17, PortTypes DEF getActiveStreamIds, StreamsOf
  <2> HIDE DEF n
  <2> QED BY <1>1, <1>17, <2>1, <2>2, <2>3, <2>4 DEF HandsLine, BufferOf
<1>19. CountLine(act, c2, e)'
  <2> SUFFICES ASSUME IsOutputEdge(e) PROVE CountLine(act, c2, e)'
    BY DEF CountLine
  <2>1. Holds(e)' /\ ~ Calls(e)' /\ ~ Holds(e) /\ ~ ExAt(e, "dead")
    BY <1>2 DEF Holds, HoldPoints, Calls, ExAt
  <2>2. ASSUME NEW k \in DOMAIN act[e[1]], k > c2[e]
        PROVE  act[e[1]][k] \notin abandoned' /\ counted'[act[e[1]][k]] \cap OutPorts(e) = {}
    <3>1. k > c[e]
      BY <1>10, <1>11, <2>2
    <3> QED BY <1>1, <1>10, <3>1 DEF CountLine
  <2>3. ASSUME NEW k \in DOMAIN act[e[1]], k < c2[e]
        PROVE  \/ act[e[1]][k] \in abandoned'
               \/ OutPorts(e) \cap tasks[act[e[1]][k]].ports \subseteq counted'[act[e[1]][k]]
    <3>1. k < c[e] \/ k = c[e]
      BY <1>10, <1>11, <2>3
    <3> QED BY <1>1, <1>10, <2>1, <3>1 DEF CountLine
  <2>4. n \notin abandoned' /\ counted'[n] \cap OutPorts(e) = {} /\ act[e[1]][c2[e]] = n
    <3>1. c[e] + 1 > c[e]
      BY <1>11
    <3> QED BY <1>1, <1>10, <1>11, <1>14, <3>1 DEF CountLine
  <2> HIDE DEF n
  <2> QED BY <1>1, <1>17, <2>1, <2>2, <2>3, <2>4 DEF CountLine
<1>20. ASSUME NEW f \in Executors, InUse(f)
       PROVE  InputLine(act, c2, f)' /\ OutputLine(act, c2, f)' /\ HandsLine(act, c2, f)'
              /\ CountLine(act, c2, f)'
  <2>1. CASE f = e
    BY <1>15, <1>16, <1>18, <1>19, <2>1
  <2>2. CASE f # e /\ (Producer(f) # e \/ IsInputEdge(f))
    BY <1>1, <1>4, <1>9, <1>11, <1>20, <2>2, OthersKept
  <2>3. CASE f # e /\ ~ IsInputEdge(f) /\ Producer(f) = e
    <3>1. OutputLine(act, c2, f)' /\ HandsLine(act, c2, f)' /\ CountLine(act, c2, f)'
      BY <1>1, <1>4, <1>9, <1>11, <1>20, <2>3, OthersKept
    <3>2. Kept(e) = 0 /\ Kept(e)' = 1
      BY <1>2 DEF Kept, One, ExAt
    <3>3. InputLine(act, c, f) /\ c2[f] = c[f] /\ c[f] \in Nat /\ Len(mInputQueue[f]) \in Nat
      BY <1>2, <1>9, <1>10, <1>11, <1>20, <2>3 DEF Lines, QueueType
    <3>4. c2[f] + Len(mInputQueue[f]) + Kept(e)' = c2[e]
      BY <1>11, <2>3, <3>2, <3>3 DEF InputLine
    <3>5. mInputQueue'[f] = mInputQueue[f]
      BY <1>2, <2>3
    <3> QED BY <1>1, <2>3, <3>1, <3>3, <3>4, <3>5 DEF InputLine
  <2> QED BY <2>1, <2>2, <2>3
<1>21. Lines(act, c2)' /\ CountLines(act, c2)'
  BY <1>5, <1>9, <1>10, <1>11, <1>20 DEF Lines, CountLines
<1> QED BY <1>7, <1>8, <1>21 DEF DagInv, c2

\* A queue with one element more.
LEMMA AddLast ==
  ASSUME NEW S, NEW q \in Seq(S), NEW v \in S
  PROVE  /\ Len(Append(q, v)) = Len(q) + 1 /\ Len(q) \in Nat
         /\ \A k \in DOMAIN Append(q, v) : k \in Nat /\ (k \in DOMAIN q \/ k = Len(q) + 1)
         /\ \A k \in DOMAIN q : Append(q, v)[k] = q[k]
         /\ Append(q, v)[Len(q) + 1] = v
  OBVIOUS

\* An executor hands its frame on: the consumer gets what its producer has fetched.
LEMMA NotifyKeeps ==
  ASSUME TypeInv, EndInv, NEW act, NEW c, DagInv(act, c), NEW e \in Executors, NotifyConsumer(e)
  PROVE  DagInv(act, c)'
<1> DEFINE g == Consumer(e)
           q == mInputQueue[g]
           v == ex[e].seq
<1>1. /\ tasks' = tasks /\ mOngoingTasks' = mOngoingTasks /\ ad' = ad /\ dag' = dag
      /\ mOutputQueue' = mOutputQueue
      /\ counted' = counted /\ called' = called /\ finished' = finished /\ abandoned' = abandoned
  BY DEF NotifyConsumer, taskVars, pipeVars
<1>2. /\ ExAt(e, "run") /\ ~ IsOutputEdge(e) /\ ex'[e].pc \in {"loop", "return"}
      /\ \A f \in Executors : f # e => ex'[f] = ex[f]
      /\ \A f \in Executors : f # g => mInputQueue'[f] = mInputQueue[f]
      /\ QueueType
  BY NotifyEffect DEF TypeInv
<1>3. /\ g \in Executors /\ g # e /\ ~ IsInputEdge(g) /\ Producer(g) = e /\ g[1] = e[1]
      /\ e[1] \in Streams
  BY <1>2, Neighbours DEF Consumer
<1>4. mInputQueue'[g] = Append(q, v) /\ q \in Seq(Sequences0) /\ v \in Sequences0
  <2>1. mInputQueue' = [mInputQueue EXCEPT ![g] = Append(@, v)]
    BY DEF NotifyConsumer
  <2>2. mInputQueue \in [Executors -> Seq(Sequences0)]
    BY <1>2 DEF QueueType
  <2>3. v \in Sequences0
    BY <1>2 DEF TypeInv, SeqInv, ExAt
  <2> HIDE DEF g, v
  <2> QED BY <1>3, <2>1, <2>2, <2>3
<1>5. OneStep(e)
  <2>1. ASSUME NEW f \in Executors, f # e, Producer(f) # e \/ IsInputEdge(f)
        PROVE  mInputQueue'[f] = mInputQueue[f]
    BY <1>2, <1>3, <2>1
  <2> QED BY <1>1, <1>2, <2>1 DEF OneStep
<1>6. \A f \in Executors : InUse(f)' <=> InUse(f)
  BY <1>1 DEF InUse
<1>7. InUse(e) /\ InUse(g)
  BY <1>2, AtWork, ConsumerInUse DEF Ended, ExAt, DagInv
<1>8. TodoInv' /\ JoinInv' /\ OngoingInv'
  <2>1. JoinInv'
    BY <1>1, <1>2, <1>7, JoinKept DEF DagInv
  <2> QED BY <1>1, <2>1, DueKept, OngoingKept DEF DagInv
<1>9. CallInv'
  <2>1. \A f \in Executors : Calls(f) \/ Calls(f)' => ex'[f] = ex[f]
    BY <1>2 DEF Calls, ExAt
  <2> QED BY <1>1, <2>1, CallsSame DEF DagInv
<1>10. Lines(act, c) /\ CountLines(act, c) /\ ActiveTasks(act) /\ ActiveTasks(act)'
  BY <1>1 DEF DagInv, Lines, ActiveTasks, getActiveStreamIds
<1>11. /\ InputLine(act, c, e) /\ HandsLine(act, c, e) /\ InputLine(act, c, g)
       /\ act \in [Streams -> Seq(Nat)] /\ c \in [Executors -> Nat]
  BY <1>3, <1>7, <1>10 DEF Lines
<1>12. v = tasks[act[e[1]][c[e]]].seq
  BY <1>2, <1>11 DEF HandsLine, Holds, HoldPoints, ExAt
<1>13. Kept(e) = 1 /\ Kept(e)' = 0
  BY <1>2 DEF Kept, One, ExAt
<1>14. /\ c[g] + Len(q) + 1 = c[e] /\ c[e] <= Len(act[g[1]])
       /\ c[g] \in Nat /\ Len(q) \in Nat
  <2>1. act[e[1]] \in Seq(Nat) /\ c[e] \in Nat /\ c[g] \in Nat /\ Len(q) \in Nat
        /\ Len(mInputQueue[e]) \in Nat
    BY <1>2, <1>3, <1>4, <1>11 DEF QueueType
  <2>2. c[g] + Len(q) + 1 = c[e]
    BY <1>3, <1>11, <1>13 DEF InputLine
  <2>3. c[e] + Len(mInputQueue[e]) <= Len(act[e[1]]) /\ Len(act[e[1]]) \in Nat
    BY <1>11, <2>1 DEF InputLine
  <2>4. c[e] <= Len(act[e[1]])
    BY <2>1, <2>3
  <2> QED BY <1>3, <2>1, <2>2, <2>4
<1>15. InputLine(act, c, g)'
  <2> DEFINE q2 == Append(q, v)
  <2>1. /\ Len(q2) = Len(q) + 1
        /\ \A k \in DOMAIN q2 : k \in Nat /\ (k \in DOMAIN q \/ k = Len(q) + 1)
        /\ \A k \in DOMAIN q : q2[k] = q[k]
        /\ q2[Len(q) + 1] = v
    <3> HIDE DEF q, v
    <3> QED BY <1>4, AddLast
  <2> HIDE DEF q2
  <2>2. c[g] + Len(q2) <= Len(act[g[1]]) /\ c[g] + Len(q2) + Kept(e)' = c[e]
    BY <1>13, <1>14, <2>1
  <2>3. ASSUME NEW k \in DOMAIN q2 PROVE q2[k] = tasks[act[g[1]][c[g] + k]].seq
    <3>1. CASE k \in DOMAIN q
      BY <1>11, <2>1, <3>1 DEF InputLine
    <3>2. CASE k = Len(q) + 1
      <4>1. c[g] + k = c[e]
        BY <1>14, <3>2
      <4> QED BY <1>3, <1>12, <2>1, <3>2, <4>1
    <3> QED BY <2>1, <3>1, <3>2
  <2>4. mInputQueue'[g] = q2
    BY <1>4 DEF q2
  <2> HIDE DEF g
  <2> QED BY <1>1, <1>3, <2>2, <2>3, <2>4 DEF InputLine
<1> HIDE DEF g
<1>16. ASSUME NEW f \in Executors, InUse(f)
       PROVE  InputLine(act, c, f)' /\ OutputLine(act, c, f)' /\ HandsLine(act, c, f)'
              /\ CountLine(act, c, f)'
  <2>1. CASE f = e
    <3>1. ~ IsInputEdge(e) => Kept(Producer(e))' = Kept(Producer(e))
      BY <1>2, Neighbours DEF Kept
    <3>2. One(InputDue(e[1]))' = One(InputDue(e[1]))
      BY <1>1, DueKept
    <3>3. InputLine(act, c, e)'
      BY <1>1, <1>2, <1>3, <1>11, <3>1, <3>2, InputKept
    <3>4. OutputLine(act, c, e)'
      BY <1>2, PortTypes DEF OutputLine
    <3>5. HandsLine(act, c, e)'
      BY <1>2 DEF HandsLine, Holds, HoldPoints
    <3>6. CountLine(act, c, e)'
      BY <1>2 DEF CountLine
    <3> QED BY <2>1, <3>3, <3>4, <3>5, <3>6
  <2>2. CASE f # e
    <3>1. /\ OutputLine(act, c, f)' /\ HandsLine(act, c, f)' /\ CountLine(act, c, f)'
          /\ Producer(f) # e \/ IsInputEdge(f) => InputLine(act, c, f)'
      BY <1>1, <1>5, <1>10, <1>16, <2>2, OthersKept
    <3>2. ~ (Producer(f) # e \/ IsInputEdge(f)) => f = g
      BY Neighbours DEF g
    <3> QED BY <1>15, <3>1, <3>2
  <2> QED BY <2>1, <2>2
<1>17. Lines(act, c)' /\ CountLines(act, c)'
  BY <1>6, <1>10, <1>11, <1>16 DEF Lines, CountLines
<1> QED BY <1>8, <1>9, <1>17 DEF DagInv

-----------------------------------------------------------------------------
(* A buffer finds its task, and the task that has got all is taken out.    *)

\* RemoveAt() closes the gap.
LEMMA RemoveAtShifts ==
  ASSUME NEW S, NEW s \in Seq(S), NEW i \in DOMAIN s
  PROVE  /\ RemoveAt(s, i) \in Seq(S)
         /\ Len(RemoveAt(s, i)) = Len(s) - 1
         /\ \A k \in 1..Len(s) - 1 : RemoveAt(s, i)[k] = IF k < i THEN s[k] ELSE s[k + 1]
<1> DEFINE a == SubSeq(s, 1, i - 1)
           b == SubSeq(s, i + 1, Len(s))
<1>1. /\ a \in Seq(S) /\ Len(a) = i - 1
      /\ \A k \in 1..i - 1 : a[k] = s[k]
  OBVIOUS
<1>2. /\ b \in Seq(S) /\ Len(b) = Len(s) - i
      /\ \A k \in 1..Len(s) - i : b[k] = s[i + k]
  OBVIOUS
<1>3. /\ a \o b \in Seq(S) /\ Len(a \o b) = Len(s) - 1
      /\ \A k \in 1..Len(s) - 1 : (a \o b)[k] = IF k <= i - 1 THEN a[k] ELSE b[k - (i - 1)]
  <2> HIDE DEF a, b
  <2> QED BY <1>1, <1>2, ConcatProperties, SMTT(30)
<1>4. ASSUME NEW k \in 1..Len(s) - 1
      PROVE  (a \o b)[k] = IF k < i THEN s[k] ELSE s[k + 1]
  <2> HIDE DEF a, b
  <2>1. CASE k < i
    BY <1>1, <1>3, <2>1
  <2>2. CASE ~ (k < i)
    <3>1. k - (i - 1) \in 1..Len(s) - i /\ i + (k - (i - 1)) = k + 1
      BY <2>2
    <3>2. ~ (k <= i - 1)
      BY <2>2
    <3>3. (a \o b)[k] = b[k - (i - 1)]
      BY <1>3, <3>2
    <3>4. b[k - (i - 1)] = s[i + (k - (i - 1))]
      BY <1>2, <3>1
    <3> QED BY <2>2, <3>1, <3>3, <3>4
  <2> QED BY <2>1, <2>2
<1> QED BY <1>3, <1>4 DEF RemoveAt

\* The port that an executor at the end of a chain is to count, and its task: it is one of
\* the task, not counted before, and the task is the only one that fits.
LEMMA FoundTask ==
  ASSUME TypeInv, EndInv, NEW act, NEW c, DagInv(act, c), UsedOnce,
         NEW e \in Executors, AtFrameDone(e)
  PROVE  LET n == act[e[1]][c[e]]
             p == CurrentPort(e)
         IN  /\ IsOutputEdge(e) /\ InUse(e) /\ Holds(e) /\ ~ Calls(e)
             /\ p \in ex[e].left /\ p \in OutPorts(e) /\ p \in tasks[n].ports
             /\ c[e] \in DOMAIN act[e[1]] /\ n \in DOMAIN tasks
             /\ p \notin counted[n] /\ n \notin abandoned
             /\ ex[e].seq = tasks[n].seq
             /\ \E i \in DOMAIN mOngoingTasks : mOngoingTasks[i].n = n /\ TaskOf(e, p) = {i}
<1> DEFINE n == act[e[1]][c[e]]
           p == CurrentPort(e)
<1>1. IsOutputEdge(e) /\ ex[e].pc \in {"run", "count"}
  BY DEF AtFrameDone, ExAt
<1>2. Holds(e) /\ ~ Calls(e) /\ ~ Ended(e)
  BY <1>1 DEF Holds, HoldPoints, Calls, Ended
<1>3. InUse(e)
  BY <1>2, AtWork
<1>4. HandsLine(act, c, e) /\ CountLine(act, c, e) /\ OngoingInv /\ Lines(act, c) /\ QueueType
  BY <1>3 DEF DagInv, Lines, CountLines, TypeInv
<1>5. c[e] \in DOMAIN act[e[1]] /\ n \in DOMAIN tasks
  BY <1>2, <1>3, <1>4, HandsPlace
<1>6. /\ ex[e].left \subseteq OutPorts(e) \cap tasks[n].ports /\ ex[e].left # {}
      /\ ex[e].seq = tasks[n].seq
      /\ \A x \in OutPorts(e) : ex[e].out[x] = BufferOf(n, x)
  BY <1>1, <1>2, <1>4 DEF HandsLine
<1>7. p \in ex[e].left
  <2>1. ex[e].left \in SUBSET Nat
    BY <1>6, PortTypes
  <2> QED BY <1>6, <2>1, LeastIsIn DEF CurrentPort
<1> HIDE DEF p
<1>8. p \in OutPorts(e) /\ p \in tasks[n].ports /\ ex[e].out[p] = n
  BY <1>6, <1>7 DEF BufferOf
<1>9. n \notin abandoned /\ counted[n] \cap OutPorts(e) = (OutPorts(e) \cap tasks[n].ports) \ ex[e].left
  BY <1>1, <1>2, <1>4 DEF CountLine
<1>10. p \notin counted[n]
  BY <1>7, <1>8, <1>9
<1>11. PICK i \in DOMAIN mOngoingTasks : mOngoingTasks[i].n = n
  <2>1. counted[n] # tasks[n].ports
    BY <1>8, <1>10
  <2> QED BY <1>4, <1>5, <2>1 DEF OngoingInv
<1>12. i \in TaskOf(e, p)
  BY <1>6, <1>8, <1>11 DEF TaskOf
<1>13. ASSUME NEW j \in TaskOf(e, p), j # i PROVE FALSE
  <2> DEFINE m == mOngoingTasks[j].n
  <2>1. j \in DOMAIN mOngoingTasks /\ tasks[m].seq = tasks[n].seq /\ p \in tasks[m].ports
        /\ UserBuffer(m) = UserBuffer(n)
    BY <1>6, <1>8 DEF TaskOf
  <2>2. tasks[m].ports \cap tasks[n].ports # {}
    BY <1>8, <2>1
  <2> QED BY <1>11, <1>13, <2>1, <2>2 DEF UsedOnce
<1>14. TaskOf(e, p) = {i}
  BY <1>12, <1>13
<1> QED BY <1>1, <1>2, <1>3, <1>5, <1>6, <1>7, <1>8, <1>9, <1>10, <1>11, <1>14 DEF p

\* A task has got all of its buffers when their number is reached.
LEMMA LastBuffer ==
  ASSUME NEW ports \in SUBSET Ports, NEW got \in SUBSET ports, NEW p \in ports, p \notin got
  PROVE  /\ Cardinality(got \cup {p}) = Cardinality(got) + 1
         /\ Cardinality(got) \in Nat /\ Cardinality(ports) \in Nat
         /\ Cardinality(got) + 1 >= Cardinality(ports) <=> got \cup {p} = ports
<1>1. IsFiniteSet(ports)
  BY DagAssumption, FS_Subset
<1>2. IsFiniteSet(got)
  BY <1>1, FS_Subset
<1>3. Cardinality(got \cup {p}) = Cardinality(got) + 1
  BY <1>2, FS_AddElement
<1> DEFINE all == got \cup {p}
<1>4. all \in SUBSET ports
  OBVIOUS
<1>5. Cardinality(got) \in Nat /\ Cardinality(ports) \in Nat
  BY <1>1, <1>2, FS_CardinalityType
<1>6. Cardinality(all) = Cardinality(got) + 1
  BY <1>3
<1> HIDE DEF all
<1>7. Cardinality(all) <= Cardinality(ports) /\ (Cardinality(ports) = Cardinality(all) => ports = all)
  BY <1>1, <1>4, FS_Subset
<1>8. Cardinality(got) + 1 >= Cardinality(ports) <=> Cardinality(ports) = Cardinality(all)
  BY <1>5, <1>6, <1>7
<1>9. Cardinality(got) + 1 >= Cardinality(ports) <=> all = ports
  BY <1>7, <1>8
<1> QED BY <1>3, <1>5, <1>9 DEF all

\* onFrameDone counts the buffer for its task.
LEMMA FrameDoneFinds ==
  ASSUME TypeInv, EndInv, NEW act, NEW c, DagInv(act, c), UsedOnce,
         NEW e \in Executors, onFrameDone(e)
  PROVE  LET n == act[e[1]][c[e]]
             p == CurrentPort(e)
             full == counted[n] \cup {p} = tasks[n].ports
         IN  \E i \in DOMAIN mOngoingTasks :
               /\ mOngoingTasks[i].n = n
               /\ mOngoingTasks' = IF full THEN RemoveAt(mOngoingTasks, i)
                                   ELSE [mOngoingTasks EXCEPT ![i].returned = @ + 1]
               /\ counted' = [counted EXCEPT ![n] = @ \cup {p}]
               /\ counted[n] \subseteq tasks[n].ports
               /\ mOngoingTasks[i].returned + 1 = Cardinality(counted[n] \cup {p})
               /\ ex'[e].pc = "callback" /\ ex'[e].task = n /\ (ex'[e].complete <=> full)
               /\ ex'[e].seq = ex[e].seq /\ ex'[e].out = ex[e].out /\ ex'[e].left = ex[e].left
<1> DEFINE n == act[e[1]][c[e]]
           p == CurrentPort(e)
           full == counted[n] \cup {p} = tasks[n].ports
<1>1. AtFrameDone(e)
  BY DEF onFrameDone
<1>2. /\ p \in tasks[n].ports /\ n \in DOMAIN tasks /\ p \notin counted[n]
      /\ \E i \in DOMAIN mOngoingTasks : mOngoingTasks[i].n = n /\ TaskOf(e, p) = {i}
  BY <1>1, FoundTask
<1>3. PICK i \in DOMAIN mOngoingTasks : mOngoingTasks[i].n = n /\ TaskOf(e, p) = {i}
  BY <1>2
<1> DEFINE task == mOngoingTasks[i]
           found == [ex[e] EXCEPT !.pc = "callback", !.pal = NoNode, !.task = task.n,
                                  !.complete = IsComplete(task)]
<1>4. /\ mOngoingTasks \in Seq([n : DOMAIN tasks, returned : Nat])
      /\ tasks \in Seq([ports : SUBSET Ports, seq : Sequences0])
      /\ ex \in [Executors -> Threads]
  BY DEF TypeInv, TaskInv, TaskType
<1>5. i \in Nat /\ Min(TaskOf(e, p)) = i /\ TaskOf(e, p) # {}
  <2>1. i \in Nat
    BY <1>3, <1>4
  <2> HIDE DEF p
  <2> QED BY <1>3, <2>1, OnlyIsLeast
<1>6. /\ mOngoingTasks' = IF IsComplete(task) THEN RemoveAt(mOngoingTasks, i)
                          ELSE [mOngoingTasks EXCEPT ![i].returned = @ + 1]
      /\ counted' = [counted EXCEPT ![task.n] = @ \cup {p}]
      /\ ex' = [ex EXCEPT ![e] = found]
  BY <1>5 DEF onFrameDone
<1>7. tasks[n].ports \in SUBSET Ports
  <2> HIDE DEF n
  <2>1. n \in DOMAIN tasks
    BY <1>2
  <2> DEFINE T == [ports : SUBSET Ports, seq : Sequences0]
  <2>2. tasks \in Seq(T)
    BY <1>4
  <2>3. tasks[n] \in T
    <3> HIDE DEF T
    <3> QED BY <2>1, <2>2
  <2> QED BY <2>3
<1>8. counted[n] \in SUBSET tasks[n].ports /\ task.returned = Cardinality(counted[n])
  BY <1>2, <1>3 DEF DagInv, OngoingInv
<1>9. /\ Cardinality(counted[n] \cup {p}) = Cardinality(counted[n]) + 1
      /\ Cardinality(counted[n]) + 1 >= Cardinality(tasks[n].ports) <=> full
  <2>1. p \in tasks[n].ports /\ p \notin counted[n]
    BY <1>2
  <2> HIDE DEF n, p
  <2> QED BY <1>7, <1>8, <2>1, LastBuffer DEF full
<1>10. IsComplete(task) <=> full
  BY <1>3, <1>8, <1>9 DEF IsComplete
<1>11. /\ ex'[e].pc = "callback" /\ ex'[e].task = n /\ (ex'[e].complete <=> full)
       /\ ex'[e].seq = ex[e].seq /\ ex'[e].out = ex[e].out /\ ex'[e].left = ex[e].left
  <2> DEFINE t == ex[e]
             b == IsComplete(task)
             m == task.n
             u == [t EXCEPT !.pc = "callback", !.pal = NoNode, !.task = m, !.complete = b]
  <2>1. ex'[e] = u /\ t \in Threads
    BY <1>4, <1>6
  <2> HIDE DEF t, b, m
  <2>2. u.pc = "callback" /\ u.task = m /\ u.complete = b /\ u.seq = t.seq /\ u.out = t.out
        /\ u.left = t.left
    BY <2>1 DEF Threads
  <2> HIDE DEF u
  <2>3. (b <=> full) /\ m = n
    BY <1>3, <1>10 DEF b, m
  <2> HIDE DEF full, n
  <2> QED BY <2>1, <2>2, <2>3 DEF t
<1> HIDE DEF full
<1>12. mOngoingTasks' = IF full THEN RemoveAt(mOngoingTasks, i)
                        ELSE [mOngoingTasks EXCEPT ![i].returned = @ + 1]
  BY <1>6, <1>10
<1> QED BY <1>3, <1>6, <1>8, <1>9, <1>11, <1>12 DEF full

\* An executor at the end of a chain has no consumer.
LEMMA NoConsumer ==
  ASSUME NEW e \in Executors, IsOutputEdge(e), NEW f \in Executors, ~ IsInputEdge(f)
  PROVE  Producer(f) # e
<1> SUFFICES ASSUME Producer(f) = e PROVE FALSE
  OBVIOUS
<1>1. e[1] = f[1] /\ e[2] = f[2] - 1
  BY DEF Producer
<1>2. f[2] \in 1..Depth[f[1]] /\ f[1] \in Streams
  BY DEF Executors
<1>3. Depth[f[1]] \in Nat
  BY <1>2, DagAssumption
<1> QED BY <1>1, <1>2, <1>3 DEF IsOutputEdge

\* The buffers that an executor at the end of a chain counts are those of its ports only.
CountsOwn(e) == \A n \in DOMAIN tasks :
    counted'[n] = counted[n] \/ \E p \in OutPorts(e) : counted'[n] = counted[n] \cup {p}

\* A step of the last executor of a chain moves nothing but what it has in its hands.
LEMMA LastStep ==
  ASSUME TypeInv, NEW act, NEW c, DagInv(act, c), NEW e \in Executors, IsOutputEdge(e),
         tasks' = tasks, ad' = ad, dag' = dag, mInputQueue' = mInputQueue,
         mOutputQueue' = mOutputQueue, abandoned' = abandoned,
         \A f \in Executors : f # e => ex'[f] = ex[f],
         CountsOwn(e), HandsLine(act, c, e)', CountLine(act, c, e)'
  PROVE  TodoInv' /\ JoinInv' /\ Lines(act, c)' /\ CountLines(act, c)'
<1>1. OneStep(e)
  BY DEF OneStep
<1>2. \A f \in Executors : InUse(f)' <=> InUse(f)
  BY DEF InUse
<1>3. TodoInv' /\ JoinInv'
  BY DueKept, JoinKept DEF DagInv
<1>4. Lines(act, c) /\ CountLines(act, c) /\ ActiveTasks(act) /\ ActiveTasks(act)'
  BY DEF DagInv, Lines, ActiveTasks, getActiveStreamIds
<1>5. ASSUME NEW f \in Executors, InUse(f)
      PROVE  InputLine(act, c, f)' /\ OutputLine(act, c, f)' /\ HandsLine(act, c, f)'
             /\ CountLine(act, c, f)'
  <2>1. CASE f = e
    <3>1. InputLine(act, c, e) /\ OutputLine(act, c, e)
      BY <1>4, <1>5, <2>1 DEF Lines
    <3>2. ~ IsInputEdge(e) => Kept(Producer(e))' = Kept(Producer(e))
      BY Neighbours DEF Kept
    <3>3. /\ One(InputDue(e[1]))' = One(InputDue(e[1]))
          /\ \A p \in OutPorts(e) : One(OutputDue(e[1], p))' = One(OutputDue(e[1], p))
      BY DueKept
    <3>4. InputLine(act, c, e)'
      BY <3>1, <3>2, <3>3, InputKept
    <3>5. OutputLine(act, c, e)'
      BY <3>1, <3>3, OutputKept
    <3> QED BY <2>1, <3>4, <3>5
  <2>2. CASE f # e
    <3>1. ASSUME NEW n \in DOMAIN tasks
          PROVE  counted'[n] \cap OutPorts(f) = counted[n] \cap OutPorts(f)
      <4>1. OutPorts(e) \cap OutPorts(f) = {}
        BY <2>2, PortOwner
      <4> QED BY <4>1 DEF CountsOwn
    <3>2. Producer(f) # e \/ IsInputEdge(f)
      BY NoConsumer
    <3> QED BY <1>1, <1>4, <1>5, <2>2, <3>1, <3>2, OthersKept
  <2> QED BY <2>1, <2>2
<1>6. Lines(act, c)' /\ CountLines(act, c)'
  <2>1. act \in [Streams -> Seq(Nat)] /\ c \in [Executors -> Nat]
    BY <1>4 DEF Lines
  <2> QED BY <1>2, <1>4, <1>5, <2>1 DEF Lines, CountLines
<1> QED BY <1>3, <1>6

\* RemoveAt() keeps the other elements and their order.
LEMMA RemoveAtPlaces ==
  ASSUME NEW S, NEW s \in Seq(S), NEW i \in DOMAIN s
  PROVE  /\ \A k \in DOMAIN RemoveAt(s, i) :
              \E j \in DOMAIN s : j # i /\ RemoveAt(s, i)[k] = s[j]
         /\ \A j \in DOMAIN s : j # i => \E k \in DOMAIN RemoveAt(s, i) : RemoveAt(s, i)[k] = s[j]
         /\ \A k, l \in DOMAIN RemoveAt(s, i) : k < l =>
              \E j, m \in DOMAIN s : j < m /\ RemoveAt(s, i)[k] = s[j] /\ RemoveAt(s, i)[l] = s[m]
<1> DEFINE r == RemoveAt(s, i)
           Place(k) == IF k < i THEN k ELSE k + 1
<1>1. /\ r \in Seq(S) /\ Len(r) = Len(s) - 1
      /\ \A k \in 1..Len(s) - 1 : r[k] = IF k < i THEN s[k] ELSE s[k + 1]
  BY RemoveAtShifts
<1> HIDE DEF r
<1>2. Len(s) \in Nat /\ DOMAIN s = 1..Len(s) /\ DOMAIN r = 1..Len(s) - 1 /\ i \in 1..Len(s)
  BY <1>1
<1>3. ASSUME NEW k \in DOMAIN r
      PROVE  Place(k) \in DOMAIN s /\ Place(k) # i /\ r[k] = s[Place(k)]
  <2>1. k \in 1..Len(s) - 1 /\ k \in Nat
    BY <1>2
  <2>2. r[k] = s[Place(k)]
    BY <1>1, <2>1
  <2>3. Place(k) \in 1..Len(s) /\ Place(k) # i
    BY <1>2, <2>1
  <2> QED BY <1>2, <2>2, <2>3
<1>4. ASSUME NEW j \in DOMAIN s, j # i
      PROVE  \E k \in DOMAIN r : r[k] = s[j]
  <2> DEFINE k == IF j < i THEN j ELSE j - 1
  <2>1. k \in 1..Len(s) - 1 /\ Place(k) = j
    BY <1>2, <1>4
  <2> HIDE DEF k
  <2> QED BY <1>2, <1>3, <2>1
<1>5. ASSUME NEW k \in DOMAIN r, NEW l \in DOMAIN r, k < l
      PROVE  Place(k) < Place(l)
  BY <1>2, <1>5
<1> HIDE DEF Place
<1>6. \A k \in DOMAIN r : \E j \in DOMAIN s : j # i /\ r[k] = s[j]
  BY <1>3
<1>7. \A k, l \in DOMAIN r : k < l =>
        \E j, m \in DOMAIN s : j < m /\ r[k] = s[j] /\ r[l] = s[m]
  BY <1>3, <1>5
<1> QED BY <1>4, <1>6, <1>7 DEF r

\* The ports of a task are ports of the DAG.
LEMMA TaskPorts ==
  ASSUME TypeInv, NEW n \in DOMAIN tasks
  PROVE  tasks[n].ports \subseteq Ports
<1> DEFINE T == [ports : SUBSET Ports, seq : Sequences0]
<1>1. tasks \in Seq(T)
  BY DEF TypeInv, TaskInv, TaskType
<1> HIDE DEF T
<1>2. tasks[n] \in T
  BY <1>1
<1> QED BY <1>2 DEF T

\* A set of a sequence of sets gets one element more.
LEMMA PutInSet ==
  ASSUME NEW S, NEW s \in Seq(SUBSET S), NEW n \in DOMAIN s, NEW x \in S
  PROVE  /\ [s EXCEPT ![n] = @ \cup {x}] \in Seq(SUBSET S)
         /\ DOMAIN [s EXCEPT ![n] = @ \cup {x}] = DOMAIN s
<1>1. s[n] \cup {x} \in SUBSET S
  OBVIOUS
<1> DEFINE v == s[n] \cup {x}
<1>2. [s EXCEPT ![n] = v] \in Seq(SUBSET S)
  <2> HIDE DEF v
  <2> QED BY <1>1 DEF v
<1> QED BY <1>2

\* The ongoing tasks stay the ones with a buffer to come, in their order.
LEMMA CountsOngoing ==
  ASSUME TypeInv, OngoingInv, tasks' = tasks, called' = called, NEW i \in DOMAIN mOngoingTasks,
         NEW n \in DOMAIN tasks, NEW p, p \in tasks[n].ports, p \notin counted[n],
         mOngoingTasks[i].n = n,
         mOngoingTasks' = IF counted[n] \cup {p} = tasks[n].ports THEN RemoveAt(mOngoingTasks, i)
                          ELSE [mOngoingTasks EXCEPT ![i].returned = @ + 1],
         counted' = [counted EXCEPT ![n] = @ \cup {p}],
         mOngoingTasks[i].returned + 1 = Cardinality(counted[n] \cup {p})
  PROVE  OngoingInv'
<1> DEFINE T == [n : DOMAIN tasks, returned : Nat]
           s == mOngoingTasks
           s2 == mOngoingTasks'
           full == counted[n] \cup {p} = tasks[n].ports
<1>1. /\ DOMAIN counted' = DOMAIN tasks /\ DOMAIN called' = DOMAIN tasks
      /\ counted' \in Seq(SUBSET Ports) /\ called' \in Seq(SUBSET Ports)
  <2>1. /\ counted \in Seq(SUBSET Ports) /\ called \in Seq(SUBSET Ports)
        /\ DOMAIN counted = DOMAIN tasks /\ DOMAIN called = DOMAIN tasks
    BY DEF OngoingInv
  <2>2. p \in Ports
    BY TaskPorts
  <2> QED BY <2>1, <2>2, PutInSet
<1>2. /\ \A m \in DOMAIN tasks : m # n => counted'[m] = counted[m]
      /\ counted'[n] = counted[n] \cup {p}
  BY DEF OngoingInv
<1>3. /\ \A j, k \in DOMAIN s : j < k => s[j].n < s[k].n
      /\ \A j \in DOMAIN s : s[j].returned = Cardinality(counted[s[j].n])
      /\ \A m \in DOMAIN tasks : counted[m] # tasks[m].ports <=> \E j \in DOMAIN s : s[j].n = m
  BY DEF OngoingInv
<1>4. s \in Seq(T) /\ n \in Nat
  BY DEF TypeInv, TaskInv, TaskType
<1>5. \A j \in DOMAIN s : s[j].n \in DOMAIN tasks /\ j \in Nat /\ s[j] \in T
  <2>1. ASSUME NEW j \in DOMAIN s PROVE s[j] \in T /\ j \in Nat
    <3> HIDE DEF T
    <3> QED BY <1>4
  <2> QED BY <2>1
<1>6. \A j \in DOMAIN s : j # i => s[j].n # n
  <2>1. ASSUME NEW j \in DOMAIN s, j # i PROVE s[j].n # n
    <3>1. j < i \/ i < j
      BY <1>5, <2>1
    <3>2. s[j].n < n \/ n < s[j].n
      BY <1>3, <3>1
    <3> QED BY <1>4, <3>2
  <2> QED BY <2>1
\* Every ongoing task is another than n, or n itself while it has a buffer to come.
<1>7. CASE full
  <2>1. s2 = RemoveAt(s, i)
    BY <1>7
  <2>2. /\ \A k \in DOMAIN s2 : \E j \in DOMAIN s : j # i /\ s2[k] = s[j]
        /\ \A j \in DOMAIN s : j # i => \E k \in DOMAIN s2 : s2[k] = s[j]
        /\ \A k, l \in DOMAIN s2 : k < l =>
              \E j, m \in DOMAIN s : j < m /\ s2[k] = s[j] /\ s2[l] = s[m]
    <3> HIDE DEF s2, s, T
    <3>1. i \in DOMAIN s
      BY DEF s
    <3> QED BY <1>4, <2>1, <3>1, RemoveAtPlaces
  <2>3. ASSUME NEW k \in DOMAIN s2, NEW l \in DOMAIN s2, k < l PROVE s2[k].n < s2[l].n
    <3> HIDE DEF s2, s
    <3>1. PICK j \in DOMAIN s, m \in DOMAIN s : j < m /\ s2[k] = s[j] /\ s2[l] = s[m]
      BY <2>2, <2>3
    <3>2. s[j].n < s[m].n
      BY <1>3, <3>1
    <3> QED BY <3>1, <3>2
  <2>4. \A k \in DOMAIN s2 : s2[k].returned = Cardinality(counted'[s2[k].n])
    BY <1>2, <1>3, <1>5, <1>6, <2>2
  <2>5. ASSUME NEW m \in DOMAIN tasks
        PROVE  counted'[m] # tasks[m].ports <=> \E k \in DOMAIN s2 : s2[k].n = m
    <3>1. CASE m = n
      <4>1. ASSUME NEW k \in DOMAIN s2 PROVE s2[k].n # n
        <5> HIDE DEF s2, s
        <5>1. PICK j \in DOMAIN s : j # i /\ s2[k] = s[j]
          BY <2>2
        <5> QED BY <1>6, <5>1
      <4> QED BY <1>2, <1>7, <3>1, <4>1
    <3>2. CASE m # n
      BY <1>2, <1>3, <2>2, <3>2
    <3> QED BY <3>1, <3>2
  <2> QED BY <1>1, <1>2, <2>3, <2>4, <2>5 DEF OngoingInv
<1>8. CASE ~ full
  <2> DEFINE u == [s[i] EXCEPT !.returned = @ + 1]
  <2>1. s2 = [s EXCEPT ![i] = u]
    BY <1>8
  <2>2. u.n = n /\ u.returned = Cardinality(counted[n] \cup {p})
    BY <1>5
  <2> HIDE DEF u
  <2>3. /\ DOMAIN s2 = DOMAIN s /\ s2[i] = u
        /\ \A j \in DOMAIN s : j # i => s2[j] = s[j]
    BY <2>1
  <2>4. \A j \in DOMAIN s : s2[j].n = s[j].n
    BY <2>2, <2>3
  <2>5. \A k, l \in DOMAIN s2 : k < l => s2[k].n < s2[l].n
    BY <1>3, <2>3, <2>4
  <2>6. \A k \in DOMAIN s2 : s2[k].returned = Cardinality(counted'[s2[k].n])
    BY <1>2, <1>3, <1>5, <1>6, <2>2, <2>3
  <2>7. ASSUME NEW m \in DOMAIN tasks
        PROVE  counted'[m] # tasks[m].ports <=> \E k \in DOMAIN s2 : s2[k].n = m
    BY <1>2, <1>3, <1>8, <2>3, <2>4
  <2> QED BY <1>1, <1>2, <2>5, <2>6, <2>7 DEF OngoingInv
<1> QED BY <1>7, <1>8

\* An executor in the callbacks has counted the buffer it hands back.
LEMMA CallsTask ==
  ASSUME TypeInv, EndInv, NEW act, NEW c, DagInv(act, c), NEW e \in Executors, Calls(e)
  PROVE  LET n == ex[e].task
             p == CurrentPort(e)
         IN  /\ IsOutputEdge(e) /\ InUse(e) /\ Holds(e) /\ n = act[e[1]][c[e]]
             /\ c[e] \in DOMAIN act[e[1]] /\ n \in DOMAIN tasks /\ n \notin abandoned
             /\ ex[e].left \subseteq OutPorts(e) \cap tasks[n].ports
             /\ p \in ex[e].left /\ p \in OutPorts(e) /\ p \in tasks[n].ports /\ p \in counted[n]
             /\ counted[n] \cap OutPorts(e)
                  = ((OutPorts(e) \cap tasks[n].ports) \ ex[e].left) \cup {p}
<1> DEFINE n == ex[e].task
           p == CurrentPort(e)
<1>1. Holds(e) /\ ~ Ended(e)
  BY DEF Holds, HoldPoints, Calls, Ended
<1>2. InUse(e) /\ IsOutputEdge(e)
  BY <1>1, AtWork DEF DagInv, CallInv
<1>3. HandsLine(act, c, e) /\ CountLine(act, c, e) /\ Lines(act, c) /\ QueueType
  BY <1>2 DEF DagInv, Lines, CountLines, TypeInv
<1>4. n = act[e[1]][c[e]] /\ n \notin abandoned
      /\ counted[n] \cap OutPorts(e)
            = ((OutPorts(e) \cap tasks[n].ports) \ ex[e].left) \cup {p}
  BY <1>1, <1>2, <1>3 DEF CountLine
<1>5. c[e] \in DOMAIN act[e[1]] /\ n \in DOMAIN tasks
  BY <1>1, <1>2, <1>3, <1>4, HandsPlace
<1>6. ex[e].left \subseteq OutPorts(e) \cap tasks[n].ports /\ ex[e].left # {}
  BY <1>1, <1>2, <1>3, <1>4 DEF HandsLine
<1>7. p \in ex[e].left
  <2>1. ex[e].left \in SUBSET Nat
    BY <1>6, PortTypes
  <2> QED BY <1>6, <2>1, LeastIsIn DEF CurrentPort
<1> HIDE DEF n, p
<1>8. p \in OutPorts(e) /\ p \in tasks[n].ports /\ p \in counted[n]
  BY <1>4, <1>6, <1>7
<1> QED BY <1>1, <1>2, <1>4, <1>5, <1>6, <1>7, <1>8 DEF n, p

\* The ports that an executor at the end of a chain counts and calls for are its own.
LEMMA CallsPorts ==
  ASSUME TypeInv, EndInv, NEW act, NEW c, DagInv(act, c), NEW e \in Executors, Calls(e),
         NEW f \in Executors, f # e
  PROVE  CurrentPort(e) \notin OutPorts(f)
  BY CallsTask, PortOwner

\* onFrameDone keeps the invariant: what it counts is the next buffer of its port.
LEMMA FrameDoneKeeps ==
  ASSUME TypeInv, EndInv, NEW act, NEW c, DagInv(act, c), UsedOnce,
         NEW e \in Executors, onFrameDone(e)
  PROVE  DagInv(act, c)'
<1> DEFINE n == act[e[1]][c[e]]
           p == CurrentPort(e)
           full == counted[n] \cup {p} = tasks[n].ports
<1>1. AtFrameDone(e) /\ ex[e].pc \in {"run", "count"}
  BY DEF onFrameDone, AtFrameDone, ExAt
<1>2. /\ IsOutputEdge(e) /\ InUse(e) /\ Holds(e) /\ ~ Calls(e)
      /\ p \in ex[e].left /\ p \in OutPorts(e) /\ p \in tasks[n].ports
      /\ c[e] \in DOMAIN act[e[1]] /\ n \in DOMAIN tasks
      /\ p \notin counted[n] /\ n \notin abandoned
  BY <1>1, FoundTask
<1>3. /\ tasks' = tasks /\ ad' = ad /\ dag' = dag
      /\ mInputQueue' = mInputQueue /\ mOutputQueue' = mOutputQueue
      /\ called' = called /\ finished' = finished /\ abandoned' = abandoned
  BY DEF onFrameDone, queueVars
<1>4. \A f \in Executors : f # e => ex'[f] = ex[f]
  BY FrameDoneEffect
<1>5. PICK i \in DOMAIN mOngoingTasks :
               /\ mOngoingTasks[i].n = n
               /\ mOngoingTasks' = IF full THEN RemoveAt(mOngoingTasks, i)
                                   ELSE [mOngoingTasks EXCEPT ![i].returned = @ + 1]
               /\ counted' = [counted EXCEPT ![n] = @ \cup {p}]
               /\ counted[n] \subseteq tasks[n].ports
               /\ mOngoingTasks[i].returned + 1 = Cardinality(counted[n] \cup {p})
               /\ ex'[e].pc = "callback" /\ ex'[e].task = n /\ (ex'[e].complete <=> full)
               /\ ex'[e].seq = ex[e].seq /\ ex'[e].out = ex[e].out /\ ex'[e].left = ex[e].left
  BY FrameDoneFinds
<1>6. OngoingInv /\ CallInv /\ Lines(act, c) /\ CountLines(act, c)
  BY DEF DagInv
<1>7. CurrentPort(e)' = p
  BY <1>5 DEF CurrentPort
<1> HIDE DEF n, p
<1>8. /\ \A m \in DOMAIN tasks : m # n => counted'[m] = counted[m]
      /\ counted'[n] = counted[n] \cup {p} /\ DOMAIN counted = DOMAIN tasks
  BY <1>2, <1>5, <1>6 DEF OngoingInv
<1>9. OngoingInv'
  BY <1>2, <1>3, <1>5, <1>6, CountsOngoing
<1>10. Holds(e)' /\ Calls(e)' /\ ExAt(e, "callback")'
  BY <1>5 DEF Holds, HoldPoints, Calls, ExAt
<1>11. HandsLine(act, c, e)'
  <2>1. HandsLine(act, c, e)
    BY <1>2, <1>6 DEF Lines
  <2> QED BY <1>2, <1>3, <1>5, <2>1 DEF HandsLine, BufferOf
<1>12. CountLine(act, c, e)'
  <2>1. CountLine(act, c, e) /\ ActiveTasks(act) /\ e[1] \in Streams
    BY <1>2, <1>6, Neighbours DEF CountLines, Lines
  <2>2. \A k \in DOMAIN act[e[1]] : act[e[1]][k] \in DOMAIN tasks
    BY <2>1 DEF ActiveTasks
  <2>3. ASSUME NEW k \in DOMAIN act[e[1]], k > c[e]
        PROVE  act[e[1]][k] \notin abandoned /\ counted'[act[e[1]][k]] \cap OutPorts(e) = {}
    <3>1. n < act[e[1]][k]
      <4>1. c[e] < k
        <5>1. act[e[1]] \in Seq(Nat)
          BY <1>6, <2>1 DEF Lines
        <5> QED BY <1>2, <2>3, <5>1
      <4> QED BY <1>2, <2>1, <4>1 DEF ActiveTasks, n
    <3>2. n # act[e[1]][k]
      <4>1. tasks \in Seq([ports : SUBSET Ports, seq : Sequences0])
        BY DEF TypeInv, TaskInv, TaskType
      <4>2. n \in Nat
        BY <1>2, <4>1
      <4> QED BY <3>1, <4>2
    <3>3. counted'[act[e[1]][k]] = counted[act[e[1]][k]]
      BY <1>8, <2>2, <3>2
    <3> QED BY <1>2, <2>1, <2>3, <3>3 DEF CountLine
  <2>4. ASSUME NEW k \in DOMAIN act[e[1]], k < c[e]
        PROVE  \/ act[e[1]][k] \in abandoned
               \/ OutPorts(e) \cap tasks[act[e[1]][k]].ports \subseteq counted'[act[e[1]][k]]
    <3>1. \/ act[e[1]][k] \in abandoned
          \/ OutPorts(e) \cap tasks[act[e[1]][k]].ports \subseteq counted[act[e[1]][k]]
      BY <1>2, <2>1, <2>4 DEF CountLine
    <3>2. counted[act[e[1]][k]] \subseteq counted'[act[e[1]][k]]
      BY <1>8, <2>2
    <3> QED BY <3>1, <3>2
  <2>5. counted'[n] \cap OutPorts(e) = ((OutPorts(e) \cap tasks[n].ports) \ ex[e].left) \cup {p}
    <3>1. counted[n] \cap OutPorts(e) = (OutPorts(e) \cap tasks[n].ports) \ ex[e].left
      BY <1>2, <2>1 DEF CountLine, n
    <3> QED BY <1>2, <1>8, <3>1
  <2>6. act[e[1]][c[e]] = n
    BY DEF n
  <2> QED BY <1>2, <1>3, <1>5, <1>7, <1>10, <2>3, <2>4, <2>5, <2>6 DEF CountLine
<1>13. TodoInv' /\ JoinInv' /\ Lines(act, c)' /\ CountLines(act, c)'
  <2>1. CountsOwn(e)
    BY <1>2, <1>8 DEF CountsOwn
  <2> QED BY <1>2, <1>3, <1>4, <1>11, <1>12, <2>1, LastStep
<1>14. CallInv'
  <2>1. \A f \in Executors : f # e =>
          /\ ex'[f] = ex[f] /\ (Calls(f)' <=> Calls(f)) /\ CurrentPort(f)' = CurrentPort(f)
          /\ ExAt(f, "callback")' <=> ExAt(f, "callback")
    BY <1>4 DEF Calls, CurrentPort, ExAt
  <2>2. counted[n] # tasks[n].ports /\ n \notin finished
    BY <1>2, <1>6 DEF CallInv
  <2>3. \A f \in Executors : f # e /\ Calls(f) /\ ex[f].complete =>
          ex[f].task \in DOMAIN tasks /\ ex[f].task # n
    BY <1>6, <2>2, CallsTask DEF CallInv
  <2>4. ASSUME NEW f \in Executors, Calls(f)'
        PROVE  /\ IsOutputEdge(f)
               /\ ex'[f].complete => counted'[ex'[f].task] = tasks'[ex'[f].task].ports
                                     /\ ex'[f].task \notin finished'
               /\ ex'[f].pc = "callback" => CurrentPort(f)' \notin called'[ex'[f].task]
               /\ ex'[f].pc = "task" => ex'[f].complete /\ CurrentPort(f)' \in called'[ex'[f].task]
    <3>1. CASE f = e
      <4>1. p \notin called[n]
        BY <1>2, <1>6 DEF OngoingInv
      <4> QED BY <1>2, <1>3, <1>5, <1>7, <1>8, <2>2, <3>1, <4>1
    <3>2. CASE f # e
      BY <1>3, <1>6, <1>8, <2>1, <2>3, <2>4, <3>2 DEF CallInv
    <3> QED BY <3>1, <3>2
  <2>5. ASSUME NEW f \in Executors, NEW g \in Executors, Calls(f)', Calls(g)', ex'[f].complete,
               ex'[g].complete, f # g
        PROVE  ex'[f].task # ex'[g].task
    <3>1. CASE f = e
      BY <1>5, <2>1, <2>3, <2>5, <3>1
    <3>2. CASE g = e
      BY <1>5, <2>1, <2>3, <2>5, <3>2
    <3>3. CASE f # e /\ g # e
      BY <1>6, <2>1, <2>5, <3>3 DEF CallInv
    <3> QED BY <3>1, <3>2, <3>3
  <2>6. ASSUME NEW m \in DOMAIN tasks, NEW q \in counted'[m] \ called'[m]
        PROVE  \E f \in Executors : ExAt(f, "callback")' /\ ex'[f].task = m /\ CurrentPort(f)' = q
    <3>1. CASE m = n /\ q = p
      BY <1>5, <1>7, <1>10, <3>1
    <3>2. CASE ~ (m = n /\ q = p)
      <4>1. q \in counted[m] \ called[m]
        BY <1>3, <1>8, <2>6, <3>2
      <4>2. PICK f \in Executors : ExAt(f, "callback") /\ ex[f].task = m /\ CurrentPort(f) = q
        BY <1>6, <4>1 DEF CallInv
      <4>3. f # e
        BY <1>2, <4>2 DEF ExAt, Calls
      <4> QED BY <2>1, <4>2, <4>3
    <3> QED BY <3>1, <3>2
  <2>7. \A m \in finished : counted'[m] = tasks[m].ports
    BY <1>6, <1>8, <2>2 DEF CallInv
  <2>8. /\ finished \subseteq DOMAIN tasks /\ abandoned \subseteq DOMAIN tasks
        /\ dag.state = "stopped" => abandoned = DOMAIN tasks \ finished
    BY <1>6 DEF CallInv
  <2> QED BY <1>3, <2>4, <2>5, <2>6, <2>7, <2>8 DEF CallInv
<1> QED BY <1>9, <1>13, <1>14 DEF DagInv

\* After a port an executor takes the next one with its frame, or is through with it.
LEMMA NextHands ==
  ASSUME ex \in [Executors -> Threads], NEW e \in Executors, ex' = [ex EXCEPT ![e] = NextPort(e)]
  PROVE  /\ ex[e].left = {CurrentPort(e)} => ex'[e].pc \in {"loop", "return"}
         /\ ex[e].left # {CurrentPort(e)} =>
              /\ ex'[e].pc = "count" /\ ex'[e].left = ex[e].left \ {CurrentPort(e)}
              /\ ex'[e].seq = ex[e].seq /\ ex'[e].out = ex[e].out
         /\ \A f \in Executors : f # e => ex'[f] = ex[f]
<1>1. ex'[e] = NextPort(e) /\ \A f \in Executors : f # e => ex'[f] = ex[f]
  OBVIOUS
<1>2. CASE ex[e].left = {CurrentPort(e)}
  <2>1. ex'[e] = AfterNotify(e)
    BY <1>1, <1>2 DEF NextPort
  <2> QED BY <1>1, <1>2, <2>1, AfterNotifyType
<1>3. CASE ex[e].left # {CurrentPort(e)}
  <2> DEFINE t == ex[e]
             p == CurrentPort(e)
             u == [t EXCEPT !.pc = "count", !.left = @ \ {p}, !.task = 0, !.complete = FALSE,
                            !.pal = NoNode]
  <2>1. ex'[e] = u /\ t \in Threads
    BY <1>1, <1>3 DEF NextPort
  <2> HIDE DEF t, p
  <2>2. u.pc = "count" /\ u.left = t.left \ {p} /\ u.seq = t.seq /\ u.out = t.out
    BY <2>1 DEF Threads
  <2> HIDE DEF u
  <2>3. /\ ex'[e].pc = "count" /\ ex'[e].left = ex[e].left \ {CurrentPort(e)}
        /\ ex'[e].seq = ex[e].seq /\ ex'[e].out = ex[e].out
    BY <2>1, <2>2 DEF t, p
  <2> QED BY <1>1, <1>3, <2>3
<1> QED BY <1>2, <1>3

\* Its lines stay.
LEMMA PortDone ==
  ASSUME TypeInv, EndInv, NEW act, NEW c, DagInv(act, c), NEW e \in Executors, Calls(e),
         ex' = [ex EXCEPT ![e] = NextPort(e)],
         tasks' = tasks, counted' = counted, abandoned' = abandoned
  PROVE  ~ Calls(e)' /\ HandsLine(act, c, e)' /\ CountLine(act, c, e)'
<1> DEFINE n == ex[e].task
           p == CurrentPort(e)
<1>1. /\ IsOutputEdge(e) /\ InUse(e) /\ Holds(e) /\ n = act[e[1]][c[e]]
      /\ c[e] \in DOMAIN act[e[1]] /\ n \in DOMAIN tasks /\ n \notin abandoned
      /\ ex[e].left \subseteq OutPorts(e) \cap tasks[n].ports
      /\ p \in ex[e].left /\ p \in OutPorts(e) /\ p \in tasks[n].ports /\ p \in counted[n]
      /\ counted[n] \cap OutPorts(e)
           = ((OutPorts(e) \cap tasks[n].ports) \ ex[e].left) \cup {p}
  BY CallsTask
<1>2. ex \in [Executors -> Threads] /\ HandsLine(act, c, e) /\ CountLine(act, c, e)
  BY <1>1 DEF TypeInv, DagInv, Lines, CountLines
<1>3. /\ ex[e].left = {p} => ex'[e].pc \in {"loop", "return"}
      /\ ex[e].left # {p} =>
           /\ ex'[e].pc = "count" /\ ex'[e].left = ex[e].left \ {p}
           /\ ex'[e].seq = ex[e].seq /\ ex'[e].out = ex[e].out
  BY <1>2, NextHands
<1> HIDE DEF n, p
<1>4. CASE ex[e].left = {p}
  <2>1. ~ Holds(e)' /\ ~ ExAt(e, "dead")' /\ ~ Calls(e)'
    BY <1>3, <1>4 DEF Holds, HoldPoints, ExAt, Calls
  <2>2. HandsLine(act, c, e)'
    BY <2>1 DEF HandsLine
  <2>3. OutPorts(e) \cap tasks[n].ports \subseteq counted[n]
    BY <1>1, <1>4
  <2>4. ASSUME NEW k \in DOMAIN act[e[1]], k < c[e] \/ k = c[e]
        PROVE  \/ act[e[1]][k] \in abandoned
               \/ OutPorts(e) \cap tasks[act[e[1]][k]].ports \subseteq counted[act[e[1]][k]]
    BY <1>1, <1>2, <2>3, <2>4 DEF CountLine
  <2>5. CountLine(act, c, e)'
    BY <1>1, <1>2, <2>1, <2>4 DEF CountLine
  <2> QED BY <2>1, <2>2, <2>5
<1>5. CASE ex[e].left # {p}
  <2>1. Holds(e)' /\ ~ Calls(e)'
    BY <1>3, <1>5 DEF Holds, HoldPoints, Calls
  <2>2. HandsLine(act, c, e)'
    <3>1. ex'[e].left # {} /\ ex'[e].left \subseteq OutPorts(e) \cap tasks[n].ports
      BY <1>1, <1>3, <1>5
    <3> QED BY <1>1, <1>2, <1>3, <1>5, <3>1 DEF HandsLine, BufferOf
  <2>3. counted[n] \cap OutPorts(e) = (OutPorts(e) \cap tasks[n].ports) \ ex'[e].left
    BY <1>1, <1>3, <1>5
  <2>4. \A k \in DOMAIN act[e[1]] : k < c[e] =>
          \/ act[e[1]][k] \in abandoned
          \/ OutPorts(e) \cap tasks[act[e[1]][k]].ports \subseteq counted[act[e[1]][k]]
    BY <1>1, <1>2 DEF CountLine
  <2>5. \A k \in DOMAIN act[e[1]] : k > c[e] =>
          act[e[1]][k] \notin abandoned /\ counted[act[e[1]][k]] \cap OutPorts(e) = {}
    BY <1>1, <1>2 DEF CountLine
  <2>6. CountLine(act, c, e)'
    BY <1>1, <2>1, <2>3, <2>4, <2>5 DEF CountLine
  <2> QED BY <2>1, <2>2, <2>6
<1> QED BY <1>4, <1>5

\* onBufferDone gets each buffer once, after it is counted.
LEMMA BufferDoneKeeps ==
  ASSUME TypeInv, EndInv, NEW act, NEW c, DagInv(act, c), NEW e \in Executors, BufferDone(e)
  PROVE  DagInv(act, c)'
<1> DEFINE n == ex[e].task
           p == CurrentPort(e)
<1>1. ExAt(e, "callback") /\ Calls(e)
  BY DEF BufferDone, ExAt, Calls
<1>2. /\ IsOutputEdge(e) /\ InUse(e) /\ Holds(e) /\ n \in DOMAIN tasks
      /\ p \in OutPorts(e) /\ p \in tasks[n].ports /\ p \in counted[n]
  BY <1>1, CallsTask
<1>3. /\ tasks' = tasks /\ mOngoingTasks' = mOngoingTasks /\ ad' = ad /\ dag' = dag
      /\ mInputQueue' = mInputQueue /\ mOutputQueue' = mOutputQueue
      /\ counted' = counted /\ finished' = finished /\ abandoned' = abandoned
      /\ called' = [called EXCEPT ![n] = @ \cup {p}]
  BY DEF BufferDone, taskVars, queueVars
<1>4. \A f \in Executors : f # e => ex'[f] = ex[f]
  BY CallbackEffect
<1>5. OngoingInv /\ CallInv /\ ex \in [Executors -> Threads]
  BY DEF DagInv, TypeInv
<1> HIDE DEF n, p
<1>6. /\ \A m \in DOMAIN tasks : m # n => called'[m] = called[m]
      /\ called'[n] = called[n] \cup {p}
  BY <1>2, <1>3, <1>5 DEF OngoingInv
<1>7. OngoingInv'
  <2>1. DOMAIN called' = DOMAIN tasks /\ called' \in Seq(SUBSET Ports)
    <3>1. called \in Seq(SUBSET Ports) /\ DOMAIN called = DOMAIN tasks
      BY <1>5 DEF OngoingInv
    <3>2. p \in Ports
      BY <1>2, PortTypes
    <3> QED BY <1>2, <1>3, <3>1, <3>2, PutInSet
  <2>2. \A m \in DOMAIN tasks : called'[m] \subseteq counted[m]
    BY <1>2, <1>5, <1>6 DEF OngoingInv
  <2> QED BY <1>3, <1>5, <2>1, <2>2 DEF OngoingInv
<1>8. \/ /\ ex[e].complete
         /\ ex'[e].pc = "task" /\ ex'[e].seq = ex[e].seq /\ ex'[e].out = ex[e].out
         /\ ex'[e].left = ex[e].left /\ ex'[e].task = ex[e].task
         /\ ex'[e].complete = ex[e].complete
      \/ ~ ex[e].complete /\ ex' = [ex EXCEPT ![e] = NextPort(e)]
  <2>1. CASE ex[e].complete
    <3>1. ExGoto(e, "task")
      BY <2>1 DEF BufferDone
    <3> QED BY <1>5, <2>1, <3>1, GotoHands
  <2>2. CASE ~ ex[e].complete
    BY <2>2 DEF BufferDone
  <2> QED BY <2>1, <2>2
<1>9. /\ ex[e].complete => Holds(e)' /\ Calls(e)' /\ CurrentPort(e)' = p
      /\ HandsLine(act, c, e)' /\ CountLine(act, c, e)'
      /\ ~ ex[e].complete => ~ Calls(e)'
  <2>1. CASE ex[e].complete
    <3>1. Holds(e)' /\ Calls(e)' /\ CurrentPort(e)' = p
      BY <1>8, <2>1 DEF Holds, HoldPoints, Calls, CurrentPort, p
    <3>2. HandsLine(act, c, e) /\ CountLine(act, c, e)
      BY <1>2 DEF DagInv, Lines, CountLines
    <3>3. HandsLine(act, c, e)'
      BY <1>2, <1>3, <1>8, <2>1, <3>2 DEF HandsLine, BufferOf
    <3>4. CountLine(act, c, e)'
      <4>1. \A k \in DOMAIN act[e[1]] : k > c[e] =>
              act[e[1]][k] \notin abandoned /\ counted[act[e[1]][k]] \cap OutPorts(e) = {}
        BY <1>2, <3>2 DEF CountLine
      <4>2. \A k \in DOMAIN act[e[1]] : k < c[e] =>
              \/ act[e[1]][k] \in abandoned
              \/ OutPorts(e) \cap tasks[act[e[1]][k]].ports \subseteq counted[act[e[1]][k]]
        BY <1>2, <3>2 DEF CountLine
      <4>3. LET m == act[e[1]][c[e]]
            IN  /\ m \notin abandoned /\ ex[e].task = m
                /\ counted[m] \cap OutPorts(e)
                     = ((OutPorts(e) \cap tasks[m].ports) \ ex[e].left) \cup {p}
        BY <1>1, <1>2, <3>2 DEF CountLine, p
      <4> QED BY <1>2, <1>3, <1>8, <2>1, <3>1, <4>1, <4>2, <4>3 DEF CountLine
    <3> QED BY <2>1, <3>1, <3>3, <3>4
  <2>2. CASE ~ ex[e].complete
    BY <1>1, <1>3, <1>8, <2>2, PortDone
  <2> QED BY <2>1, <2>2
<1>10. TodoInv' /\ JoinInv' /\ Lines(act, c)' /\ CountLines(act, c)'
  <2>1. CountsOwn(e)
    BY <1>3 DEF CountsOwn
  <2> QED BY <1>2, <1>3, <1>4, <1>9, <2>1, LastStep
<1>11. CallInv'
  <2>1. \A f \in Executors : f # e =>
          /\ ex'[f] = ex[f] /\ (Calls(f)' <=> Calls(f)) /\ CurrentPort(f)' = CurrentPort(f)
          /\ ExAt(f, "callback")' <=> ExAt(f, "callback")
    BY <1>4 DEF Calls, CurrentPort, ExAt
  <2>2. \A f \in Executors : f # e /\ Calls(f) =>
          CurrentPort(f) # p /\ ex[f].task \in DOMAIN tasks
    BY <1>2, CallsTask, CallsPorts
  <2>3. ASSUME NEW f \in Executors, Calls(f)'
        PROVE  /\ IsOutputEdge(f)
               /\ ex'[f].complete => counted'[ex'[f].task] = tasks'[ex'[f].task].ports
                                     /\ ex'[f].task \notin finished'
               /\ ex'[f].pc = "callback" => CurrentPort(f)' \notin called'[ex'[f].task]
               /\ ex'[f].pc = "task" => ex'[f].complete /\ CurrentPort(f)' \in called'[ex'[f].task]
    <3>1. CASE f = e
      <4>1. ex[e].complete /\ ex'[e].complete /\ ex'[e].task = n /\ ex'[e].pc = "task"
            /\ CurrentPort(e)' = p
        BY <1>8, <1>9, <2>3, <3>1 DEF n
      <4>2. counted[n] = tasks[n].ports /\ n \notin finished
        BY <1>1, <1>5, <4>1 DEF CallInv, n
      <4> QED BY <1>2, <1>3, <1>6, <3>1, <4>1, <4>2
    <3>2. CASE f # e
      <4>1. Calls(f) /\ ex'[f] = ex[f] /\ CurrentPort(f)' = CurrentPort(f) /\ CurrentPort(f) # p
            /\ ex[f].task \in DOMAIN tasks
        BY <2>1, <2>2, <2>3, <3>2
      <4>2. /\ IsOutputEdge(f)
            /\ ex[f].complete => counted[ex[f].task] = tasks[ex[f].task].ports
                                 /\ ex[f].task \notin finished
            /\ ex[f].pc = "callback" => CurrentPort(f) \notin called[ex[f].task]
            /\ ex[f].pc = "task" => ex[f].complete /\ CurrentPort(f) \in called[ex[f].task]
        BY <1>5, <4>1 DEF CallInv
      <4>3. CurrentPort(f) \in called'[ex[f].task] <=> CurrentPort(f) \in called[ex[f].task]
        BY <1>6, <4>1
      <4> QED BY <1>3, <4>1, <4>2, <4>3
    <3> QED BY <3>1, <3>2
  <2>4. ASSUME NEW f \in Executors, NEW g \in Executors, Calls(f)', Calls(g)', ex'[f].complete,
               ex'[g].complete, f # g
        PROVE  ex'[f].task # ex'[g].task
    <3>1. ASSUME NEW h \in Executors, Calls(h)', ex'[h].complete
          PROVE  Calls(h) /\ ex[h].complete /\ ex'[h].task = ex[h].task
      BY <1>1, <1>8, <1>9, <2>1, <3>1
    <3> QED BY <1>5, <2>4, <3>1 DEF CallInv
  <2>5. ASSUME NEW m \in DOMAIN tasks, NEW q \in counted'[m] \ called'[m]
        PROVE  \E f \in Executors : ExAt(f, "callback")' /\ ex'[f].task = m /\ CurrentPort(f)' = q
    <3>1. ~ (m = n /\ q = p)
      BY <1>6, <2>5
    <3>2. q \in counted[m] \ called[m]
      BY <1>3, <1>6, <2>5
    <3>3. PICK f \in Executors : ExAt(f, "callback") /\ ex[f].task = m /\ CurrentPort(f) = q
      BY <1>5, <3>2 DEF CallInv
    <3>4. f # e
      BY <3>1, <3>3 DEF n, p
    <3> QED BY <2>1, <3>3, <3>4
  <2>6. /\ finished \subseteq DOMAIN tasks /\ abandoned \subseteq DOMAIN tasks
        /\ \A m \in finished : counted[m] = tasks[m].ports
        /\ dag.state = "stopped" => abandoned = DOMAIN tasks \ finished
    BY <1>5 DEF CallInv
  <2> QED BY <1>3, <2>3, <2>4, <2>5, <2>6 DEF CallInv
<1> QED BY <1>7, <1>10, <1>11 DEF DagInv

\* The task is handed back once, by the executor that counted its last buffer.
LEMMA ReturnBuffersKeeps ==
  ASSUME TypeInv, EndInv, NEW act, NEW c, DagInv(act, c), NEW e \in Executors, returnBuffers(e)
  PROVE  DagInv(act, c)'
<1> DEFINE n == ex[e].task
<1>1. ExAt(e, "task") /\ Calls(e) /\ ex[e].pc = "task"
  BY DEF returnBuffers, ExAt, Calls
<1>2. IsOutputEdge(e) /\ InUse(e) /\ n \in DOMAIN tasks
  BY <1>1, CallsTask
<1>3. /\ tasks' = tasks /\ mOngoingTasks' = mOngoingTasks /\ ad' = ad /\ dag' = dag
      /\ mInputQueue' = mInputQueue /\ mOutputQueue' = mOutputQueue
      /\ counted' = counted /\ called' = called /\ abandoned' = abandoned
      /\ finished' = finished \cup {n} /\ ex' = [ex EXCEPT ![e] = NextPort(e)]
  BY DEF returnBuffers, taskVars, queueVars
<1>4. \A f \in Executors : f # e => ex'[f] = ex[f]
  BY CallbackEffect
<1>5. OngoingInv /\ CallInv
  BY DEF DagInv
<1>6. ex[e].complete /\ counted[n] = tasks[n].ports
  BY <1>1, <1>5 DEF CallInv
<1>7. ~ Calls(e)' /\ HandsLine(act, c, e)' /\ CountLine(act, c, e)'
  BY <1>1, <1>3, PortDone
<1>8. TodoInv' /\ JoinInv' /\ Lines(act, c)' /\ CountLines(act, c)'
  <2>1. CountsOwn(e)
    BY <1>3 DEF CountsOwn
  <2> QED BY <1>2, <1>3, <1>4, <1>7, <2>1, LastStep
<1>9. OngoingInv'
  BY <1>3, <1>5, OngoingKept
<1>10. CallInv'
  <2>1. \A f \in Executors : f # e =>
          /\ ex'[f] = ex[f] /\ (Calls(f)' <=> Calls(f)) /\ CurrentPort(f)' = CurrentPort(f)
          /\ ExAt(f, "callback")' <=> ExAt(f, "callback")
    BY <1>4 DEF Calls, CurrentPort, ExAt
  <2>2. ASSUME NEW f \in Executors, Calls(f)'
        PROVE  f # e /\ Calls(f) /\ ex'[f] = ex[f] /\ CurrentPort(f)' = CurrentPort(f)
               /\ (ex[f].complete => ex[f].task # n)
    <3>1. f # e
      BY <1>7, <2>2
    <3> QED BY <1>1, <1>5, <1>6, <2>1, <2>2, <3>1 DEF CallInv
  <2>3. ASSUME NEW f \in Executors, Calls(f)'
        PROVE  /\ IsOutputEdge(f)
               /\ ex'[f].complete => counted'[ex'[f].task] = tasks'[ex'[f].task].ports
                                     /\ ex'[f].task \notin finished'
               /\ ex'[f].pc = "callback" => CurrentPort(f)' \notin called'[ex'[f].task]
               /\ ex'[f].pc = "task" => ex'[f].complete /\ CurrentPort(f)' \in called'[ex'[f].task]
    <3>1. /\ IsOutputEdge(f)
          /\ ex[f].complete => counted[ex[f].task] = tasks[ex[f].task].ports
                               /\ ex[f].task \notin finished
          /\ ex[f].pc = "callback" => CurrentPort(f) \notin called[ex[f].task]
          /\ ex[f].pc = "task" => ex[f].complete /\ CurrentPort(f) \in called[ex[f].task]
      BY <1>5, <2>2, <2>3 DEF CallInv
    <3> QED BY <1>3, <2>2, <2>3, <3>1
  <2>4. ASSUME NEW f \in Executors, NEW g \in Executors, Calls(f)', Calls(g)', ex'[f].complete,
               ex'[g].complete, f # g
        PROVE  ex'[f].task # ex'[g].task
    BY <1>5, <2>2, <2>4 DEF CallInv
  <2>5. ASSUME NEW m \in DOMAIN tasks, NEW q \in counted'[m] \ called'[m]
        PROVE  \E f \in Executors : ExAt(f, "callback")' /\ ex'[f].task = m /\ CurrentPort(f)' = q
    <3>1. PICK f \in Executors : ExAt(f, "callback") /\ ex[f].task = m /\ CurrentPort(f) = q
      BY <1>3, <1>5, <2>5 DEF CallInv
    <3>2. f # e
      BY <1>1, <3>1 DEF ExAt
    <3> QED BY <2>1, <3>1, <3>2
  <2>6. /\ finished' \subseteq DOMAIN tasks /\ abandoned \subseteq DOMAIN tasks
        /\ \A m \in finished' : counted[m] = tasks[m].ports
        /\ dag.state # "stopped"
    BY <1>2, <1>3, <1>5, <1>6 DEF CallInv, InUse
  <2> QED BY <1>3, <2>3, <2>4, <2>5, <2>6 DEF CallInv
<1> QED BY <1>8, <1>9, <1>10 DEF DagInv

-----------------------------------------------------------------------------
(* The steps of addTask.                                                   *)

\* The newest task is the last one of each stream that it is active on.
LEMMA NewestIsLast ==
  ASSUME TaskInv, tasks # <<>>, NEW act, act \in [Streams -> Seq(Nat)], ActiveTasks(act),
         NEW s \in Streams, s \in getActiveStreamIds(Newest)
  PROVE  Len(act[s]) \in DOMAIN act[s] /\ act[s][Len(act[s])] = Newest
<1> DEFINE a == act[s]
<1>1. a \in Seq(Nat) /\ Len(a) \in Nat /\ DOMAIN a = 1..Len(a)
  OBVIOUS
<1>2. Newest \in DOMAIN tasks
  BY NewestType
<1>3. PICK k \in DOMAIN a : a[k] = Newest
  BY <1>2 DEF ActiveTasks
<1>4. /\ \A i, j \in DOMAIN a : i < j => a[i] < a[j]
      /\ \A j \in DOMAIN a : a[j] \in DOMAIN tasks
  BY DEF ActiveTasks
<1>5. DOMAIN tasks = 1..Newest /\ Newest \in Nat
  <2>1. tasks \in Seq([ports : SUBSET Ports, seq : Sequences0])
    BY DEF TaskInv, TaskType
  <2> QED BY <2>1 DEF Newest
<1> HIDE DEF a
<1>6. Len(a) \in DOMAIN a
  BY <1>1, <1>3
<1>7. ASSUME k < Len(a) PROVE FALSE
  <2>1. a[k] < a[Len(a)] /\ a[Len(a)] \in 1..Newest
    BY <1>3, <1>4, <1>5, <1>6, <1>7
  <2> QED BY <1>3, <1>5, <2>1
<1>8. k = Len(a)
  BY <1>1, <1>3, <1>7
<1> QED BY <1>3, <1>6, <1>8 DEF a

\* A step of the adding thread that queues nothing
LEMMA DueStep ==
  ASSUME TypeInv, NEW act, NEW c, DagInv(act, c), ex' = ex, dag' = dag, tasks' = tasks,
         mOngoingTasks' = mOngoingTasks, pipeVars' = pipeVars,
         mInputQueue' = mInputQueue, mOutputQueue' = mOutputQueue, TodoInv',
         \A s \in Streams : InputDue(s)' <=> InputDue(s),
         \A s \in Streams : \A p \in PortsOf[s] : OutputDue(s, p)' <=> OutputDue(s, p)
  PROVE  DagInv(act, c)'
<1>1. /\ counted' = counted /\ called' = called /\ finished' = finished /\ abandoned' = abandoned
      /\ \A e \in Executors : SameHands(e) /\ (InUse(e)' <=> InUse(e))
  BY DEF pipeVars, SameHands, InUse
<1>2. JoinInv' /\ OngoingInv' /\ CallInv'
  BY <1>1, JoinKept, OngoingKept, CallsKept DEF DagInv
<1>3. Lines(act, c) /\ CountLines(act, c) /\ ActiveTasks(act) /\ ActiveTasks(act)' /\ QueueType
  BY DEF DagInv, Lines, ActiveTasks, getActiveStreamIds, TypeInv
<1>4. ASSUME NEW e \in Executors, InUse(e)
      PROVE  InputLine(act, c, e)' /\ OutputLine(act, c, e)' /\ HandsLine(act, c, e)'
             /\ CountLine(act, c, e)'
  <2>1. InputLine(act, c, e) /\ OutputLine(act, c, e) /\ HandsLine(act, c, e) /\ CountLine(act, c, e)
    BY <1>3, <1>4 DEF Lines, CountLines
  <2>2. e[1] \in Streams /\ \A p \in OutPorts(e) : p \in PortsOf[e[1]]
    BY Neighbours DEF OutPorts
  <2>3. /\ One(InputDue(e[1]))' = One(InputDue(e[1]))
        /\ \A p \in OutPorts(e) : One(OutputDue(e[1], p))' = One(OutputDue(e[1], p))
    BY <2>2 DEF One
  <2>4. \A f \in Executors : Kept(f)' = Kept(f)
    BY DEF Kept
  <2>5. InputLine(act, c, e)'
    BY <2>1, <2>3, <2>4, Neighbours, InputKept
  <2>6. OutputLine(act, c, e)'
    BY <2>1, <2>3, OutputKept
  <2>7. HandsLine(act, c, e)'
    BY <1>1, <2>1, HandsKept
  <2>8. CountLine(act, c, e)'
    BY <1>1, <1>3, <1>4, <2>1, <2>2, HandsPlace, CountsKept
  <2> QED BY <2>5, <2>6, <2>7, <2>8
<1>5. Lines(act, c)' /\ CountLines(act, c)'
  <2>1. act \in [Streams -> Seq(Nat)] /\ c \in [Executors -> Nat]
    BY <1>3 DEF Lines
  <2> QED BY <1>1, <1>3, <1>4, <2>1 DEF Lines, CountLines
<1> QED BY <1>2, <1>5 DEF DagInv

\* prepareIpuParams queues nothing.
LEMMA AdaptKeeps ==
  ASSUME TypeInv, NEW act, NEW c, DagInv(act, c), NEW s \in Streams,
         PalDone(s) \/ runIspAdapt(s) \/ PalWritten(s)
  PROVE  DagInv(act, c)'
<1>1. /\ ex' = ex /\ dag' = dag /\ tasks' = tasks /\ mOngoingTasks' = mOngoingTasks
      /\ pipeVars' = pipeVars /\ mInputQueue' = mInputQueue /\ mOutputQueue' = mOutputQueue
  BY DEF PalDone, runIspAdapt, PalWritten, taskVars, queueVars
<1>2. ad \in Adders /\ TodoInv /\ ad.pc \in {"adapt", "write"}
  BY DEF TypeInv, AdderInv, DagInv, PalDone, runIspAdapt, PalWritten, Adapting
<1> DEFINE active == getActiveStreamIds(Newest)
<1>3. active' = active
  BY <1>1 DEF getActiveStreamIds, Newest
<1>4. ad.todo # {} /\ ad.todo \subseteq active
  BY <1>2 DEF TodoInv
<1>5. /\ ad'.todo # {} /\ ad'.todo \subseteq active
      /\ \/ ad'.pc \in {"adapt", "write"}
         \/ ad'.pc = "inputs" /\ ad'.todo = active
  <2>1. CASE runIspAdapt(s)
    <3>1. ad'.pc = "write" /\ ad'.todo = ad.todo
      <4> DEFINE node == NodeToWrite(ispParam[s], LastSequence)
      <4>1. ad' = [ad EXCEPT !.pc = "write", !.node = node]
        BY <2>1 DEF runIspAdapt
      <4> HIDE DEF node
      <4> QED BY <1>2, <4>1 DEF Adders
    <3> QED BY <1>4, <3>1
  <2>2. CASE PalDone(s) \/ PalWritten(s)
    <3>1. ad' = AfterAdapt(s)
      BY <2>2 DEF PalDone, PalWritten
    <3>2. CASE ad.todo # {s}
      <4>1. ad' = [IdleAdder EXCEPT !.pc = "adapt", !.todo = ad.todo \ {s}]
        BY <3>1, <3>2 DEF AfterAdapt
      <4>2. ad'.pc = "adapt" /\ ad'.todo = ad.todo \ {s}
        BY <4>1 DEF IdleAdder
      <4> QED BY <1>4, <3>2, <4>2
    <3>3. CASE ad.todo = {s}
      <4>1. ad' = [IdleAdder EXCEPT !.pc = "inputs", !.todo = active]
        BY <3>1, <3>3 DEF AfterAdapt
      <4> HIDE DEF active
      <4>2. ad'.pc = "inputs" /\ ad'.todo = active
        BY <4>1 DEF IdleAdder
      <4> QED BY <1>4, <4>2
    <3> QED BY <3>2, <3>3
  <2> QED BY <2>1, <2>2
<1>6. TodoInv'
  BY <1>3, <1>5 DEF TodoInv
<1>7. \A t : InputDue(t)' <=> InputDue(t)
  BY <1>2, <1>3, <1>5 DEF InputDue
<1>8. \A t : \A p : OutputDue(t, p)' <=> OutputDue(t, p)
  BY <1>2, <1>3, <1>5 DEF OutputDue
<1> QED BY <1>1, <1>6, <1>7, <1>8, DueStep

\* While a task is added every executor is in use.
LEMMA AllInUse ==
  ASSUME AddedWhileRunning, ad.pc # "idle"
  PROVE  dag.state = "running" /\ \A e \in Executors : InUse(e)
  BY DEF AddedWhileRunning, InUse

\* The frame that addTask queues for the input of a stream is of the newest task.
LEMMA InputKeeps ==
  ASSUME TypeInv, NEW act, NEW c, DagInv(act, c), AddedWhileRunning, QueueInput
  PROVE  DagInv(act, c)'
<1> DEFINE active == getActiveStreamIds(Newest)
           v == LastSequence
<1>1. /\ ex' = ex /\ dag' = dag /\ tasks' = tasks /\ mOngoingTasks' = mOngoingTasks
      /\ counted' = counted /\ called' = called /\ finished' = finished /\ abandoned' = abandoned
      /\ mOutputQueue' = mOutputQueue
  BY DEF QueueInput, taskVars, pipeVars
<1>2. ad \in Adders /\ TodoInv /\ ad.pc = "inputs" /\ TaskInv /\ tasks # <<>> /\ QueueType
  BY DEF TypeInv, AdderInv, DagInv, QueueInput
<1>3. \A f \in Executors : InUse(f) /\ InUse(f)'
  BY <1>1, <1>2, AllInUse DEF InUse
<1>4. active' = active
  BY <1>1 DEF getActiveStreamIds, Newest
<1>5. ad.todo # {} /\ ad.todo \subseteq active /\ active \subseteq Streams
  BY <1>2 DEF TodoInv, getActiveStreamIds, StreamsOf
<1>6. PICK s \in ad.todo : s = Min(ad.todo) /\ s \in active /\ s \in Streams
  <2> HIDE DEF active
  <2>1. ad.todo \in SUBSET Nat
    <3>1. Streams \subseteq Nat
      BY DagAssumption
    <3> QED BY <1>5, <3>1
  <2>2. Min(ad.todo) \in ad.todo
    BY <1>5, <2>1, LeastIsIn
  <2> QED BY <1>5, <2>2
<1> DEFINE e == <<s, 1>>
           q == mInputQueue[e]
<1>7. e \in Executors /\ IsInputEdge(e) /\ e[1] = s
  <2>1. Depth[s] \in Nat \ {0}
    BY <1>6, DagAssumption
  <2>2. 1 \in 1..Depth[s]
    BY <2>1
  <2> QED BY <1>6, <2>2 DEF Executors, IsInputEdge
<1>8. Newest \in DOMAIN tasks /\ v = tasks[Newest].seq /\ v \in Sequences0
  BY <1>2, NewestType
<1>9. /\ mInputQueue'[e] = Append(q, v) /\ q \in Seq(Sequences0)
      /\ \A f \in Executors : f # e => mInputQueue'[f] = mInputQueue[f]
  <2>1. mInputQueue' = [mInputQueue EXCEPT ![e] = Append(@, v)]
    BY <1>6 DEF QueueInput
  <2>2. mInputQueue \in [Executors -> Seq(Sequences0)]
    BY <1>2 DEF QueueType
  <2> HIDE DEF e, v
  <2> QED BY <1>7, <2>1, <2>2
<1>10. \/ ad.todo # {s} /\ ad'.pc = "inputs" /\ ad'.todo = ad.todo \ {s}
       \/ ad.todo = {s} /\ ad'.pc = "outputs" /\ ad'.todo = UNION {PortsOf[t] : t \in active}
  <2> DEFINE all == UNION {PortsOf[t] : t \in active}
  <2>1. ad' = IF ad.todo # {s} THEN [ad EXCEPT !.todo = @ \ {s}]
              ELSE [ad EXCEPT !.pc = "outputs", !.todo = all]
    BY <1>6 DEF QueueInput
  <2> HIDE DEF all
  <2>2. \/ ad.todo # {s} /\ ad'.pc = "inputs" /\ ad'.todo = ad.todo \ {s}
        \/ ad.todo = {s} /\ ad'.pc = "outputs" /\ ad'.todo = all
    BY <1>2, <2>1 DEF Adders
  <2> QED BY <2>2 DEF all
<1> HIDE DEF active, v
<1>11. TodoInv'
  <2>1. CASE ad'.pc = "inputs"
    BY <1>4, <1>5, <1>6, <1>10, <2>1 DEF TodoInv, active
  <2>2. CASE ad'.pc = "outputs"
    <3>1. PortsOf[s] # {} /\ s \in active
      BY <1>6, DagAssumption
    <3>2. ad'.todo = UNION {PortsOf[t] : t \in active} /\ ad'.todo # {}
      BY <1>10, <2>2, <3>1
    <3>3. (UNION {PortsOf[t] : t \in getActiveStreamIds(Newest)})' = UNION {PortsOf[t] : t \in active}
      BY <1>4 DEF active
    <3> QED BY <2>2, <3>2, <3>3 DEF TodoInv
  <2> QED BY <1>10, <2>1, <2>2
<1>12. InputDue(s) /\ ~ InputDue(s)' /\ \A t \in Streams : t # s => (InputDue(t)' <=> InputDue(t))
  <2>1. \A t : InputDue(t) <=> t \in ad.todo
    BY <1>2 DEF InputDue
  <2>2. \A t : InputDue(t)' <=> t \in ad.todo \ {s}
    BY <1>10 DEF InputDue
  <2> QED BY <1>6, <2>1, <2>2
<1>13. \A t \in Streams : \A p \in PortsOf[t] : OutputDue(t, p)' <=> OutputDue(t, p)
  <2> SUFFICES ASSUME NEW t \in Streams, NEW p \in PortsOf[t]
      PROVE  OutputDue(t, p)' <=> OutputDue(t, p)
    OBVIOUS
  <2>1. OutputDue(t, p) <=> t \in active
    BY <1>2 DEF OutputDue, active
  <2>2. CASE ad'.pc = "inputs"
    BY <1>4, <2>1, <2>2 DEF OutputDue, active
  <2>3. CASE ad'.pc = "outputs"
    <3>1. OutputDue(t, p)' <=> p \in ad'.todo
      BY <2>3 DEF OutputDue
    <3>2. p \in UNION {PortsOf[u] : u \in active} <=> t \in active
      BY <1>5, DagAssumption
    <3> QED BY <1>2, <1>10, <2>1, <2>3, <3>1, <3>2
  <2> QED BY <1>10, <2>2, <2>3
<1>14. JoinInv' /\ OngoingInv' /\ CallInv'
  <2>1. \A f \in Executors : SameHands(f)
    BY <1>1 DEF SameHands
  <2>2. JoinInv'
    BY <1>1, <1>3, JoinKept DEF DagInv
  <2> QED BY <1>1, <2>1, <2>2, OngoingKept, CallsKept DEF DagInv
<1>15. /\ Lines(act, c) /\ CountLines(act, c) /\ ActiveTasks(act) /\ ActiveTasks(act)'
       /\ act \in [Streams -> Seq(Nat)] /\ c \in [Executors -> Nat]
  BY <1>1 DEF DagInv, Lines, ActiveTasks, getActiveStreamIds
<1>16. Len(act[s]) \in DOMAIN act[s] /\ act[s][Len(act[s])] = Newest
  BY <1>2, <1>6, <1>15, NewestIsLast DEF active
<1>17. InputLine(act, c, e)'
  <2> DEFINE q2 == Append(q, v)
  <2>1. InputLine(act, c, e)
    BY <1>3, <1>7, <1>15 DEF Lines
  <2>2. /\ c[e] + Len(q) + 1 = Len(act[s]) /\ c[e] \in Nat /\ Len(q) \in Nat /\ Len(act[s]) \in Nat
    <3>1. One(InputDue(s)) = 1
      BY <1>12 DEF One
    <3> QED BY <1>6, <1>7, <1>9, <1>15, <2>1, <3>1 DEF InputLine
  <2>3. /\ Len(q2) = Len(q) + 1
        /\ \A k \in DOMAIN q2 : k \in Nat /\ (k \in DOMAIN q \/ k = Len(q) + 1)
        /\ \A k \in DOMAIN q : q2[k] = q[k]
        /\ q2[Len(q) + 1] = v
    <3> HIDE DEF q
    <3> QED BY <1>8, <1>9, AddLast
  <2>4. \A k \in DOMAIN q : q[k] = tasks[act[s][c[e] + k]].seq
    BY <1>7, <2>1 DEF InputLine
  <2>5. One(InputDue(s))' = 0
    BY <1>12 DEF One
  <2>6. mInputQueue'[e] = q2
    BY <1>9
  <2> HIDE DEF q2, q
  <2>7. c[e] + Len(q2) <= Len(act[s]) /\ c[e] + Len(q2) + 0 = Len(act[s])
    <3>1. Len(q2) = Len(q) + 1
      BY <2>3
    <3> QED BY <2>2, <3>1
  <2>8. ASSUME NEW k \in DOMAIN q2 PROVE q2[k] = tasks[act[s][c[e] + k]].seq
    <3>1. CASE k \in DOMAIN q
      BY <2>3, <2>4, <3>1
    <3>2. CASE k = Len(q) + 1
      <4>1. c[e] + k = Len(act[s])
        BY <2>2, <3>2
      <4> QED BY <1>8, <1>16, <2>3, <3>2, <4>1
    <3> QED BY <2>3, <3>1, <3>2
  <2>9. IsInputEdge(e)' <=> IsInputEdge(e)
    BY DEF IsInputEdge
  <2>10. /\ c[e] + Len(mInputQueue'[e]) + One(InputDue(e[1]))' = Len(act[e[1]])
         /\ c[e] + Len(mInputQueue'[e]) <= Len(act[e[1]])
    BY <1>7, <2>5, <2>6, <2>7
  <2>11. \A k \in DOMAIN mInputQueue'[e] : mInputQueue'[e][k] = tasks'[act[e[1]][c[e] + k]].seq
    BY <1>1, <1>7, <2>6, <2>8
  <2> HIDE DEF e
  <2> QED BY <1>7, <2>9, <2>10, <2>11 DEF InputLine
<1>20. e = <<s, 1>>
  OBVIOUS
<1> HIDE DEF e
<1>18. ASSUME NEW f \in Executors
       PROVE  InputLine(act, c, f)' /\ OutputLine(act, c, f)' /\ HandsLine(act, c, f)'
              /\ CountLine(act, c, f)'
  <2>1. InputLine(act, c, f) /\ OutputLine(act, c, f) /\ HandsLine(act, c, f) /\ CountLine(act, c, f)
    BY <1>3, <1>15 DEF Lines, CountLines
  <2>2. f[1] \in Streams /\ SameHands(f) /\ (Holds(f) => c[f] \in DOMAIN act[f[1]])
    BY <1>1, <1>2, <1>3, <1>15, Neighbours, HandsPlace DEF SameHands
  <2>3. InputLine(act, c, f)'
    <3>1. CASE f = e
      BY <1>17, <3>1
    <3>2. CASE f # e
      <4>1. ~ IsInputEdge(f) => Kept(Producer(f))' = Kept(Producer(f))
        BY <1>1 DEF Kept
      <4>2. IsInputEdge(f) => f[1] # s
        BY <1>7, <1>20, <3>2, Neighbours DEF IsInputEdge
      <4>3. IsInputEdge(f) => One(InputDue(f[1]))' = One(InputDue(f[1]))
        BY <1>12, <2>2, <4>2 DEF One
      <4> QED BY <1>1, <1>9, <2>1, <3>2, <4>1, <4>3, InputKept
    <3> QED BY <3>1, <3>2
  <2>4. OutputLine(act, c, f)'
    <3>1. \A p \in OutPorts(f) : One(OutputDue(f[1], p))' = One(OutputDue(f[1], p))
      BY <1>13, <2>2 DEF One, OutPorts
    <3> QED BY <1>1, <2>1, <3>1, OutputKept
  <2>5. HandsLine(act, c, f)'
    BY <1>1, <2>1, <2>2, HandsKept
  <2>6. CountLine(act, c, f)'
    BY <1>1, <1>15, <2>1, <2>2, CountsKept
  <2> QED BY <2>3, <2>4, <2>5, <2>6
<1>19. Lines(act, c)' /\ CountLines(act, c)'
  BY <1>15, <1>18 DEF Lines, CountLines
<1> QED BY <1>11, <1>14, <1>19 DEF DagInv

\* The buffer that addTask queues for a port of an active stream is the newest task's.
LEMMA OutputKeeps ==
  ASSUME TypeInv, NEW act, NEW c, DagInv(act, c), AddedWhileRunning, QueueOutput
  PROVE  DagInv(act, c)'
<1> DEFINE active == getActiveStreamIds(Newest)
<1>1. /\ ex' = ex /\ dag' = dag /\ tasks' = tasks /\ mOngoingTasks' = mOngoingTasks
      /\ counted' = counted /\ called' = called /\ finished' = finished /\ abandoned' = abandoned
      /\ mInputQueue' = mInputQueue
  BY DEF QueueOutput, taskVars, pipeVars
<1>2. ad \in Adders /\ TodoInv /\ ad.pc = "outputs" /\ TaskInv /\ tasks # <<>> /\ QueueType
  BY DEF TypeInv, AdderInv, DagInv, QueueOutput
<1>3. \A f \in Executors : InUse(f) /\ InUse(f)'
  BY <1>1, <1>2, AllInUse DEF InUse
<1>4. active' = active /\ active \subseteq Streams
  BY <1>1 DEF getActiveStreamIds, Newest, StreamsOf
<1>5. ad.todo # {} /\ ad.todo \subseteq UNION {PortsOf[s] : s \in active}
  BY <1>2 DEF TodoInv
<1>6. PICK p \in ad.todo : p = Min(ad.todo)
  <2> HIDE DEF active
  <2>1. \A s \in active : PortsOf[s] \in SUBSET Nat
    BY <1>4, DagAssumption
  <2>2. ad.todo \in SUBSET Nat
    BY <1>5, <2>1
  <2> QED BY <1>5, <2>2, LeastIsIn
<1> DEFINE q == mOutputQueue[p]
           v == BufferOf(Newest, p)
<1>7. PICK s \in active : p \in PortsOf[s]
  BY <1>5, <1>6
<1> DEFINE e == <<s, Depth[s]>>
<1>8. e \in Executors /\ IsOutputEdge(e) /\ e[1] = s /\ s \in Streams /\ OutPorts(e) = PortsOf[s]
      /\ p \in Ports
  <2>0. s \in Streams /\ Depth[s] \in Nat \ {0}
    BY <1>4, <1>7, DagAssumption
  <2>1. Depth[s] \in 1..Depth[s]
    BY <2>0
  <2> QED BY <1>7, <2>0, <2>1 DEF Executors, IsOutputEdge, OutPorts, Ports
<1>9. Newest \in DOMAIN tasks /\ v \in 0..MaxTasks
  <2>1. Newest \in DOMAIN tasks /\ Newest \in 1..MaxTasks
    BY <1>2, NewestType
  <2> QED BY <2>1, Constants DEF BufferOf
<1>10. /\ mOutputQueue'[p] = Append(q, v) /\ q \in Seq(0..MaxTasks)
       /\ \A r \in Ports : r # p => mOutputQueue'[r] = mOutputQueue[r]
  <2>1. mOutputQueue' = [mOutputQueue EXCEPT ![p] = Append(@, v)]
    BY <1>6 DEF QueueOutput, BufferOf
  <2>2. mOutputQueue \in [Ports -> Seq(0..MaxTasks)]
    BY <1>2 DEF QueueType
  <2> HIDE DEF v
  <2> QED BY <1>8, <2>1, <2>2
<1>11. \/ ad.todo # {p} /\ ad'.pc = "outputs" /\ ad'.todo = ad.todo \ {p}
       \/ ad.todo = {p} /\ ad'.pc = "idle"
  <2>1. ad' = IF ad.todo = {p} THEN IdleAdder ELSE [ad EXCEPT !.todo = @ \ {p}]
    BY <1>6 DEF QueueOutput
  <2> QED BY <1>2, <2>1 DEF Adders, IdleAdder
<1> HIDE DEF active, v
<1>12. TodoInv'
  <2>1. (UNION {PortsOf[t] : t \in getActiveStreamIds(Newest)})' = UNION {PortsOf[t] : t \in active}
    BY <1>4 DEF active
  <2> QED BY <1>5, <1>6, <1>11, <2>1 DEF TodoInv
<1>13. \A t \in Streams : InputDue(t)' <=> InputDue(t)
  BY <1>2, <1>11 DEF InputDue
<1>14. \A t : /\ OutputDue(t, p) /\ ~ OutputDue(t, p)'
              /\ \A r : r # p => (OutputDue(t, r)' <=> OutputDue(t, r))
  <2>1. \A t : \A r : OutputDue(t, r) <=> r \in ad.todo
    BY <1>2 DEF OutputDue
  <2>2. \A t : \A r : OutputDue(t, r)' <=> r \in ad.todo \ {p}
    BY <1>11 DEF OutputDue
  <2> QED BY <1>6, <2>1, <2>2
<1>15. JoinInv' /\ OngoingInv' /\ CallInv'
  <2>1. \A f \in Executors : SameHands(f)
    BY <1>1 DEF SameHands
  <2>2. JoinInv'
    BY <1>1, <1>3, JoinKept DEF DagInv
  <2> QED BY <1>1, <2>1, <2>2, OngoingKept, CallsKept DEF DagInv
<1>16. /\ Lines(act, c) /\ CountLines(act, c) /\ ActiveTasks(act) /\ ActiveTasks(act)'
       /\ act \in [Streams -> Seq(Nat)] /\ c \in [Executors -> Nat]
  BY <1>1 DEF DagInv, Lines, ActiveTasks, getActiveStreamIds
<1>17. Len(act[s]) \in DOMAIN act[s] /\ act[s][Len(act[s])] = Newest
  BY <1>2, <1>7, <1>8, <1>16, NewestIsLast DEF active
<1>18. \A m : \A r : BufferOf(m, r)' = BufferOf(m, r)
  BY <1>1 DEF BufferOf
<1>19. /\ c[e] + Len(mOutputQueue'[p]) + One(OutputDue(s, p))' = Len(act[s])
       /\ \A k \in DOMAIN mOutputQueue'[p] : mOutputQueue'[p][k] = BufferOf(act[s][c[e] + k], p)
  <2> DEFINE q2 == Append(q, v)
  <2>1. /\ c[e] + Len(q) + One(OutputDue(s, p)) = Len(act[s])
        /\ \A k \in DOMAIN q : q[k] = BufferOf(act[s][c[e] + k], p)
    <3>1. OutputLine(act, c, e) /\ p \in OutPorts(e)
      BY <1>3, <1>7, <1>8, <1>16 DEF Lines
    <3> QED BY <1>8, <3>1 DEF OutputLine
  <2>2. c[e] + Len(q) + 1 = Len(act[s]) /\ c[e] \in Nat /\ Len(q) \in Nat /\ Len(act[s]) \in Nat
    <3>1. One(OutputDue(s, p)) = 1
      BY <1>14 DEF One
    <3> QED BY <1>8, <1>10, <1>16, <2>1, <3>1
  <2>3. /\ Len(q2) = Len(q) + 1
        /\ \A k \in DOMAIN q2 : k \in Nat /\ (k \in DOMAIN q \/ k = Len(q) + 1)
        /\ \A k \in DOMAIN q : q2[k] = q[k]
        /\ q2[Len(q) + 1] = v
    <3> HIDE DEF q
    <3> QED BY <1>9, <1>10, AddLast
  <2>4. One(OutputDue(s, p))' = 0
    BY <1>14 DEF One
  <2>5. mOutputQueue'[p] = q2
    BY <1>10
  <2> HIDE DEF q2, q, e
  <2>6. c[e] + Len(q2) + 0 = Len(act[s])
    <3>1. Len(q2) = Len(q) + 1
      BY <2>3
    <3> QED BY <2>2, <3>1
  <2>7. ASSUME NEW k \in DOMAIN q2 PROVE q2[k] = BufferOf(act[s][c[e] + k], p)
    <3>1. CASE k \in DOMAIN q
      BY <2>1, <2>3, <3>1
    <3>2. CASE k = Len(q) + 1
      <4>1. c[e] + k = Len(act[s])
        BY <2>2, <3>2
      <4> QED BY <1>17, <2>3, <3>2, <4>1 DEF v
    <3> QED BY <2>3, <3>1, <3>2
  <2> QED BY <2>4, <2>5, <2>6, <2>7
<1> HIDE DEF e
<1>20. ASSUME NEW f \in Executors
       PROVE  InputLine(act, c, f)' /\ OutputLine(act, c, f)' /\ HandsLine(act, c, f)'
              /\ CountLine(act, c, f)'
  <2>1. InputLine(act, c, f) /\ OutputLine(act, c, f) /\ HandsLine(act, c, f) /\ CountLine(act, c, f)
    BY <1>3, <1>16 DEF Lines, CountLines
  <2>2. f[1] \in Streams /\ SameHands(f) /\ (Holds(f) => c[f] \in DOMAIN act[f[1]])
    BY <1>1, <1>2, <1>3, <1>16, Neighbours, HandsPlace DEF SameHands
  <2>3. InputLine(act, c, f)'
    <3>1. ~ IsInputEdge(f) => Kept(Producer(f))' = Kept(Producer(f))
      BY <1>1 DEF Kept
    <3>2. One(InputDue(f[1]))' = One(InputDue(f[1]))
      BY <1>13, <2>2 DEF One
    <3> QED BY <1>1, <2>1, <3>1, <3>2, InputKept
  <2>4. OutputLine(act, c, f)'
    <3>1. ASSUME NEW r \in OutPorts(f)
          PROVE  /\ c[f] + Len(mOutputQueue'[r]) + One(OutputDue(f[1], r))' = Len(act[f[1]])
                 /\ \A k \in DOMAIN mOutputQueue'[r] :
                      mOutputQueue'[r][k] = BufferOf(act[f[1]][c[f] + k], r)'
      <4>1. CASE r = p
        <5>1. f = e
          BY <1>7, <1>8, <3>1, <4>1, PortOwner
        <5> QED BY <1>8, <1>18, <1>19, <4>1, <5>1
      <4>2. CASE r # p
        <5>1. mOutputQueue'[r] = mOutputQueue[r] /\ One(OutputDue(f[1], r))' = One(OutputDue(f[1], r))
          BY <1>10, <1>14, <3>1, <4>2, PortTypes DEF One
        <5> QED BY <1>18, <2>1, <3>1, <5>1 DEF OutputLine
      <4> QED BY <4>1, <4>2
    <3> QED BY <3>1 DEF OutputLine
  <2>5. HandsLine(act, c, f)'
    BY <1>1, <2>1, <2>2, HandsKept
  <2>6. CountLine(act, c, f)'
    BY <1>1, <1>16, <2>1, <2>2, CountsKept
  <2> QED BY <2>3, <2>4, <2>5, <2>6
<1>21. Lines(act, c)' /\ CountLines(act, c)'
  BY <1>16, <1>20 DEF Lines, CountLines
<1> QED BY <1>12, <1>15, <1>21 DEF DagInv

-----------------------------------------------------------------------------
(* A task is added.                                                        *)

\* The new task is the last one; the ones before stay.
LEMMA TaskAdded ==
  ASSUME TypeInv, AddTask
  PROVE  \E kind \in (SUBSET Ports) \ {{}} : \E v \in Sequences0 :
           LET new == Newest + 1
           IN  /\ tasks' = Append(tasks, [ports |-> kind, seq |-> v])
               /\ new \in Nat /\ DOMAIN tasks' = DOMAIN tasks \cup {new} /\ Newest' = new
               /\ \A n \in DOMAIN tasks : n \in Nat /\ n < new /\ tasks'[n] = tasks[n]
               /\ tasks'[new].ports = kind /\ tasks'[new].seq = v
               /\ StreamsOf(kind) # {}
               /\ ad'.pc = "adapt" /\ ad'.todo = StreamsOf(kind)
<1> DEFINE TaskSet == [ports : SUBSET Ports, seq : Sequences0]
<1>1. tasks \in Seq(TaskSet) /\ Len(tasks) < MaxTasks /\ Len(tasks) \in Nat
  BY DEF TypeInv, TaskInv, TaskType, AddTask, Newest
<1>2. PICK kind \in TaskKinds[Newest + 1] : \E step \in SequenceSteps :
         /\ LastSequence + step \in 0..MaxSequence
         /\ tasks' = Append(tasks, [ports |-> kind, seq |-> LastSequence + step])
         /\ ad' = [IdleAdder EXCEPT !.pc = "adapt", !.todo = StreamsOf(kind)]
  BY DEF AddTask
<1>3. PICK v \in Sequences0 :
         /\ tasks' = Append(tasks, [ports |-> kind, seq |-> v])
         /\ ad' = [IdleAdder EXCEPT !.pc = "adapt", !.todo = StreamsOf(kind)]
  BY <1>2 DEF Sequences0
<1>4. kind \in (SUBSET Ports) \ {{}}
  <2>1. Newest + 1 \in 1..Len(TaskKinds)
    BY <1>1, Constants DEF Newest, MaxTasks
  <2>2. TaskKinds[Newest + 1] \subseteq (SUBSET Ports) \ {{}}
    BY <2>1, DagAssumption
  <2> QED BY <2>2
<1>5. StreamsOf(kind) # {}
  BY <1>4 DEF StreamsOf, Ports
<1> DEFINE t == [ports |-> kind, seq |-> v]
<1>6. t \in TaskSet /\ t.ports = kind /\ t.seq = v
  BY <1>3, <1>4
<1>7. tasks' = Append(tasks, t)
  BY <1>3
<1> HIDE DEF TaskSet, t
<1>8. /\ Len(tasks') = Len(tasks) + 1 /\ tasks' \in Seq(TaskSet)
      /\ \A n \in DOMAIN tasks : tasks'[n] = tasks[n]
      /\ tasks'[Len(tasks) + 1] = t
  BY <1>1, <1>6, <1>7
<1>9. /\ DOMAIN tasks = 1..Len(tasks) /\ DOMAIN tasks' = 1..(Len(tasks) + 1)
  BY <1>1, <1>8
<1>10. /\ Newest + 1 \in Nat /\ DOMAIN tasks' = DOMAIN tasks \cup {Newest + 1} /\ Newest' = Newest + 1
       /\ \A n \in DOMAIN tasks : n \in Nat /\ n < Newest + 1
  BY <1>1, <1>8, <1>9 DEF Newest
<1>11. ad'.pc = "adapt" /\ ad'.todo = StreamsOf(kind)
  BY <1>3 DEF IdleAdder
<1> QED BY <1>3, <1>4, <1>5, <1>6, <1>8, <1>10, <1>11 DEF Newest

\* The ongoing tasks with the new one at the end
LEMMA OngoingAdded ==
  ASSUME TypeInv, OngoingInv, AddTask
  PROVE  OngoingInv' /\ counted'[Newest + 1] = {} /\ called'[Newest + 1] = {}
         /\ \A n \in DOMAIN tasks : counted'[n] = counted[n] /\ called'[n] = called[n]
<1> DEFINE T == [n : DOMAIN tasks, returned : Nat]
           new == Newest + 1
           s == mOngoingTasks
           t == [n |-> new, returned |-> 0]
<1>1. PICK kind \in (SUBSET Ports) \ {{}}, v \in Sequences0 :
        /\ tasks' = Append(tasks, [ports |-> kind, seq |-> v])
        /\ new \in Nat /\ DOMAIN tasks' = DOMAIN tasks \cup {new}
        /\ \A n \in DOMAIN tasks : n \in Nat /\ n < new /\ tasks'[n] = tasks[n]
        /\ tasks'[new].ports = kind
  BY TaskAdded
<1>2. /\ counted' = Append(counted, {}) /\ called' = Append(called, {})
      /\ mOngoingTasks' = Append(s, t)
  BY DEF AddTask
<1>3. /\ counted \in Seq(SUBSET Ports) /\ called \in Seq(SUBSET Ports)
      /\ DOMAIN counted = DOMAIN tasks /\ DOMAIN called = DOMAIN tasks
  BY DEF OngoingInv
<1>4. tasks \in Seq([ports : SUBSET Ports, seq : Sequences0]) /\ s \in Seq(T)
  BY DEF TypeInv, TaskInv, TaskType
<1>5. Len(counted) = Newest /\ Len(called) = Newest /\ Newest \in Nat /\ DOMAIN tasks = 1..Newest
  <2>1. DOMAIN tasks = 1..Newest /\ Newest \in Nat
    BY <1>4 DEF Newest
  <2>2. DOMAIN counted = 1..Len(counted) /\ DOMAIN called = 1..Len(called)
        /\ Len(counted) \in Nat /\ Len(called) \in Nat
    BY <1>3
  <2>3. ASSUME NEW m \in Nat, NEW n \in Nat, 1..m = 1..n PROVE m = n
    <3>1. m # 0 => m \in 1..n
      BY <2>3
    <3>2. n # 0 => n \in 1..m
      BY <2>3
    <3> QED BY <3>1, <3>2
  <2> QED BY <1>3, <2>1, <2>2, <2>3
<1>6. /\ counted' \in Seq(SUBSET Ports) /\ called' \in Seq(SUBSET Ports)
      /\ DOMAIN counted' = DOMAIN tasks' /\ DOMAIN called' = DOMAIN tasks'
      /\ counted'[new] = {} /\ called'[new] = {}
      /\ \A n \in DOMAIN tasks : counted'[n] = counted[n] /\ called'[n] = called[n]
  <2>1. {} \in SUBSET Ports
    OBVIOUS
  <2>2. ASSUME NEW q \in Seq(SUBSET Ports), Len(q) = Newest, NEW q2, q2 = Append(q, {})
        PROVE  /\ q2 \in Seq(SUBSET Ports) /\ DOMAIN q2 = DOMAIN tasks'
               /\ q2[new] = {} /\ \A n \in DOMAIN tasks : q2[n] = q[n]
    <3>1. q2 \in Seq(SUBSET Ports) /\ Len(q2) = Newest + 1
      BY <2>1, <2>2, <1>5
    <3>2. DOMAIN q2 = 1..(Newest + 1)
      BY <3>1
    <3>3. q2[Newest + 1] = {} /\ \A n \in 1..Newest : q2[n] = q[n]
      BY <2>2, <1>5
    <3> QED BY <1>1, <1>5, <3>1, <3>2, <3>3
  <2> QED BY <1>2, <1>3, <1>5, <2>2
<1>7. /\ t.n = new /\ t.returned = 0
      /\ \A j \in DOMAIN s : s[j] \in T /\ s[j].n \in DOMAIN tasks /\ j \in 1..Len(s)
      /\ Len(s) \in Nat
  <2>1. \A x \in T : x.n \in DOMAIN tasks
    OBVIOUS
  <2>2. t.n = new /\ t.returned = 0
    OBVIOUS
  <2> HIDE DEF T, s, t
  <2>3. \A j \in DOMAIN s : s[j] \in T /\ j \in 1..Len(s)
    BY <1>4
  <2>4. Len(s) \in Nat
    BY <1>4
  <2> QED BY <2>1, <2>2, <2>3, <2>4
<1> DEFINE s2 == Append(s, t)
<1>8. /\ DOMAIN s2 = 1..(Len(s) + 1) /\ DOMAIN s = 1..Len(s)
      /\ s2[Len(s) + 1] = t /\ \A j \in DOMAIN s : s2[j] = s[j]
  <2>1. t \in [n : Nat, returned : Nat] /\ T \subseteq [n : Nat, returned : Nat]
    BY <1>1
  <2>2. s \in Seq([n : Nat, returned : Nat])
    <3> DEFINE U == [n : Nat, returned : Nat]
    <3>1. s \in Seq(T) /\ T \subseteq U
      BY <1>4, <2>1
    <3> HIDE DEF T, U, s
    <3>2. s \in Seq(U)
      BY <3>1, SeqOfMore
    <3> QED BY <3>2 DEF U
  <2> HIDE DEF t
  <2> QED BY <2>1, <2>2
<1>9. /\ \A i, j \in DOMAIN s : i < j => s[i].n < s[j].n
      /\ \A i \in DOMAIN s : s[i].returned = Cardinality(counted[s[i].n])
      /\ \A n \in DOMAIN tasks :
            /\ called[n] \subseteq counted[n] /\ counted[n] \subseteq tasks[n].ports
            /\ counted[n] # tasks[n].ports <=> \E i \in DOMAIN s : s[i].n = n
  BY DEF OngoingInv
<1> HIDE DEF s2, t, new, s, T
<1>10. \A i, j \in DOMAIN s2 : i < j => s2[i].n < s2[j].n
  <2> SUFFICES ASSUME NEW i \in DOMAIN s2, NEW j \in DOMAIN s2, i < j PROVE s2[i].n < s2[j].n
    OBVIOUS
  <2>1. i \in DOMAIN s
    BY <1>7, <1>8
  <2>2. CASE j \in DOMAIN s
    BY <1>8, <1>9, <2>1, <2>2
  <2>3. CASE j = Len(s) + 1
    <3>1. s2[i].n \in DOMAIN tasks /\ s2[j].n = new
      BY <1>7, <1>8, <2>1, <2>3
    <3> QED BY <1>1, <3>1
  <2> QED BY <1>7, <1>8, <2>2, <2>3
<1>11. \A i \in DOMAIN s2 : s2[i].returned = Cardinality(counted'[s2[i].n])
  <2> SUFFICES ASSUME NEW i \in DOMAIN s2 PROVE s2[i].returned = Cardinality(counted'[s2[i].n])
    OBVIOUS
  <2>1. CASE i \in DOMAIN s
    BY <1>6, <1>7, <1>8, <1>9, <2>1
  <2>2. CASE i = Len(s) + 1
    BY <1>6, <1>7, <1>8, <2>2, FS_EmptySet
  <2> QED BY <1>7, <1>8, <2>1, <2>2
<1>12. ASSUME NEW n \in DOMAIN tasks'
       PROVE  /\ called'[n] \subseteq counted'[n] /\ counted'[n] \subseteq tasks'[n].ports
              /\ counted'[n] # tasks'[n].ports <=> \E i \in DOMAIN s2 : s2[i].n = n
  <2>1. CASE n \in DOMAIN tasks
    <3>1. n # new
      BY <1>1, <2>1
    <3>2. (\E i \in DOMAIN s2 : s2[i].n = n) <=> \E i \in DOMAIN s : s[i].n = n
      BY <1>7, <1>8, <3>1
    <3> QED BY <1>1, <1>6, <1>9, <2>1, <3>2
  <2>2. CASE n = new
    <3>1. \E i \in DOMAIN s2 : s2[i].n = n
      BY <1>7, <1>8, <2>2
    <3> QED BY <1>1, <1>6, <2>2, <3>1
  <2> QED BY <1>1, <2>1, <2>2
<1>13. mOngoingTasks' = s2
  BY <1>2 DEF s2
<1>14. OngoingInv'
  BY <1>6, <1>10, <1>11, <1>12, <1>13 DEF OngoingInv
<1> QED BY <1>6, <1>14 DEF new

\* A longer sequence keeps its elements.
LEMMA LongerKeeps ==
  ASSUME NEW q \in Seq(Nat), NEW n \in Nat, NEW b \in BOOLEAN,
         NEW q2, q2 = IF b THEN Append(q, n) ELSE q
  PROVE  /\ q2 \in Seq(Nat) /\ Len(q) \in Nat /\ Len(q2) = Len(q) + One(b)
         /\ DOMAIN q = 1..Len(q)
         /\ \A k \in DOMAIN q : k \in DOMAIN q2 /\ q2[k] = q[k]
         /\ \A k \in DOMAIN q2 : k \in Nat /\ (k \in DOMAIN q \/ (b /\ k = Len(q) + 1 /\ q2[k] = n))
         /\ b => Len(q) + 1 \in DOMAIN q2 /\ q2[Len(q) + 1] = n
<1>1. CASE b
  <2>1. /\ q2 \in Seq(Nat) /\ Len(q) \in Nat /\ Len(q2) = Len(q) + 1
        /\ DOMAIN q = 1..Len(q) /\ DOMAIN q2 = 1..(Len(q) + 1)
        /\ \A k \in 1..Len(q) : q2[k] = q[k]
        /\ q2[Len(q) + 1] = n
    BY <1>1
  <2>2. \A k \in DOMAIN q2 : k \in Nat /\ (k \in DOMAIN q \/ k = Len(q) + 1)
    BY <2>1
  <2>3. One(b) = 1
    BY <1>1 DEF One
  <2>4. \A k \in DOMAIN q : k \in DOMAIN q2
    BY <2>1
  <2>5. \A k \in DOMAIN q2 : k \in Nat /\ (k \in DOMAIN q \/ (b /\ k = Len(q) + 1 /\ q2[k] = n))
    BY <1>1, <2>1, <2>2
  <2>6. Len(q) + 1 \in DOMAIN q2
    BY <2>1
  <2>7. Len(q2) = Len(q) + One(b) /\ \A k \in DOMAIN q : k \in DOMAIN q2 /\ q2[k] = q[k]
    BY <2>1, <2>3, <2>4
  <2> QED BY <2>1, <2>5, <2>6, <2>7
<1>2. CASE ~ b
  BY <1>2 DEF One
<1> QED BY <1>1, <1>2

\* The calls do not change when a task is added.
LEMMA CallsAdded ==
  ASSUME TypeInv, EndInv, NEW act, NEW c, DagInv(act, c), AddTask, dag.state = "running"
  PROVE  CallInv'
<1> DEFINE new == Newest + 1
<1>1. /\ ex' = ex /\ dag' = dag /\ finished' = finished /\ abandoned' = abandoned
  BY DEF AddTask
<1>2. /\ DOMAIN tasks' = DOMAIN tasks \cup {new}
      /\ \A n \in DOMAIN tasks : tasks'[n] = tasks[n]
  BY TaskAdded
<1>3. /\ counted'[new] = {} /\ called'[new] = {}
      /\ \A n \in DOMAIN tasks : counted'[n] = counted[n] /\ called'[n] = called[n]
  BY OngoingAdded DEF DagInv
<1>4. CallInv
  BY DEF DagInv
<1>5. \A e \in Executors : Calls(e) => ex[e].task \in DOMAIN tasks
  BY CallsTask
<1>6. \A e \in Executors : /\ Calls(e)' <=> Calls(e)
                           /\ ExAt(e, "callback")' <=> ExAt(e, "callback")
                           /\ CurrentPort(e)' = CurrentPort(e)
  BY <1>1 DEF Calls, ExAt, CurrentPort
<1> HIDE DEF new
<1>7. /\ finished' \subseteq DOMAIN tasks' /\ abandoned' \subseteq DOMAIN tasks'
      /\ \A n \in finished' : counted'[n] = tasks'[n].ports
  BY <1>1, <1>2, <1>3, <1>4 DEF CallInv
<1>8. ASSUME NEW e \in Executors, Calls(e)'
      PROVE  /\ IsOutputEdge(e)
             /\ ex'[e].complete => counted'[ex'[e].task] = tasks'[ex'[e].task].ports
                                   /\ ex'[e].task \notin finished'
             /\ ex'[e].pc = "callback" => CurrentPort(e)' \notin called'[ex'[e].task]
             /\ ex'[e].pc = "task" => ex'[e].complete /\ CurrentPort(e)' \in called'[ex'[e].task]
  BY <1>1, <1>2, <1>3, <1>4, <1>5, <1>6, <1>8 DEF CallInv
<1>9. ASSUME NEW e \in Executors, NEW f \in Executors, Calls(e)', Calls(f)', ex'[e].complete,
             ex'[f].complete, e # f
      PROVE  ex'[e].task # ex'[f].task
  BY <1>1, <1>4, <1>6, <1>9 DEF CallInv
<1>10. ASSUME NEW n \in DOMAIN tasks', NEW p \in counted'[n] \ called'[n]
       PROVE  \E e \in Executors : ExAt(e, "callback")' /\ ex'[e].task = n /\ CurrentPort(e)' = p
  <2>1. n \in DOMAIN tasks
    BY <1>2, <1>3, <1>10
  <2>2. PICK e \in Executors : ExAt(e, "callback") /\ ex[e].task = n /\ CurrentPort(e) = p
    BY <1>3, <1>4, <1>10, <2>1 DEF CallInv
  <2> QED BY <1>1, <1>6, <2>2
<1> QED BY <1>1, <1>7, <1>8, <1>9, <1>10 DEF CallInv

\* A new task comes behind the others on the streams that it is active on.
LEMMA AddKeeps ==
  ASSUME TypeInv, EndInv, NEW act, NEW c, DagInv(act, c), AddTask, AddedWhileRunning'
  PROVE  \E a : DagInv(a, c)'
<1>0. PICK new \in Nat : new = Newest + 1
  BY TaskAdded
<1>1. PICK kind \in (SUBSET Ports) \ {{}}, v \in Sequences0 :
        /\ tasks' = Append(tasks, [ports |-> kind, seq |-> v])
        /\ new \in Nat /\ DOMAIN tasks' = DOMAIN tasks \cup {new} /\ Newest' = new
        /\ \A n \in DOMAIN tasks : n \in Nat /\ n < new /\ tasks'[n] = tasks[n]
        /\ tasks'[new].ports = kind
        /\ StreamsOf(kind) # {}
        /\ ad'.pc = "adapt" /\ ad'.todo = StreamsOf(kind)
  BY <1>0, TaskAdded
<1>2. /\ ex' = ex /\ dag' = dag /\ finished' = finished /\ abandoned' = abandoned
      /\ mInputQueue' = mInputQueue /\ mOutputQueue' = mOutputQueue
      /\ ad.pc = "idle"
  BY DEF AddTask, queueVars
<1>3. dag.state = "running" /\ dag'.state = "running"
  BY <1>1, <1>2 DEF AddedWhileRunning
<1>4. CallInv'
  BY <1>3, CallsAdded
<1>5. /\ OngoingInv' /\ counted'[new] = {}
      /\ \A n \in DOMAIN tasks : counted'[n] = counted[n]
  BY <1>0, OngoingAdded DEF DagInv
<1> DEFINE S == StreamsOf(kind)
<1>6. /\ getActiveStreamIds(new)' = S
      /\ \A n \in DOMAIN tasks : getActiveStreamIds(n)' = getActiveStreamIds(n)
  BY <1>1 DEF getActiveStreamIds
<1>7. Lines(act, c) /\ CountLines(act, c) /\ TodoInv /\ JoinInv /\ CallInv /\ QueueType
  BY DEF DagInv, TypeInv
<1>8. \A s : InputDue(s) = FALSE /\ \A p : OutputDue(s, p) = FALSE
  BY <1>2 DEF InputDue, OutputDue
<1>9. \A s : (InputDue(s)' <=> s \in S) /\ \A p : OutputDue(s, p)' <=> s \in S
  <2>1. getActiveStreamIds(Newest)' = S
    BY <1>0, <1>1, <1>6
  <2>2. \A s : InputDue(s)' <=> s \in getActiveStreamIds(Newest)'
    BY <1>1 DEF InputDue
  <2>3. \A s : \A p : OutputDue(s, p)' <=> s \in getActiveStreamIds(Newest)'
    BY <1>1 DEF OutputDue
  <2> HIDE DEF S
  <2> QED BY <2>1, <2>2, <2>3
<1>10. TodoInv' /\ JoinInv'
  <2>1. JoinInv'
    BY <1>2, <1>7, JoinKept
  <2>2. getActiveStreamIds(Newest)' = S
    BY <1>0, <1>1, <1>6
  <2>3. TodoInv'
    BY <1>1, <2>2 DEF TodoInv
  <2> QED BY <2>1, <2>3
<1> DEFINE act2 == [s \in Streams |-> IF s \in S THEN Append(act[s], new) ELSE act[s]]
<1>11. act \in [Streams -> Seq(Nat)] /\ c \in [Executors -> Nat] /\ ActiveTasks(act)
  BY <1>7 DEF Lines
<1>12. ASSUME NEW s \in Streams
       PROVE  /\ act2[s] \in Seq(Nat) /\ Len(act[s]) \in Nat
              /\ Len(act2[s]) = Len(act[s]) + One(s \in S)
              /\ DOMAIN act[s] = 1..Len(act[s])
              /\ \A k \in DOMAIN act[s] : k \in DOMAIN act2[s] /\ act2[s][k] = act[s][k]
              /\ \A k \in DOMAIN act2[s] : k \in Nat /\
                   (k \in DOMAIN act[s] \/ (s \in S /\ k = Len(act[s]) + 1 /\ act2[s][k] = new))
              /\ s \in S => Len(act[s]) + 1 \in DOMAIN act2[s] /\ act2[s][Len(act[s]) + 1] = new
  <2> DEFINE b == s \in S
  <2>1. act2[s] = IF b THEN Append(act[s], new) ELSE act[s]
    OBVIOUS
  <2>2. act[s] \in Seq(Nat) /\ b \in BOOLEAN
    BY <1>11
  <2> DEFINE q == act[s]
             q2 == act2[s]
  <2> HIDE DEF act2, S, q, q2, b
  <2>3. q2 = IF b THEN Append(q, new) ELSE q
    BY <2>1 DEF q, q2
  <2>4. q \in Seq(Nat) /\ b \in BOOLEAN
    BY <2>2 DEF q
  <2>5. /\ q2 \in Seq(Nat) /\ Len(q) \in Nat /\ Len(q2) = Len(q) + One(b)
        /\ DOMAIN q = 1..Len(q)
        /\ \A k \in DOMAIN q : k \in DOMAIN q2 /\ q2[k] = q[k]
        /\ \A k \in DOMAIN q2 : k \in Nat /\ (k \in DOMAIN q \/ (b /\ k = Len(q) + 1 /\ q2[k] = new))
        /\ b => Len(q) + 1 \in DOMAIN q2 /\ q2[Len(q) + 1] = new
    BY <1>0, <2>3, <2>4, LongerKeeps
  <2> QED BY <2>5 DEF q, q2, b
<1>13. act2 \in [Streams -> Seq(Nat)]
  BY <1>12
<1> HIDE DEF act2, S
<1>14. ActiveTasks(act2)'
  <2> SUFFICES ASSUME NEW s \in Streams
      PROVE  /\ \A j, k \in DOMAIN act2[s] : j < k => act2[s][j] < act2[s][k]
             /\ \A k \in DOMAIN act2[s] : act2[s][k] \in DOMAIN tasks'
                                           /\ s \in getActiveStreamIds(act2[s][k])'
             /\ \A n \in DOMAIN tasks' : s \in getActiveStreamIds(n)' =>
                  \E k \in DOMAIN act2[s] : act2[s][k] = n
    BY DEF ActiveTasks
  <2>1. /\ \A j, k \in DOMAIN act[s] : j < k => act[s][j] < act[s][k]
        /\ \A k \in DOMAIN act[s] : act[s][k] \in DOMAIN tasks /\ s \in getActiveStreamIds(act[s][k])
        /\ \A n \in DOMAIN tasks : s \in getActiveStreamIds(n) => \E k \in DOMAIN act[s] : act[s][k] = n
    BY <1>11 DEF ActiveTasks
  <2>2. ASSUME NEW j \in DOMAIN act2[s], NEW k \in DOMAIN act2[s], j < k
        PROVE  act2[s][j] < act2[s][k]
    <3>1. j \in DOMAIN act[s]
      BY <1>12, <2>2
    <3>2. CASE k \in DOMAIN act[s]
      BY <1>12, <2>1, <2>2, <3>1, <3>2
    <3>3. CASE act2[s][k] = new
      BY <1>1, <1>12, <2>1, <3>1, <3>3
    <3> QED BY <1>12, <3>2, <3>3
  <2>3. ASSUME NEW k \in DOMAIN act2[s]
        PROVE  act2[s][k] \in DOMAIN tasks' /\ s \in getActiveStreamIds(act2[s][k])'
    <3>1. CASE k \in DOMAIN act[s]
      BY <1>1, <1>6, <1>12, <2>1, <3>1
    <3>2. CASE s \in S /\ act2[s][k] = new
      BY <1>1, <1>6, <3>2
    <3> QED BY <1>12, <3>1, <3>2
  <2>4. ASSUME NEW n \in DOMAIN tasks', s \in getActiveStreamIds(n)'
        PROVE  \E k \in DOMAIN act2[s] : act2[s][k] = n
    <3>1. CASE n \in DOMAIN tasks
      BY <1>6, <1>12, <2>1, <2>4, <3>1
    <3>2. CASE n = new
      BY <1>6, <1>12, <2>4, <3>2
    <3> QED BY <1>1, <3>1, <3>2
  <2> QED BY <2>2, <2>3, <2>4
<1>15. ASSUME NEW e \in Executors, InUse(e)
       PROVE  InputLine(act2, c, e)' /\ OutputLine(act2, c, e)' /\ HandsLine(act2, c, e)'
              /\ CountLine(act2, c, e)'
  <2> DEFINE s == e[1]
             a == act[s]
             a2 == act2[s]
  <2>1. InputLine(act, c, e) /\ OutputLine(act, c, e) /\ HandsLine(act, c, e) /\ CountLine(act, c, e)
    BY <1>7, <1>15 DEF Lines, CountLines
  <2>2. s \in Streams /\ SameHands(e) /\ (Holds(e) => c[e] \in DOMAIN a) /\ c[e] \in Nat
    BY <1>2, <1>7, <1>11, <1>15, Neighbours, HandsPlace DEF SameHands
  <2>3. /\ Len(a) \in Nat /\ Len(a2) = Len(a) + One(s \in S) /\ DOMAIN a = 1..Len(a)
        /\ \A k \in DOMAIN a : k \in DOMAIN a2 /\ a2[k] = a[k]
        /\ \A k \in DOMAIN a2 : k \in Nat /\ (k \in DOMAIN a \/ (k = Len(a) + 1 /\ a2[k] = new))
        /\ One(s \in S) \in {0, 1} /\ One(FALSE) = 0
    BY <1>12, <2>2 DEF One
  <2>4. \A k \in DOMAIN a : a[k] \in DOMAIN tasks
    BY <1>11, <2>2 DEF ActiveTasks
  <2>5. /\ One(InputDue(s))' = One(s \in S) /\ One(InputDue(s)) = 0
        /\ \A p : One(OutputDue(s, p))' = One(s \in S) /\ One(OutputDue(s, p)) = 0
    BY <1>8, <1>9 DEF One
  <2>6. Len(mInputQueue[e]) \in Nat /\ DOMAIN mInputQueue[e] = 1..Len(mInputQueue[e])
        /\ \A p \in OutPorts(e) : Len(mOutputQueue[p]) \in Nat
                                    /\ DOMAIN mOutputQueue[p] = 1..Len(mOutputQueue[p])
    BY <1>7, PortTypes DEF QueueType
  <2>7. InputLine(act2, c, e)'
    <3> DEFINE l == Len(mInputQueue[e])
    <3>1. c[e] + l <= Len(a)
      BY <2>1 DEF InputLine
    <3>2. c[e] + l <= Len(a2)
      BY <2>2, <2>3, <2>6, <3>1
    <3>3. ASSUME NEW k \in DOMAIN mInputQueue[e]
          PROVE  mInputQueue[e][k] = tasks'[act2[e[1]][c[e] + k]].seq
      <4>1. c[e] + k \in DOMAIN a
        BY <2>2, <2>3, <2>6, <3>1
      <4>2. mInputQueue[e][k] = tasks[a[c[e] + k]].seq
        BY <2>1 DEF InputLine
      <4>3. a2[c[e] + k] = a[c[e] + k] /\ a[c[e] + k] \in DOMAIN tasks
        BY <2>3, <2>4, <4>1
      <4> QED BY <1>1, <4>2, <4>3
    <3>4. CASE IsInputEdge(e)
      <4>1. c[e] + l + 0 = Len(a)
        BY <2>1, <2>5, <3>4 DEF InputLine
      <4>2. c[e] + l + One(InputDue(s))' = Len(a2)
        <5> DEFINE o == One(s \in S)
        <5>1. One(InputDue(s))' = o /\ Len(a2) = Len(a) + o /\ o \in {0, 1}
          BY <2>3, <2>5
        <5>2. l \in Nat
          BY <2>6
        <5> HIDE DEF o, a, a2, l
        <5> QED BY <2>2, <4>1, <5>1, <5>2
      <4>3. c[e] + Len(mInputQueue'[e]) + One(InputDue(e[1]))' = Len(act2[e[1]])
        BY <1>2, <4>2
      <4>4. c[e] + Len(mInputQueue'[e]) <= Len(act2[e[1]])
        BY <1>2, <3>2
      <4>5. \A k \in DOMAIN mInputQueue'[e] : mInputQueue'[e][k] = tasks'[act2[e[1]][c[e] + k]].seq
        BY <1>2, <3>3
      <4> QED BY <3>4, <4>3, <4>4, <4>5 DEF InputLine
    <3>5. CASE ~ IsInputEdge(e)
      <4>1. Kept(Producer(e))' = Kept(Producer(e))
        BY <1>2 DEF Kept
      <4>2. c[e] + l + Kept(Producer(e)) = c[Producer(e)]
        BY <2>1, <3>5 DEF InputLine
      <4>3. c[e] + Len(mInputQueue'[e]) + Kept(Producer(e))' = c[Producer(e)]
        BY <1>2, <4>1, <4>2
      <4>4. c[e] + Len(mInputQueue'[e]) <= Len(act2[e[1]])
        BY <1>2, <3>2
      <4>5. \A k \in DOMAIN mInputQueue'[e] : mInputQueue'[e][k] = tasks'[act2[e[1]][c[e] + k]].seq
        BY <1>2, <3>3
      <4> QED BY <3>5, <4>3, <4>4, <4>5 DEF InputLine
    <3> QED BY <3>4, <3>5
  <2>8. OutputLine(act2, c, e)'
    <3> SUFFICES ASSUME NEW p \in OutPorts(e)
        PROVE  /\ c[e] + Len(mOutputQueue'[p]) + One(OutputDue(e[1], p))' = Len(act2[e[1]])
               /\ \A k \in DOMAIN mOutputQueue'[p] :
                    mOutputQueue'[p][k] = BufferOf(act2[e[1]][c[e] + k], p)'
      BY DEF OutputLine
    <3> DEFINE l == Len(mOutputQueue[p])
    <3>1. c[e] + l + 0 = Len(a)
      BY <2>1, <2>5 DEF OutputLine
    <3>2. c[e] + l + One(OutputDue(s, p))' = Len(a2)
      <4> DEFINE o == One(s \in S)
      <4>1. One(OutputDue(s, p))' = o /\ Len(a2) = Len(a) + o /\ o \in {0, 1}
        BY <2>3, <2>5
      <4>2. l \in Nat
        BY <2>6
      <4> HIDE DEF o, a, a2, l
      <4> QED BY <2>2, <3>1, <4>1, <4>2
    <3>3. ASSUME NEW k \in DOMAIN mOutputQueue[p]
          PROVE  mOutputQueue[p][k] = BufferOf(act2[e[1]][c[e] + k], p)'
      <4>1. c[e] + k \in DOMAIN a
        BY <2>2, <2>3, <2>6, <3>1
      <4>2. mOutputQueue[p][k] = BufferOf(a[c[e] + k], p)
        BY <2>1 DEF OutputLine
      <4>3. a2[c[e] + k] = a[c[e] + k] /\ a[c[e] + k] \in DOMAIN tasks
        BY <2>3, <2>4, <4>1
      <4> QED BY <1>1, <4>2, <4>3 DEF BufferOf
    <3> QED BY <1>2, <3>2, <3>3
  <2>9. HandsLine(act2, c, e)'
    <3> SUFFICES ASSUME Holds(e)' PROVE HandsLine(act2, c, e)'
      BY DEF HandsLine
    <3>1. Holds(e) /\ ex'[e] = ex[e]
      BY <1>2 DEF Holds
    <3>2. a2[c[e]] = a[c[e]] /\ a[c[e]] \in DOMAIN tasks
      BY <2>2, <2>3, <2>4, <3>1
    <3>3. tasks'[a2[c[e]]] = tasks[a[c[e]]]
      BY <1>1, <3>2
    <3> QED BY <2>1, <3>1, <3>2, <3>3 DEF HandsLine, BufferOf
  <2>10. CountLine(act2, c, e)'
    <3> SUFFICES ASSUME IsOutputEdge(e) PROVE CountLine(act2, c, e)'
      BY DEF CountLine
    <3>1. c[e] <= Len(a)
      <4>1. c[e] + Len(mInputQueue[e]) <= Len(a)
        BY <2>1 DEF InputLine
      <4> QED BY <2>2, <2>3, <2>6, <4>1
    <3>2. \A k \in DOMAIN a2 : k > c[e] =>
            a2[k] \notin abandoned' /\ counted'[a2[k]] \cap OutPorts(e) = {}
      <4> SUFFICES ASSUME NEW k \in DOMAIN a2, k > c[e]
          PROVE  a2[k] \notin abandoned' /\ counted'[a2[k]] \cap OutPorts(e) = {}
        OBVIOUS
      <4>1. CASE k \in DOMAIN a
        <5>1. a[k] \notin abandoned /\ counted[a[k]] \cap OutPorts(e) = {}
          BY <2>1, <4>1 DEF CountLine
        <5> QED BY <1>2, <1>5, <2>3, <2>4, <4>1, <5>1
      <4>2. CASE a2[k] = new
        <5>1. new \notin abandoned
          BY <1>1, <1>7 DEF CallInv
        <5> QED BY <1>2, <1>5, <4>2, <5>1
      <4> QED BY <2>3, <4>1, <4>2
    <3>3. \A k \in DOMAIN a2 : (k < c[e] \/ (k = c[e] /\ ~ Holds(e)' /\ ~ ExAt(e, "dead")')) =>
            a2[k] \in abandoned' \/ OutPorts(e) \cap tasks'[a2[k]].ports \subseteq counted'[a2[k]]
      <4> SUFFICES ASSUME NEW k \in DOMAIN a2,
                          k < c[e] \/ (k = c[e] /\ ~ Holds(e)' /\ ~ ExAt(e, "dead")')
          PROVE  a2[k] \in abandoned' \/ OutPorts(e) \cap tasks'[a2[k]].ports \subseteq counted'[a2[k]]
        OBVIOUS
      <4>1. k <= c[e] /\ k \in Nat
        BY <2>2, <2>3
      <4>2. k \in DOMAIN a
        BY <2>2, <2>3, <3>1, <4>1
      <4>3. k < c[e] \/ (k = c[e] /\ ~ Holds(e) /\ ~ ExAt(e, "dead"))
        BY <1>2 DEF Holds, ExAt
      <4>4. a[k] \in abandoned \/ OutPorts(e) \cap tasks[a[k]].ports \subseteq counted[a[k]]
        BY <2>1, <4>2, <4>3 DEF CountLine
      <4>5. a2[k] = a[k] /\ a[k] \in DOMAIN tasks
        BY <2>3, <2>4, <4>2
      <4>6. tasks'[a2[k]] = tasks[a[k]] /\ counted'[a2[k]] = counted[a[k]]
        BY <1>1, <1>5, <4>5
      <4> HIDE DEF a, a2
      <4> QED BY <1>2, <4>4, <4>5, <4>6
    <3>4. ASSUME Holds(e)'
          PROVE  LET n == a2[c[e]]
                 IN  /\ n \notin abandoned'
                     /\ counted'[n] \cap OutPorts(e) =
                          ((OutPorts(e) \cap tasks'[n].ports) \ ex'[e].left)
                            \cup (IF Calls(e)' THEN {CurrentPort(e)'} ELSE {})
                     /\ Calls(e)' => ex'[e].task = n
      <4>1. Holds(e) /\ (Calls(e)' <=> Calls(e)) /\ CurrentPort(e)' = CurrentPort(e)
        BY <1>2, <3>4 DEF Holds, Calls, CurrentPort
      <4>2. a2[c[e]] = a[c[e]] /\ a[c[e]] \in DOMAIN tasks
        BY <2>2, <2>3, <2>4, <4>1
      <4>3. tasks'[a2[c[e]]] = tasks[a[c[e]]] /\ counted'[a2[c[e]]] = counted[a[c[e]]]
        BY <1>1, <1>5, <4>2
      <4> QED BY <1>2, <2>1, <4>1, <4>2, <4>3 DEF CountLine
    <3>5. IsOutputEdge(e)'
      BY DEF IsOutputEdge
    <3> QED BY <3>2, <3>3, <3>4, <3>5 DEF CountLine
  <2> QED BY <2>7, <2>8, <2>9, <2>10
<1>16. Lines(act2, c)' /\ CountLines(act2, c)'
  <2>1. \A e \in Executors : InUse(e)' <=> InUse(e)
    BY <1>2 DEF InUse
  <2> QED BY <1>11, <1>13, <1>14, <1>15, <2>1 DEF Lines, CountLines
<1>17. DagInv(act2, c)'
  BY <1>4, <1>5, <1>10, <1>16 DEF DagInv
<1> QED BY <1>17

-----------------------------------------------------------------------------
(* Start and stop.                                                         *)

\* start() begins with empty queues: what was abandoned or finished is behind every executor.
LEMMA StartKeeps ==
  ASSUME TypeInv, EndInv, NEW act, NEW c, DagInv(act, c), AddedWhileRunning, start
  PROVE  DagInv(act, [e \in Executors |-> Len(act[e[1]])])'
<1> DEFINE c2 == [e \in Executors |-> Len(act[e[1]])]
<1>1. /\ tasks' = tasks /\ mOngoingTasks' = mOngoingTasks /\ ad' = ad
      /\ mInputQueue' = mInputQueue /\ mOutputQueue' = mOutputQueue
      /\ counted' = counted /\ called' = called /\ finished' = finished /\ abandoned' = abandoned
  BY DEF start, taskVars, pipeVars
<1>2. /\ dag.state = "stopped" /\ dag'.state = "running"
      /\ \A e \in Executors : ex'[e].pc = "loop"
  BY StartEffect
<1>3. ad.pc = "idle"
  BY <1>2 DEF AddedWhileRunning
<1>4. \A e \in Executors : /\ ~ Holds(e)' /\ Kept(e)' = 0 /\ ~ Calls(e)' /\ ~ ExAt(e, "callback")'
                           /\ InUse(e)' /\ ~ InUse(e)
  BY <1>2 DEF Holds, HoldPoints, Kept, One, Calls, ExAt, InUse
<1>5. /\ TodoInv /\ JoinInv /\ OngoingInv /\ CallInv
      /\ act \in [Streams -> Seq(Nat)] /\ ActiveTasks(act)
  BY DEF DagInv, Lines
<1>6. \A e \in Executors : mInputQueue[e] = <<>> /\ \A p \in OutPorts(e) : mOutputQueue[p] = <<>>
  BY <1>4, <1>5 DEF JoinInv
<1>7. TodoInv' /\ JoinInv' /\ OngoingInv'
  <2>1. JoinInv'
    BY <1>2, <1>4 DEF JoinInv
  <2> QED BY <1>1, <1>5, <2>1, DueKept, OngoingKept
<1>8. /\ \A s : One(InputDue(s))' = 0
      /\ \A s : \A p : One(OutputDue(s, p))' = 0
  BY <1>1, <1>3 DEF One, InputDue, OutputDue
<1>9. CallInv'
  <2>1. /\ finished \subseteq DOMAIN tasks /\ abandoned \subseteq DOMAIN tasks
        /\ \A n \in finished : counted[n] = tasks[n].ports
    BY <1>5 DEF CallInv
  <2>2. ASSUME NEW n \in DOMAIN tasks, NEW p \in counted[n] \ called[n] PROVE FALSE
    <3>1. PICK e \in Executors : ExAt(e, "callback")
      BY <1>5, <2>2 DEF CallInv
    <3>2. Ended(e)
      BY <1>2 DEF EndInv
    <3> QED BY <3>1, <3>2 DEF ExAt, Ended
  <2> QED BY <1>1, <1>2, <1>4, <2>1, <2>2 DEF CallInv
<1>10. \A s \in Streams : act[s] \in Seq(Nat) /\ Len(act[s]) \in Nat /\ DOMAIN act[s] = 1..Len(act[s])
  BY <1>5
<1>11. ASSUME NEW e \in Executors
       PROVE  InputLine(act, c2, e)' /\ OutputLine(act, c2, e)' /\ HandsLine(act, c2, e)'
              /\ CountLine(act, c2, e)'
  <2>1. e[1] \in Streams /\ c2[e] = Len(act[e[1]]) /\ c2[e] \in Nat
    BY <1>10, Neighbours
  <2>2. ~ IsInputEdge(e) => Producer(e) \in Executors /\ c2[Producer(e)] = c2[e] /\ Kept(Producer(e))' = 0
    BY <1>4, <2>1, Neighbours DEF Producer
  <2>3. mInputQueue'[e] = <<>> /\ \A p \in OutPorts(e) : mOutputQueue'[p] = <<>>
    BY <1>1, <1>6
  <2> HIDE DEF c2
  <2>4. Len(<<>>) = 0 /\ \A k \in DOMAIN <<>> : FALSE
    OBVIOUS
  <2>5. InputLine(act, c2, e)'
    <3>1. c2[e] + Len(mInputQueue'[e]) <= Len(act[e[1]]) /\ c2[e] + Len(mInputQueue'[e]) + 0 = Len(act[e[1]])
      BY <2>1, <2>3, <2>4
    <3>2. IsInputEdge(e) => c2[e] + Len(mInputQueue'[e]) + One(InputDue(e[1]))' = Len(act[e[1]])
      BY <1>8, <3>1
    <3>3. ~ IsInputEdge(e) => c2[e] + Len(mInputQueue'[e]) + Kept(Producer(e))' = c2[Producer(e)]
      BY <2>1, <2>2, <3>1
    <3>4. \A k \in DOMAIN mInputQueue'[e] : mInputQueue'[e][k] = tasks'[act[e[1]][c2[e] + k]].seq
      BY <2>3, <2>4
    <3> QED BY <3>1, <3>2, <3>3, <3>4 DEF InputLine
  <2>6. OutputLine(act, c2, e)'
    <3> SUFFICES ASSUME NEW p \in OutPorts(e)
        PROVE  /\ c2[e] + Len(mOutputQueue'[p]) + One(OutputDue(e[1], p))' = Len(act[e[1]])
               /\ \A k \in DOMAIN mOutputQueue'[p] :
                    mOutputQueue'[p][k] = BufferOf(act[e[1]][c2[e] + k], p)'
      BY DEF OutputLine
    <3>1. c2[e] + Len(mOutputQueue'[p]) + 0 = Len(act[e[1]])
      <4>1. Len(mOutputQueue'[p]) = 0
        BY <2>3, <2>4
      <4> QED BY <2>1, <4>1
    <3>2. c2[e] + Len(mOutputQueue'[p]) + One(OutputDue(e[1], p))' = Len(act[e[1]])
      BY <1>8, <3>1
    <3> QED BY <2>3, <2>4, <3>2
  <2>7. HandsLine(act, c2, e)'
    BY <1>4 DEF HandsLine
  <2>8. CountLine(act, c2, e)'
    <3>1. \A k \in DOMAIN act[e[1]] : ~ (k > c2[e])
      BY <1>10, <2>1
    <3>2. ASSUME NEW k \in DOMAIN act[e[1]]
          PROVE  \/ act[e[1]][k] \in abandoned
                 \/ OutPorts(e) \cap tasks[act[e[1]][k]].ports \subseteq counted[act[e[1]][k]]
      <4>1. act[e[1]][k] \in DOMAIN tasks
        BY <1>5, <2>1 DEF ActiveTasks
      <4>2. /\ abandoned = DOMAIN tasks \ finished
            /\ \A n \in finished : counted[n] = tasks[n].ports
        BY <1>2, <1>5 DEF CallInv
      <4> QED BY <4>1, <4>2
    <3> QED BY <1>1, <1>4, <3>1, <3>2 DEF CountLine
  <2> QED BY <2>5, <2>6, <2>7, <2>8
<1>12. c2 \in [Executors -> Nat]
  BY <1>10, Neighbours
<1> HIDE DEF c2
<1>13. Lines(act, c2)' /\ CountLines(act, c2)'
  <2>1. ActiveTasks(act)'
    BY <1>1, <1>5 DEF ActiveTasks, getActiveStreamIds
  <2> QED BY <1>5, <1>11, <1>12, <2>1 DEF Lines, CountLines
<1>14. DagInv(act, c2)'
  BY <1>7, <1>9, <1>13 DEF DagInv
<1> QED BY <1>14 DEF c2

\* An executor is joined: what comes after it in the pool keeps its frames.
LEMMA JoinKeeps ==
  ASSUME TypeInv, EndInv, NEW act, NEW c, DagInv(act, c), JoinExecutor
  PROVE  DagInv(act, c)'
<1>1. /\ tasks' = tasks /\ mOngoingTasks' = mOngoingTasks /\ ad' = ad /\ ex' = ex
      /\ counted' = counted /\ called' = called /\ finished' = finished
      /\ dag.state = "join" /\ dag \in Dags /\ dag.left \subseteq Executors
  BY DEF JoinExecutor, taskVars, TypeInv, Dags
<1>2. PICK e \in dag.left :
        /\ \A f \in dag.left : ~ Before(f, e)
        /\ Ended(e)
        /\ mInputQueue' = [mInputQueue EXCEPT ![e] = <<>>]
        /\ mOutputQueue' = [p \in Ports |-> IF p \in OutPorts(e) THEN <<>> ELSE mOutputQueue[p]]
        /\ dag' = [dag EXCEPT !.left = @ \ {e},
                              !.state = IF dag.left = {e} THEN "stopped" ELSE @]
        /\ abandoned' = IF dag.left = {e} THEN DOMAIN tasks \ finished ELSE abandoned
  BY DEF JoinExecutor, Ended
<1>3. e \in Executors
  BY <1>1
<1>4. dag'.left = dag.left \ {e} /\ dag'.state = IF dag.left = {e} THEN "stopped" ELSE "join"
  <2> DEFINE left == dag.left \ {e}
             state == IF dag.left = {e} THEN "stopped" ELSE "join"
  <2>1. dag' = [dag EXCEPT !.left = left, !.state = state]
    BY <1>1, <1>2
  <2> HIDE DEF left, state
  <2>2. dag'.left = left /\ dag'.state = state
    BY <1>1, <2>1 DEF Dags
  <2> QED BY <2>2 DEF left, state
<1>5. /\ TodoInv /\ JoinInv /\ OngoingInv /\ CallInv /\ Lines(act, c) /\ CountLines(act, c) /\ QueueType
  BY DEF DagInv, TypeInv
<1>6. /\ mInputQueue'[e] = <<>>
      /\ \A f \in Executors : f # e => mInputQueue'[f] = mInputQueue[f]
      /\ \A p \in OutPorts(e) : mOutputQueue'[p] = <<>>
      /\ \A f \in Executors : f # e => \A p \in OutPorts(f) : mOutputQueue'[p] = mOutputQueue[p]
  <2>1. mInputQueue \in [Executors -> Seq(Sequences0)]
    BY <1>5 DEF QueueType
  <2>2. mInputQueue'[e] = <<>> /\ \A f \in Executors : f # e => mInputQueue'[f] = mInputQueue[f]
    BY <1>2, <1>3, <2>1
  <2>3. \A p \in OutPorts(e) : mOutputQueue'[p] = <<>>
    BY <1>2, <1>3, PortTypes
  <2>4. ASSUME NEW f \in Executors, f # e, NEW p \in OutPorts(f)
        PROVE  mOutputQueue'[p] = mOutputQueue[p]
    <3>1. p \notin OutPorts(e) /\ p \in Ports
      BY <1>3, <2>4, PortOwner, PortTypes
    <3> QED BY <1>2, <3>1
  <2> QED BY <2>2, <2>3, <2>4
<1>7. \A f \in Executors : /\ InUse(f) <=> f \in dag.left
                           /\ InUse(f)' <=> f \in dag.left /\ f # e
  <2>1. \A f \in Executors : InUse(f)' <=> dag'.state = "join" /\ f \in dag'.left
    BY <1>4 DEF InUse
  <2>2. \A f \in Executors : InUse(f) <=> f \in dag.left
    BY <1>1 DEF InUse
  <2> QED BY <1>4, <2>1, <2>2
<1>8. TodoInv' /\ OngoingInv'
  BY <1>1, <1>5, DueKept, OngoingKept
<1>9. JoinInv'
  <2>1. \A f \in Executors : ~ InUse(f)' =>
           mInputQueue'[f] = <<>> /\ \A p \in OutPorts(f) : mOutputQueue'[p] = <<>>
    BY <1>5, <1>6, <1>7 DEF JoinInv
  <2>2. ASSUME NEW g \in dag'.left, NEW f \in Executors, Before(g, f)
        PROVE  f \in dag'.left
    <3>1. g \in dag.left
      BY <1>4, <2>2
    <3>2. f \in dag.left
      BY <1>1, <1>5, <2>2, <3>1 DEF JoinInv
    <3>3. f # e
      BY <1>2, <2>2, <3>1
    <3> QED BY <1>4, <3>2, <3>3
  <2> QED BY <2>1, <2>2 DEF JoinInv
<1>10. \A f \in Executors : SameHands(f)
  BY <1>1 DEF SameHands
<1>11. CallInv'
  <2>1. CASE dag.left # {e}
    BY <1>1, <1>2, <1>4, <1>5, <1>10, <2>1, CallsKept
  <2>2. CASE dag.left = {e}
    <3>1. \A f \in Executors : Ended(f)
      BY <1>1, <1>2, <2>2 DEF EndInv
    <3>2. \A f \in Executors : ~ Calls(f) /\ ~ ExAt(f, "callback")
      BY <3>1 DEF Ended, Calls, ExAt
    <3>3. \A f \in Executors : ~ Calls(f)' /\ ~ ExAt(f, "callback")'
      BY <1>1, <3>2 DEF Calls, ExAt
    <3>4. /\ finished \subseteq DOMAIN tasks
          /\ \A n \in finished : counted[n] = tasks[n].ports
          /\ \A n \in DOMAIN tasks : \A p \in counted[n] \ called[n] : FALSE
      BY <1>5, <3>2 DEF CallInv
    <3> QED BY <1>1, <1>2, <2>2, <3>3, <3>4 DEF CallInv
  <2> QED BY <2>1, <2>2
<1>12. ASSUME NEW f \in Executors, f \in dag.left, f # e
       PROVE  InputLine(act, c, f)' /\ OutputLine(act, c, f)' /\ HandsLine(act, c, f)'
              /\ CountLine(act, c, f)'
  <2>1. InputLine(act, c, f) /\ OutputLine(act, c, f) /\ HandsLine(act, c, f) /\ CountLine(act, c, f)
    BY <1>5, <1>7, <1>12 DEF Lines, CountLines
  <2>2. Kept(Producer(f))' = Kept(Producer(f))
    BY <1>1 DEF Kept
  <2>3. /\ One(InputDue(f[1]))' = One(InputDue(f[1]))
        /\ \A p \in OutPorts(f) : One(OutputDue(f[1], p))' = One(OutputDue(f[1], p))
    BY <1>1, DueKept
  <2>4. InputLine(act, c, f)'
    BY <1>1, <1>6, <1>12, <2>1, <2>2, <2>3, InputKept
  <2>5. OutputLine(act, c, f)'
    BY <1>1, <1>6, <1>12, <2>1, <2>3, OutputKept
  <2>6. HandsLine(act, c, f)'
    BY <1>1, <1>10, <2>1, HandsKept
  <2>7. CountLine(act, c, f)'
    <3>1. f[1] \in Streams /\ (Holds(f) => c[f] \in DOMAIN act[f[1]]) /\ ActiveTasks(act)
      BY <1>5, <1>7, <1>12, HandsPlace, Neighbours DEF Lines
    <3>2. abandoned' = abandoned
      BY <1>2, <1>12
    <3>3. \A n \in DOMAIN tasks : /\ counted'[n] \cap OutPorts(f) = counted[n] \cap OutPorts(f)
                                  /\ n \in abandoned' <=> n \in abandoned
      BY <1>1, <3>2
    <3> QED BY <1>1, <1>10, <2>1, <3>1, <3>3, CountsKept
  <2> QED BY <2>4, <2>5, <2>6, <2>7
<1>13. Lines(act, c)' /\ CountLines(act, c)'
  <2>1. act \in [Streams -> Seq(Nat)] /\ c \in [Executors -> Nat] /\ ActiveTasks(act)'
    BY <1>1, <1>5 DEF Lines, ActiveTasks, getActiveStreamIds
  <2> QED BY <1>7, <1>12, <2>1 DEF Lines, CountLines
<1> QED BY <1>8, <1>9, <1>11, <1>13 DEF DagInv

\* Before the first start nothing is active.
LEMMA InitOrder ==
  ASSUME Init
  PROVE  \E act, c : DagInv(act, c)
<1> DEFINE act == [s \in Streams |-> <<>>]
           c == [e \in Executors |-> 0]
<1>1. /\ tasks = <<>> /\ mOngoingTasks = <<>> /\ ad.pc = "idle"
      /\ \A e \in Executors : ex[e].pc = "exited" /\ mInputQueue[e] = <<>>
      /\ \A p \in Ports : mOutputQueue[p] = <<>>
      /\ dag.state = "stopped"
      /\ counted = <<>> /\ called = <<>> /\ finished = {} /\ abandoned = {}
  BY DEF Init, IdleExecutor, IdleAdder
<1>2. TodoInv
  BY <1>1 DEF TodoInv
<1>3. JoinInv
  BY <1>1, PortTypes DEF JoinInv
<1>4. DOMAIN <<>> = {} /\ <<>> \in Seq(SUBSET Ports) /\ <<>> \in Seq(Nat)
  OBVIOUS
<1>5. OngoingInv
  BY <1>1, <1>4 DEF OngoingInv
<1>6. CallInv
  <2>1. \A e \in Executors : ~ Calls(e) /\ ~ ExAt(e, "callback")
    BY <1>1 DEF Calls, ExAt
  <2> QED BY <1>1, <1>4, <2>1 DEF CallInv
<1>7. \A e \in Executors : ~ InUse(e)
  BY <1>1 DEF InUse
<1>8. ActiveTasks(act)
  BY <1>1, <1>4 DEF ActiveTasks
<1>9. act \in [Streams -> Seq(Nat)] /\ c \in [Executors -> Nat]
  BY <1>4
<1> HIDE DEF act, c
<1>10. Lines(act, c) /\ CountLines(act, c)
  BY <1>7, <1>8, <1>9 DEF Lines, CountLines
<1> QED BY <1>2, <1>3, <1>5, <1>6, <1>10 DEF DagInv

-----------------------------------------------------------------------------
(* The order of the frames is kept.                                        *)

\* Every step keeps the order, unless a task is added while the DAG stops.
LEMMA OrderKept ==
  ASSUME IInv, [Next]_vars, UsedOnce, AddedWhileRunning, AddedWhileRunning',
         NEW act, NEW c, DagInv(act, c)
  PROVE  \E a, b : DagInv(a, b)'
<1>1. TypeInv /\ EndInv
  BY DEF IInv
<1>2. CASE UNCHANGED vars
  BY <1>1, <1>2, QuietStutter, QuietKeeps
<1>3. CASE AddTask
  BY <1>1, <1>3, AddKeeps
<1>4. CASE AddingThread
  BY <1>1, <1>4, AdaptKeeps, InputKeeps, OutputKeeps DEF AddingThread
<1>5. CASE \E e \in Executors : ExecutorStep(e) \/ RunFails(e)
  <2>1. PICK e \in Executors : ExecutorStep(e) \/ RunFails(e)
    BY <1>5
  <2>2. CASE Fetch(e)
    BY <1>1, <2>2, FetchKeeps
  <2>3. CASE ThreadExits(e) \/ WaitPolicy(e) \/ WaitTimesOut(e) \/ GetPal(e) \/ ReturnInput(e)
    BY <1>1, <2>3, QuietExecutor, QuietKeeps
  <2>4. CASE NotifyConsumer(e)
    BY <1>1, <2>4, NotifyKeeps
  <2>5. CASE onFrameDone(e)
    BY <1>1, <2>5, FrameDoneKeeps
  <2>6. CASE BufferDone(e)
    BY <1>1, <2>6, BufferDoneKeeps
  <2>7. CASE returnBuffers(e)
    BY <1>1, <2>7, ReturnBuffersKeeps
  <2>8. CASE RunFails(e)
    BY <1>1, <2>8, FailKeeps
  <2> QED BY <2>1, <2>2, <2>3, <2>4, <2>5, <2>6, <2>7, <2>8 DEF ExecutorStep
<1>6. CASE setActive \/ stopProcessing \/ notifyStop
  BY <1>1, <1>6, QuietControl, QuietKeeps
<1>7. CASE start
  BY <1>1, <1>7, StartKeeps
<1>8. CASE JoinExecutor
  BY <1>1, <1>8, JoinKeeps
<1> QED BY <1>2, <1>3, <1>4, <1>5, <1>6, <1>7, <1>8 DEF Next, Stopping

\* The order of the frames can be told.
OrderInv == \E act, c : DagInv(act, c)

\* The invariant is inductive under the two hypotheses.
LEMMA OrderStep ==
  IInv /\ [Next]_vars /\ UsedOnce /\ AddedWhileRunning /\ AddedWhileRunning' /\ OrderInv
    => OrderInv'
  BY OrderKept DEF OrderInv

\* The order of the frames is an invariant of the runs that the hypotheses name.
LEMMA OrderInvariance == Spec /\ []UsedOnce /\ []AddedWhileRunning => []OrderInv
<1>1. Init => OrderInv
  BY InitOrder DEF OrderInv
<1> QED BY <1>1, OrderStep, Invariance, PTL DEF Spec

\* onFrameDone() finds a task for every buffer that an executor returns, in every execution
\* in which no user buffer is queued again before the task that has it is through, and in
\* which no task is added while stop() is at work.
THEOREM BuffersFindTheirTask ==
  Spec /\ []UsedOnce /\ []AddedWhileRunning => []BufferFindsTask
<1>1. IInv /\ UsedOnce /\ OrderInv => BufferFindsTask
  <2> SUFFICES ASSUME TypeInv, EndInv, UsedOnce, NEW act, NEW c, DagInv(act, c),
                      NEW e \in Executors, AtFrameDone(e)
      PROVE  TaskOf(e, CurrentPort(e)) # {}
    BY DEF IInv, OrderInv, BufferFindsTask
  <2> QED BY FoundTask
<1> QED BY <1>1, OrderInvariance, Invariance, PTL

-----------------------------------------------------------------------------
(* What TaskPipeline promises.                                             *)

\* What the mapping gives for added
AddedPorts == [n \in DOMAIN tasks |-> tasks[n].ports]

\* A stuttering step of the pipeline
PipeSame == tasks' = tasks /\ pipeVars' = pipeVars

\* An earlier task with a buffer for the port that an executor returns was returned on this
\* port before, or was abandoned.
LEMMA EarlierFirst ==
  ASSUME TypeInv, NEW act, NEW c, DagInv(act, c), NEW e \in Executors, IsOutputEdge(e), InUse(e),
         c[e] \in DOMAIN act[e[1]], NEW p \in OutPorts(e),
         NEW m \in DOMAIN tasks, m < act[e[1]][c[e]], p \in tasks[m].ports, m \notin abandoned
  PROVE  p \in counted[m]
<1> DEFINE s == e[1]
           a == act[s]
<1>1. s \in Streams /\ p \in PortsOf[s]
  BY Neighbours DEF OutPorts
<1>2. s \in getActiveStreamIds(m)
  BY <1>1 DEF getActiveStreamIds, StreamsOf
<1>3. a \in Seq(Nat) /\ c[e] \in Nat
  BY <1>1 DEF DagInv, Lines
<1>4. /\ \A j, k \in DOMAIN a : j < k => a[j] < a[k]
      /\ \E k \in DOMAIN a : a[k] = m
  BY <1>1, <1>2 DEF DagInv, Lines, ActiveTasks
<1>5. PICK k \in DOMAIN a : a[k] = m
  BY <1>4
<1>6. a[c[e]] \in Nat /\ a[k] \in Nat /\ k \in Nat
  <2>1. c[e] \in DOMAIN a
    OBVIOUS
  <2> HIDE DEF a
  <2> QED BY <1>3, <1>5, <2>1
<1>7. k < c[e]
  <2>1. ASSUME k = c[e] PROVE FALSE
    BY <1>5, <1>6, <2>1
  <2>2. ASSUME c[e] < k PROVE FALSE
    <3>1. a[c[e]] < a[k]
      BY <1>4, <2>2
    <3> QED BY <1>5, <1>6, <3>1
  <2> QED BY <1>3, <1>6, <2>1, <2>2
<1>8. a[k] \in abandoned \/ OutPorts(e) \cap tasks[a[k]].ports \subseteq counted[a[k]]
  BY <1>5, <1>7 DEF DagInv, CountLines, CountLine
<1> QED BY <1>5, <1>8

\* addTask
LEMMA AddPipeline ==
  ASSUME TypeInv, NEW act, NEW c, DagInv(act, c), AddTask
  PROVE  Pipeline!AddTask
<1>0. PICK new \in Nat : new = Newest + 1
  BY TaskAdded
<1>1. PICK kind \in (SUBSET Ports) \ {{}}, v \in Sequences0 :
        /\ tasks' = Append(tasks, [ports |-> kind, seq |-> v])
        /\ new \in Nat /\ DOMAIN tasks' = DOMAIN tasks \cup {new} /\ Newest' = new
        /\ \A n \in DOMAIN tasks : n \in Nat /\ n < new /\ tasks'[n] = tasks[n]
        /\ tasks'[new].ports = kind
  BY <1>0, TaskAdded
<1>2. /\ counted' = Append(counted, {}) /\ called' = Append(called, {})
      /\ finished' = finished /\ abandoned' = abandoned
  BY DEF AddTask
<1>3. DOMAIN tasks = 1..Newest /\ Newest \in Nat
  <2>1. tasks \in Seq([ports : SUBSET Ports, seq : Sequences0])
    BY DEF TypeInv, TaskInv, TaskType
  <2> QED BY <2>1 DEF Newest
<1>4. AddedPorts \in Seq(SUBSET Ports) /\ Len(AddedPorts) = Newest
      /\ \A n \in 1..Newest : AddedPorts[n] = tasks[n].ports
  <2>1. AddedPorts \in [1..Newest -> SUBSET Ports]
    BY <1>3, TaskPorts DEF AddedPorts
  <2>2. AddedPorts \in Seq(SUBSET Ports)
    BY <1>3, <2>1
  <2>3. Len(AddedPorts) = Newest
    BY <1>3, <2>1
  <2> QED BY <1>3, <2>2, <2>3 DEF AddedPorts
<1>5. AddedPorts' = Append(AddedPorts, kind)
  <2> DEFINE a == AddedPorts
             b == Append(a, kind)
             d == AddedPorts'
  <2>1. /\ b \in Seq(SUBSET Ports) /\ Len(b) = Newest + 1 /\ b[Newest + 1] = kind
        /\ \A n \in 1..Newest : b[n] = a[n]
    <3> HIDE DEF a
    <3> QED BY <1>1, <1>3, <1>4 DEF a
  <2>2. d = [n \in DOMAIN tasks' |-> tasks'[n].ports]
    BY DEF AddedPorts
  <2>3. DOMAIN tasks' = 1..(Newest + 1)
    BY <1>0, <1>1, <1>3
  <2>4. b \in [1..(Newest + 1) -> SUBSET Ports]
    <3> HIDE DEF b
    <3> QED BY <1>3, <2>1
  <2>5. \A n \in 1..(Newest + 1) : tasks'[n].ports = b[n]
    <3> SUFFICES ASSUME NEW n \in 1..(Newest + 1) PROVE tasks'[n].ports = b[n]
      OBVIOUS
    <3> HIDE DEF b, a
    <3>1. CASE n = Newest + 1
      BY <1>0, <1>1, <2>1, <3>1
    <3>2. CASE n # Newest + 1
      <4>1. n \in 1..Newest
        BY <1>3, <3>2
      <4> QED BY <1>1, <1>3, <1>4, <2>1, <4>1 DEF a
    <3> QED BY <3>1, <3>2
  <2> HIDE DEF b, d
  <2>6. b = [n \in 1..(Newest + 1) |-> b[n]]
    BY <2>4
  <2>7. d = [n \in 1..(Newest + 1) |-> b[n]]
    BY <2>2, <2>3, <2>5
  <2> QED BY <2>6, <2>7 DEF b, d
<1> QED BY <1>1, <1>2, <1>5 DEF Pipeline!AddTask, AddedPorts

\* onFrameDone, with the lock
LEMMA CountPipeline ==
  ASSUME TypeInv, EndInv, NEW act, NEW c, DagInv(act, c), UsedOnce,
         NEW e \in Executors, onFrameDone(e)
  PROVE  \E n \in DOMAIN tasks : \E p \in Ports : Pipeline!CountBuffer(n, p)
<1>0. AtFrameDone(e)
  BY DEF onFrameDone
<1>1. PICK n \in DOMAIN tasks, p \in Ports : n = act[e[1]][c[e]] /\ p = CurrentPort(e)
  BY <1>0, FoundTask, PortTypes
<1>2. /\ IsOutputEdge(e) /\ InUse(e) /\ p \in OutPorts(e) /\ p \in tasks[n].ports
      /\ c[e] \in DOMAIN act[e[1]] /\ p \notin counted[n] /\ n \notin abandoned
  BY <1>0, <1>1, FoundTask
<1>3. counted' = [counted EXCEPT ![n] = @ \cup {p}]
  BY <1>1, FrameDoneFinds
<1>4. tasks' = tasks /\ called' = called /\ finished' = finished /\ abandoned' = abandoned
  BY DEF onFrameDone
<1>5. AddedPorts' = AddedPorts /\ \A m \in DOMAIN tasks : AddedPorts[m] = tasks[m].ports
  BY <1>4 DEF AddedPorts
<1>6. \A m \in 1..(n - 1) : m \in DOMAIN tasks /\ m < n
  <2>1. tasks \in Seq([ports : SUBSET Ports, seq : Sequences0])
    BY DEF TypeInv, TaskInv, TaskType
  <2> QED BY <2>1
<1>7. \A m \in 1..(n - 1) : p \in AddedPorts[m] /\ m \notin abandoned => p \in counted[m]
  BY <1>1, <1>2, <1>5, <1>6, EarlierFirst
<1>8. Pipeline!CountBuffer(n, p)
  BY <1>2, <1>3, <1>4, <1>5, <1>7 DEF Pipeline!CountBuffer, Pipeline!FirstOn, AddedPorts
<1> QED BY <1>8

\* onFrameDone, the callback for a buffer
LEMMA DonePipeline ==
  ASSUME TypeInv, EndInv, NEW act, NEW c, DagInv(act, c), NEW e \in Executors, BufferDone(e)
  PROVE  \E n \in DOMAIN tasks : \E p \in Ports : Pipeline!BufferDone(n, p)
<1>0. Calls(e) /\ ExAt(e, "callback")
  BY DEF BufferDone, ExAt, Calls
<1>1. PICK n \in DOMAIN tasks, p \in Ports : n = ex[e].task /\ p = CurrentPort(e)
  BY <1>0, CallsTask, PortTypes
<1>2. /\ IsOutputEdge(e) /\ InUse(e) /\ p \in OutPorts(e) /\ n = act[e[1]][c[e]]
      /\ c[e] \in DOMAIN act[e[1]] /\ p \in counted[n] /\ n \notin abandoned
  BY <1>0, <1>1, CallsTask
<1>3. p \notin called[n]
  BY <1>0, <1>1 DEF DagInv, CallInv, ExAt
<1>4. /\ tasks' = tasks /\ counted' = counted /\ finished' = finished /\ abandoned' = abandoned
      /\ called' = [called EXCEPT ![n] = @ \cup {p}]
  BY <1>1 DEF BufferDone, taskVars
<1>5. AddedPorts' = AddedPorts /\ \A m \in DOMAIN tasks : AddedPorts[m] = tasks[m].ports
  BY <1>4 DEF AddedPorts
<1>6. \A m \in 1..(n - 1) : m \in DOMAIN tasks /\ m < n /\ m # n
  <2>1. tasks \in Seq([ports : SUBSET Ports, seq : Sequences0])
    BY DEF TypeInv, TaskInv, TaskType
  <2> QED BY <2>1
<1>7. ASSUME NEW m \in 1..(n - 1), p \in AddedPorts[m], m \notin abandoned
      PROVE  p \in called[m]
  <2>1. p \in counted[m] /\ m \in DOMAIN tasks /\ m # n
    BY <1>2, <1>5, <1>6, <1>7, EarlierFirst
  <2> SUFFICES ASSUME p \notin called[m] PROVE FALSE
    OBVIOUS
  <2>2. PICK f \in Executors : ExAt(f, "callback") /\ ex[f].task = m /\ CurrentPort(f) = p
    BY <2>1 DEF DagInv, CallInv
  <2>3. Calls(f)
    BY <2>2 DEF ExAt, Calls
  <2>4. p \in OutPorts(f)
    BY <2>2, <2>3, CallsTask
  <2>5. f = e
    BY <1>2, <2>4, PortOwner
  <2> QED BY <1>1, <2>1, <2>2, <2>5
<1>8. Pipeline!BufferDone(n, p)
  BY <1>2, <1>3, <1>4, <1>5, <1>7 DEF Pipeline!BufferDone, Pipeline!FirstOn, AddedPorts
<1> QED BY <1>8

\* returnBuffers
LEMMA ReturnPipeline ==
  ASSUME TypeInv, EndInv, NEW act, NEW c, DagInv(act, c), NEW e \in Executors, returnBuffers(e)
  PROVE  \E n \in DOMAIN tasks : Pipeline!FrameDone(n)
<1>0. Calls(e) /\ ex[e].pc = "task"
  BY DEF returnBuffers, ExAt, Calls
<1>1. PICK n \in DOMAIN tasks : n = ex[e].task /\ n \notin abandoned
  BY <1>0, CallsTask
<1>2. n \notin finished /\ counted[n] = tasks[n].ports /\ called[n] # {}
  BY <1>0, <1>1 DEF DagInv, CallInv
<1>3. /\ tasks' = tasks /\ counted' = counted /\ called' = called /\ abandoned' = abandoned
      /\ finished' = finished \cup {n}
  BY <1>1 DEF returnBuffers, taskVars
<1>4. AddedPorts' = AddedPorts /\ AddedPorts[n] = tasks[n].ports
  BY <1>3 DEF AddedPorts
<1>5. Pipeline!FrameDone(n)
  BY <1>1, <1>2, <1>3, <1>4 DEF Pipeline!FrameDone, AddedPorts
<1> QED BY <1>5

\* The last executor is joined: no callback is under way.
LEMMA StopPipeline ==
  ASSUME TypeInv, EndInv, NEW act, NEW c, DagInv(act, c), JoinExecutor
  PROVE  PipeSame \/ Pipeline!Stop
<1>1. /\ tasks' = tasks /\ counted' = counted /\ called' = called /\ finished' = finished
      /\ dag.state = "join"
  BY DEF JoinExecutor, taskVars
<1>2. PICK e \in dag.left :
        /\ Ended(e)
        /\ abandoned' = IF dag.left = {e} THEN DOMAIN tasks \ finished ELSE abandoned
  BY DEF JoinExecutor, Ended
<1>3. CASE dag.left # {e}
  BY <1>1, <1>2, <1>3 DEF PipeSame, pipeVars
<1>4. CASE dag.left = {e}
  <2>1. \A f \in Executors : Ended(f)
    BY <1>1, <1>2, <1>4 DEF EndInv
  <2>2. \A f \in Executors : ~ ExAt(f, "callback")
    BY <2>1 DEF Ended, ExAt
  <2>3. \A n \in DOMAIN tasks : \A p \in counted[n] \ called[n] : FALSE
    BY <2>2 DEF DagInv, CallInv
  <2>4. \A n \in DOMAIN tasks : called[n] \subseteq counted[n]
    BY DEF DagInv, OngoingInv
  <2>5. \A n \in finished : counted[n] = tasks[n].ports
    BY DEF DagInv, CallInv
  <2>6. \A n \in DOMAIN tasks : n \in finished => called[n] = tasks[n].ports
    BY <2>3, <2>4, <2>5
  <2>7. AddedPorts' = AddedPorts /\ DOMAIN AddedPorts = DOMAIN tasks
        /\ \A n \in DOMAIN tasks : AddedPorts[n] = tasks[n].ports
    BY <1>1 DEF AddedPorts
  <2>8. Pipeline!Stop
    BY <1>1, <1>2, <1>4, <2>6, <2>7 DEF Pipeline!Stop, AddedPorts
  <2> QED BY <2>8
<1> QED BY <1>3, <1>4

\* Every step is one of the pipeline, or changes nothing of it.
LEMMA PipelineStep ==
  ASSUME IInv, [Next]_vars, UsedOnce, NEW act, NEW c, DagInv(act, c)
  PROVE  [Pipeline!Next]_(Pipeline!vars)
<1>1. TypeInv /\ EndInv
  BY DEF IInv
<1>2. DOMAIN AddedPorts = DOMAIN tasks
  BY DEF AddedPorts
<1>3. ASSUME PipeSame PROVE Pipeline!vars' = Pipeline!vars
  BY <1>3 DEF PipeSame, pipeVars, Pipeline!vars
<1>4. CASE UNCHANGED vars
  BY <1>3, <1>4 DEF vars, taskVars, PipeSame
<1>5. CASE AddTask
  <2>1. Pipeline!AddTask
    BY <1>1, <1>5, AddPipeline
  <2> QED BY <2>1 DEF Pipeline!Next
<1>6. CASE AddingThread
  <2>1. PipeSame
    BY <1>6 DEF AddingThread, PalDone, runIspAdapt, PalWritten, QueueInput, QueueOutput, taskVars,
                PipeSame
  <2> QED BY <1>3, <2>1
<1>7. CASE \E e \in Executors : ExecutorStep(e) \/ RunFails(e)
  <2>1. PICK e \in Executors : ExecutorStep(e) \/ RunFails(e)
    BY <1>7
  <2>2. CASE \/ Fetch(e) \/ ThreadExits(e) \/ WaitPolicy(e) \/ WaitTimesOut(e) \/ GetPal(e)
             \/ NotifyConsumer(e) \/ ReturnInput(e) \/ RunFails(e)
    <3>1. PipeSame
      BY <2>2 DEF Fetch, ThreadExits, WaitPolicy, WaitTimesOut, GetPal, NotifyConsumer, ReturnInput,
                  RunFails, taskVars, PipeSame
    <3> QED BY <1>3, <3>1
  <2>3. CASE onFrameDone(e)
    <3>1. \E n \in DOMAIN tasks : \E p \in Ports : Pipeline!CountBuffer(n, p)
      BY <1>1, <2>3, CountPipeline
    <3> QED BY <1>2, <3>1 DEF Pipeline!Next, AddedPorts
  <2>4. CASE BufferDone(e)
    <3>1. \E n \in DOMAIN tasks : \E p \in Ports : Pipeline!BufferDone(n, p)
      BY <1>1, <2>4, DonePipeline
    <3> QED BY <1>2, <3>1 DEF Pipeline!Next, AddedPorts
  <2>5. CASE returnBuffers(e)
    <3>1. \E n \in DOMAIN tasks : Pipeline!FrameDone(n)
      BY <1>1, <2>5, ReturnPipeline
    <3> QED BY <1>2, <3>1 DEF Pipeline!Next, AddedPorts
  <2> QED BY <2>1, <2>2, <2>3, <2>4, <2>5 DEF ExecutorStep
<1>8. CASE setActive \/ start \/ stopProcessing \/ notifyStop
  <2>1. PipeSame
    BY <1>8 DEF setActive, start, stopProcessing, notifyStop, taskVars, PipeSame
  <2> QED BY <1>3, <2>1
<1>9. CASE JoinExecutor
  <2>1. PipeSame \/ Pipeline!Stop
    BY <1>1, <1>9, StopPipeline
  <2> QED BY <1>3, <2>1 DEF Pipeline!Next
<1> QED BY <1>4, <1>5, <1>6, <1>7, <1>8, <1>9 DEF Next, Stopping

\* So does every step while the order is kept.
LEMMA PipelineSteps ==
  IInv /\ [Next]_vars /\ UsedOnce /\ OrderInv => [Pipeline!Next]_(Pipeline!vars)
  BY PipelineStep DEF OrderInv

\* PSysDAG keeps the promises of TaskPipeline under the same two hypotheses: the buffers of a
\* port come back in the order of the tasks and once each, a task comes back once, when all its
\* buffers are counted, and stop() drops exactly the tasks that have not come back.
THEOREM PipelineKept == Spec /\ []UsedOnce /\ []AddedWhileRunning => ImplementsPipeline
<1>1. Init => Pipeline!Init
  <2> SUFFICES ASSUME Init PROVE Pipeline!Init
    OBVIOUS
  <2>1. tasks = <<>> /\ counted = <<>> /\ called = <<>> /\ finished = {} /\ abandoned = {}
    BY DEF Init
  <2>2. AddedPorts = <<>>
    BY <2>1 DEF AddedPorts
  <2> QED BY <2>1, <2>2 DEF Pipeline!Init, AddedPorts
<1> QED BY <1>1, PipelineSteps, OrderInvariance, Invariance, PTL
       DEF Spec, ImplementsPipeline, Pipeline!Spec

-----------------------------------------------------------------------------
(* The parameters of the frames in work.  A frame is run with a buffer of    *)
(* the parameter queue of its stream; the queue is told by what the tasks    *)
(* that prepareIpuParams is through with left in it.                        *)

\* The parameter queue has a buffer for each task in work, the PAL is run when it runs again
\* for a sequence, and the sequences of the tasks do not go back.
PalAssumption ==
    /\ MaxInflight <= PalSize
    /\ NotRun["again"] = {}
    /\ SequenceSteps \subseteq Nat

\* prepareIpuParams has still to go through a stream of the newest task
PalDue(s) == ad.pc \in {"adapt", "write"} /\ s \in ad.todo
\* The tasks that are active on a stream, those it is through with, and the ones after n
ActiveOn(s) == {n \in DOMAIN tasks : s \in getActiveStreamIds(n)}
Adapted(s) == {n \in ActiveOn(s) : PalDue(s) => n # Newest}
Later(s, n) == {m \in Adapted(s) : m > n}

\* The sequences do not go back, and there is a limit of tasks.
SeqsGrow == \A m, n \in DOMAIN tasks : m <= n => tasks[m].seq <= tasks[n].seq
FewTasks == Len(mOngoingTasks) <= MaxInflight

\* mSequenceToDataMap: the buffers, under different keys; a key is the sequence of a task, or
\* the one configure() left
DataInv(s) ==
    LET data == ispParam[s].data
    IN  /\ IsFiniteSet(data) /\ Cardinality(data) = PalSize
        /\ \A a, b \in data : a.key = b.key \/ a.buf = b.buf => a = b
        /\ \A a \in data : a.valid <=> a.key >= -1
        /\ \A a \in data : a.key >= 0 => \E n \in Adapted(s) : tasks[n].seq = a.key
        /\ \E a \in data : a.key >= -1

\* The data to use for a sequence: its own, or the last before it when the PAL did not run
LastBefore(data, key, seq) == \A a \in data : a.key <= key \/ a.key > seq
IdsInv(s) ==
    LET ids == ispParam[s].ids
    IN  /\ IsFiniteSet(DOMAIN ids)
        /\ \A x \in DOMAIN ids :
             /\ x = -1 \/ \E n \in Adapted(s) : tasks[n].seq = x
             /\ ids[x] \in -1..x /\ (ids[x] = x \/ x \in NotRun["new"])
             /\ LastBefore(ispParam[s].data, ids[x], x)

\* Both maps still have what a frame needs that is among the last PalSize of its stream, ...
Found(s, q) == q \in DOMAIN ispParam[s].ids /\ ispParam[s].ids[q] \in Keys(ispParam[s])
WindowInv(s) == \A n \in Adapted(s) :
    Cardinality(Later(s, n)) < PalSize => Found(s, tasks[n].seq)
\* ... or whose sequence is the newest one and is entered in mOngoingPalMap.
PalMapInv(s) == \A q \in Sequences0 : s \in mOngoingPalMap[q] =>
    q <= LastSequence /\ (q = LastSequence => Found(s, q))

\* The process thread writes the buffer it has chosen.
WriteInv == ad.pc = "write" => ad.node = NodeToWrite(ispParam[Min(ad.todo)], LastSequence)

\* An executor runs with a buffer of the queue: the one of its sequence, or the last before it.
PalOf(e) ==
    LET pal == ex[e].pal
        seq == ex[e].seq
        data == ispParam[e[1]].data
    IN  /\ pal \in data /\ pal.valid /\ pal.key <= seq
        /\ pal.key = seq \/ seq \in NotRun["new"]
        /\ LastBefore(data, pal.key, seq)
PalsInv == \A e \in Executors : ExAt(e, "run") => PalOf(e)

StreamInv(s) == DataInv(s) /\ IdsInv(s) /\ WindowInv(s) /\ PalMapInv(s)
ParamInv == SeqsGrow /\ FewTasks /\ WriteInv /\ PalsInv /\ \A s \in Streams : StreamInv(s)

-----------------------------------------------------------------------------
(* Counting.                                                               *)

\* Max() is the greatest element of a set of integers with an upper bound.
LEMMA MaxOfKeys ==
  ASSUME NEW S \in SUBSET Int, S # {}, NEW b \in Int, \A y \in S : y <= b
  PROVE  Max(S) \in S /\ \A y \in S : y <= Max(S)
<1> DEFINE T == {t \in Nat : b - t \in S}
<1>1. ASSUME NEW y \in S PROVE b - y \in T /\ b - (b - y) = y
  <2>1. y <= b /\ y \in Int
    OBVIOUS
  <2>2. b - y \in Nat /\ b - (b - y) = y
    BY <2>1
  <2> QED BY <2>2
<1>2. T # {}
  BY <1>1
<1>3. PICK t \in T : \A u \in T : t <= u
  BY <1>2, LeastNatural
<1>4. b - t \in S /\ t \in Nat
  OBVIOUS
<1>5. ASSUME NEW y \in S PROVE b - t >= y
  <2>1. t <= b - y /\ y \in Int
    BY <1>1, <1>3
  <2> QED BY <1>4, <2>1
<1>6. \E x \in S : \A y \in S : x >= y
  BY <1>4, <1>5
<1>7. Max(S) \in S /\ \A y \in S : Max(S) >= y
  BY <1>6 DEF Max
<1>8. \A y \in S : y \in Int /\ Max(S) \in Int
  BY <1>7
<1> QED BY <1>7, <1>8

\* A set with a place of its own in a finite set for each element is no larger.
LEMMA NoMore ==
  ASSUME NEW S, NEW T, IsFiniteSet(T), NEW f \in [S -> T],
         \A x, y \in S : f[x] = f[y] => x = y
  PROVE  IsFiniteSet(S) /\ Cardinality(S) <= Cardinality(T)
<1>1. f \in Injection(S, T)
  BY DEF Injection, IsInjective
<1> QED BY <1>1, FS_Injection

\* The tasks of a stream are finitely many.
LEMMA TasksFinite ==
  ASSUME TaskInv, NEW s, NEW T \in SUBSET ActiveOn(s)
  PROVE  IsFiniteSet(T) /\ Cardinality(T) \in Nat /\ T \subseteq Nat
<1>1. tasks \in Seq([ports : SUBSET Ports, seq : Sequences0])
  BY DEF TaskInv, TaskType
<1>2. DOMAIN tasks = 1..Len(tasks) /\ Len(tasks) \in Nat
  BY <1>1
<1>3. T \subseteq 1..Len(tasks) /\ IsFiniteSet(1..Len(tasks))
  BY <1>2, FS_Interval DEF ActiveOn
<1>4. IsFiniteSet(T)
  BY <1>3, FS_Subset
<1> QED BY <1>2, <1>3, <1>4, FS_CardinalityType

\* The tasks of a stream, with the types of their sequences.
LEMMA TaskSeqs ==
  ASSUME TaskInv, NEW s
  PROVE  /\ \A n \in ActiveOn(s) : n \in DOMAIN tasks /\ n \in Nat /\ n <= Newest
                                   /\ tasks[n].seq \in Nat /\ tasks[n].seq \in Sequences0
         /\ Adapted(s) \subseteq ActiveOn(s) /\ \A n : Later(s, n) \subseteq ActiveOn(s)
<1>1. tasks \in Seq([ports : SUBSET Ports, seq : Sequences0])
  BY DEF TaskInv, TaskType
<1>2. ASSUME NEW n \in DOMAIN tasks
      PROVE  n \in Nat /\ n <= Newest /\ tasks[n] \in [ports : SUBSET Ports, seq : Sequences0]
  <2>1. n \in 1..Len(tasks) /\ Len(tasks) \in Nat
    BY <1>1
  <2>2. tasks[n] \in [ports : SUBSET Ports, seq : Sequences0]
    BY <1>1, <2>1, ElementOfSeq
  <2> QED BY <2>1, <2>2 DEF Newest
<1>3. Sequences0 \subseteq Nat
  BY Constants DEF Sequences0
<1> QED BY <1>2, <1>3 DEF ActiveOn, Adapted, Later

\* A buffer that is older than all others of the queue is of a task after which there were
\* PalSize - 1 others.
LEMMA OldestData ==
  ASSUME TaskInv, SeqsGrow, NEW s, DataInv(s), NEW node \in ispParam[s].data,
         NEW n \in Adapted(s), \A a \in ispParam[s].data : a = node \/ a.key > tasks[n].seq,
         ispParam[s].data \subseteq Nodes
  PROVE  Cardinality(Later(s, n)) >= PalSize - 1
<1> DEFINE data == ispParam[s].data
           place == [a \in data \ {node} |-> CHOOSE m \in Adapted(s) : tasks[m].seq = a.key]
<1>1. /\ n \in DOMAIN tasks /\ n \in Nat /\ tasks[n].seq \in Nat
      /\ \A m \in Adapted(s) : m \in DOMAIN tasks /\ m \in Nat /\ tasks[m].seq \in Nat
  BY TaskSeqs
<1>2. ASSUME NEW a \in data \ {node} PROVE place[a] \in Later(s, n) /\ tasks[place[a]].seq = a.key
  <2>1. a.key \in Int /\ a.key > tasks[n].seq
    BY DEF Nodes
  <2>2. a.key >= 0
    BY <1>1, <2>1
  <2>3. \E m \in Adapted(s) : tasks[m].seq = a.key
    BY <2>2 DEF DataInv
  <2> DEFINE m == place[a]
  <2>4. m \in Adapted(s) /\ tasks[m].seq = a.key
    BY <2>3
  <2> HIDE DEF place
  <2>5. ~ (m <= n)
    <3>1. m <= n => tasks[m].seq <= tasks[n].seq
      BY <1>1, <2>4 DEF SeqsGrow
    <3> QED BY <1>1, <2>1, <2>4, <3>1
  <2>6. m > n
    BY <1>1, <2>4, <2>5
  <2> QED BY <2>4, <2>6 DEF Later
<1>3. \A a \in data : \A b \in data : a.key = b.key => a = b
  BY DEF DataInv
<1>4. place \in [data \ {node} -> Later(s, n)]
  BY <1>2
<1>5. \A a, b \in data \ {node} : place[a] = place[b] => a = b
  <2>1. \A a \in data \ {node} : tasks[place[a]].seq = a.key /\ a \in data
    BY <1>2
  <2> HIDE DEF place
  <2> QED BY <1>3, <2>1
<1>6. IsFiniteSet(Later(s, n)) /\ Cardinality(Later(s, n)) \in Nat
  BY TaskSeqs, TasksFinite
<1> HIDE DEF place
<1>7. Cardinality(data \ {node}) <= Cardinality(Later(s, n))
  BY <1>4, <1>5, <1>6, NoMore
<1>8. Cardinality(data \ {node}) = PalSize - 1
  <2>1. IsFiniteSet(data) /\ Cardinality(data) = PalSize /\ node \in data
    BY DEF DataInv
  <2> HIDE DEF data
  <2> QED BY <2>1, FS_RemoveElement
<1> QED BY <1>6, <1>7, <1>8

\* An entry that is older than all others of the second map is of a task after which there
\* were as many others.
LEMMA OldestId ==
  ASSUME TaskInv, SeqsGrow, NEW s, IdsInv(s), NEW n \in Adapted(s),
         tasks[n].seq \in DOMAIN ispParam[s].ids,
         \A y \in DOMAIN ispParam[s].ids : y = tasks[n].seq \/ y > tasks[n].seq
  PROVE  Cardinality(Later(s, n)) >= Cardinality(DOMAIN ispParam[s].ids) - 1
<1> DEFINE D == DOMAIN ispParam[s].ids
           x == tasks[n].seq
           place == [y \in D \ {x} |-> CHOOSE m \in Adapted(s) : tasks[m].seq = y]
<1>1. /\ n \in DOMAIN tasks /\ n \in Nat /\ tasks[n].seq \in Nat
      /\ \A m \in Adapted(s) : m \in DOMAIN tasks /\ m \in Nat /\ tasks[m].seq \in Nat
  BY TaskSeqs
<1>2. ASSUME NEW y \in D \ {x} PROVE place[y] \in Later(s, n) /\ tasks[place[y]].seq = y
  <2>1. y > x /\ (y = -1 \/ \E m \in Adapted(s) : tasks[m].seq = y)
    BY DEF IdsInv
  <2>2. y # -1
    BY <1>1, <2>1
  <2>3. \E m \in Adapted(s) : tasks[m].seq = y
    BY <2>1, <2>2
  <2> DEFINE m == place[y]
  <2>4. m \in Adapted(s) /\ tasks[m].seq = y
    BY <2>3
  <2> HIDE DEF place
  <2>5. ~ (m <= n)
    <3>1. m <= n => tasks[m].seq <= tasks[n].seq
      BY <1>1, <2>4 DEF SeqsGrow
    <3> QED BY <1>1, <2>1, <2>4, <3>1
  <2>6. m > n
    BY <1>1, <2>4, <2>5
  <2> QED BY <2>4, <2>6 DEF Later
<1>3. place \in [D \ {x} -> Later(s, n)]
  BY <1>2
<1>4. \A a, b \in D \ {x} : place[a] = place[b] => a = b
  <2>1. \A y \in D \ {x} : tasks[place[y]].seq = y
    BY <1>2
  <2> HIDE DEF place
  <2> QED BY <2>1
<1>5. IsFiniteSet(Later(s, n)) /\ Cardinality(Later(s, n)) \in Nat
  BY TaskSeqs, TasksFinite
<1> HIDE DEF place
<1>6. Cardinality(D \ {x}) <= Cardinality(Later(s, n))
  BY <1>3, <1>4, <1>5, NoMore
<1>7. IsFiniteSet(D) /\ x \in D
  BY DEF IdsInv
<1> HIDE DEF D, x
<1>8. Cardinality(D \ {x}) = Cardinality(D) - 1
  BY <1>7, FS_RemoveElement
<1> QED BY <1>5, <1>6, <1>8 DEF D

-----------------------------------------------------------------------------
(* The operators of IspParamAdaptor.                                       *)

\* The keys are integers between two bounds.
LEMMA KeyRange ==
  ASSUME NEW s, DataInv(s), ispParam[s].data \subseteq Nodes
  PROVE  /\ Keys(ispParam[s]) \in SUBSET Int /\ Keys(ispParam[s]) # {}
         /\ \A k \in Keys(ispParam[s]) : -(PalSize + 1) <= k /\ k <= MaxSequence
         /\ \A a \in ispParam[s].data : a.key \in Int /\ a.key \in Keys(ispParam[s])
         /\ PalSize + 1 \in Nat /\ MaxSequence \in Int
<1>1. \E a \in ispParam[s].data : TRUE
  BY DEF DataInv
<1>2. \A a \in ispParam[s].data : a.key \in -(PalSize + 1)..MaxSequence
  BY DEF Nodes
<1> QED BY <1>1, <1>2, Constants DEF Keys

\* runIspAdapt writes the buffer of the sequence, or the oldest one.
LEMMA NodeChosen ==
  ASSUME NEW s, DataInv(s), ispParam[s].data \subseteq Nodes, NEW q \in Nat,
         NEW node, node = NodeToWrite(ispParam[s], q)
  PROVE  /\ node \in ispParam[s].data
         /\ \/ node.key = q
            \/ q \notin Keys(ispParam[s]) /\ \A a \in ispParam[s].data : node.key <= a.key
<1> DEFINE param == ispParam[s]
           least == Min(Keys(param))
           key == IF q >= 0 /\ q \in Keys(param) THEN q ELSE least
<1>1. least \in Keys(param) /\ \A k \in Keys(param) : least <= k
  BY KeyRange, MinIsLeast
<1> HIDE DEF least
<1>2. key \in Keys(param)
  BY <1>1
<1>3. node = CHOOSE a \in param.data : a.key = key
  BY DEF NodeToWrite, least
<1> HIDE DEF key
<1>4. node \in param.data /\ node.key = key
  BY <1>2, <1>3 DEF Keys
<1>5. key = q \/ (q \notin Keys(param) /\ key = least)
  BY DEF key
<1>6. \A a \in param.data : a.key \in Keys(param)
  BY DEF Keys
<1> QED BY <1>1, <1>4, <1>5, <1>6

\* The last of the keys, which AfterNoRun() enters
LEMMA LastKey ==
  ASSUME NEW s, DataInv(s), ispParam[s].data \subseteq Nodes, NEW last, last = Max(Keys(ispParam[s]))
  PROVE  /\ last \in Keys(ispParam[s]) /\ last \in Int /\ last >= -1
         /\ \A a \in ispParam[s].data : a.key <= last
<1>1. last \in Keys(ispParam[s]) /\ \A k \in Keys(ispParam[s]) : k <= last
  BY KeyRange, MaxOfKeys
<1>2. PICK a \in ispParam[s].data : a.key >= -1
  BY DEF DataInv
<1>3. a.key \in Int /\ last \in Int /\ a.key <= last
  BY <1>1, KeyRange
<1> QED BY <1>1, <1>2, <1>3, KeyRange

\* updateIspParameterMap enters the sequence and may remove the lowest entry of a full map.
LEMMA RecordEffect ==
  ASSUME NEW ids, IsFiniteSet(DOMAIN ids), NEW b \in Nat, DOMAIN ids \in SUBSET Int,
         \A x \in DOMAIN ids : x >= -b,
         NEW size \in Nat, size # 0, NEW q, NEW d,
         NEW after, after = RecordDataId(ids, size, q, d)
  PROVE  /\ q \in DOMAIN after /\ after[q] = d /\ IsFiniteSet(DOMAIN after)
         /\ \A x \in DOMAIN after : x = q \/ (x \in DOMAIN ids /\ after[x] = ids[x])
         /\ \A x \in DOMAIN ids : x \notin DOMAIN after =>
              Cardinality(DOMAIN ids) >= size /\ \A y \in DOMAIN ids : x <= y
<1> DEFINE D == DOMAIN ids
           kept == IF Cardinality(D) >= size THEN D \ {Min(D)} ELSE D
<1>1. after = [x \in kept \cup {q} |-> IF x = q THEN d ELSE ids[x]]
  BY DEF RecordDataId
<1>2. kept \subseteq D
  OBVIOUS
<1>3. IsFiniteSet(kept \cup {q})
  <2> HIDE DEF kept
  <2>1. IsFiniteSet(kept)
    BY <1>2, FS_Subset
  <2> QED BY <2>1, FS_AddElement
<1>4. ASSUME NEW x \in D, x \notin kept
      PROVE  Cardinality(D) >= size /\ \A y \in D : x <= y
  <2>1. Cardinality(D) >= size /\ x = Min(D)
    BY <1>4
  <2> QED BY <2>1, MinIsLeast
<1> HIDE DEF kept
<1>5. DOMAIN after = kept \cup {q} /\ after[q] = d
  BY <1>1
<1>6. \A x \in DOMAIN after : x = q \/ (x \in D /\ after[x] = ids[x])
  BY <1>1, <1>2, <1>5
<1>7. \A x \in D : x \notin DOMAIN after => x \notin kept
  BY <1>5
<1> QED BY <1>3, <1>4, <1>5, <1>6, <1>7

\* A buffer that is written again under a new key.
LEMMA RewriteData ==
  ASSUME NEW data, IsFiniteSet(data), NEW node \in data, NEW new, new \notin data \ {node},
         NEW after, after = (data \ {node}) \cup {new}
  PROVE  IsFiniteSet(after) /\ Cardinality(after) = Cardinality(data)
<1>1. IsFiniteSet(data \ {node}) /\ Cardinality(data \ {node}) = Cardinality(data) - 1
  BY FS_RemoveElement
<1>2. Cardinality(data) \in Nat
  BY FS_CardinalityType
<1> QED BY <1>1, <1>2, FS_AddElement

\* getIpuParameter finds the only buffer with the key that the second map gives.
LEMMA ParameterFound ==
  ASSUME NEW s, DataInv(s), NEW q, Found(s, q)
  PROVE  /\ getIpuParameter(ispParam[s], q) \in ispParam[s].data
         /\ getIpuParameter(ispParam[s], q).key = ispParam[s].ids[q]
<1> DEFINE param == ispParam[s]
           key == param.ids[q]
           Wanted(node) == /\ node.key = key
                           /\ \/ node.valid
                              \/ \A other \in param.data : other.key = node.key => ~other.valid
<1>1. q \in DOMAIN param.ids /\ key \in Keys(param)
  BY DEF Found
<1>2. PICK a \in param.data : a.key = key
  BY <1>1 DEF Keys
<1>3. \A b \in param.data : b.key = key => b = a
  BY <1>2 DEF DataInv
<1>4. Wanted(a)
  BY <1>2, <1>3
<1>5. getIpuParameter(param, q) = CHOOSE node \in param.data : Wanted(node)
  BY <1>1 DEF getIpuParameter
<1>6. \A node \in param.data : Wanted(node) => node.key = key
  OBVIOUS
<1> HIDE DEF Wanted
<1> QED BY <1>4, <1>5, <1>6

-----------------------------------------------------------------------------
(* prepareIpuParams is through with a stream.                              *)

\* The task of a stream that prepareIpuParams is at.
AtStream(s) == ad.pc \in {"adapt", "write"} /\ ad.todo # {} /\ s = Min(ad.todo)

\* The newest task is active on that stream, and the last one of it.
LEMMA AtNewest ==
  ASSUME TypeInv, TodoInv, SeqsGrow, NEW s \in Streams, AtStream(s)
  PROVE  /\ PalDue(s) /\ Newest \in ActiveOn(s) /\ Newest \notin Adapted(s)
         /\ LastSequence = tasks[Newest].seq /\ LastSequence \in Nat /\ LastSequence \in Sequences0
         /\ \A n \in Adapted(s) : n < Newest /\ tasks[n].seq <= LastSequence
<1>1. ad.todo \in SUBSET Nat
  BY DagAssumption DEF TodoInv, AtStream, getActiveStreamIds, StreamsOf
<1>2. s \in ad.todo
  BY <1>1, LeastIsIn DEF AtStream
<1>3. PalDue(s) /\ s \in getActiveStreamIds(Newest)
  BY <1>2 DEF AtStream, PalDue, TodoInv
<1>4. /\ Newest \in DOMAIN tasks /\ LastSequence = tasks[Newest].seq /\ LastSequence \in Sequences0
  BY NewestType DEF TypeInv, AdderInv, AtStream
<1>5. Newest \in ActiveOn(s) /\ Newest \notin Adapted(s) /\ LastSequence \in Nat
  BY <1>3, <1>4, Constants DEF ActiveOn, Adapted, Sequences0
<1>6. \A n \in Adapted(s) : n \in DOMAIN tasks /\ n \in Nat /\ n <= Newest /\ n # Newest
  BY <1>5, TaskSeqs DEF TypeInv
<1>7. Newest \in Nat
  BY <1>5, TaskSeqs DEF TypeInv
<1>8. \A n \in Adapted(s) : n < Newest /\ tasks[n].seq <= LastSequence
  BY <1>4, <1>6, <1>7 DEF SeqsGrow
<1> QED BY <1>3, <1>4, <1>5, <1>8

\* It is counted with the others, and for the other streams nothing changes.
LEMMA StreamDone ==
  ASSUME TypeInv, TodoInv, SeqsGrow, NEW s \in Streams, AtStream(s), tasks' = tasks,
         ad' = AfterAdapt(s)
  PROVE  /\ ad'.pc # "write"
         /\ Adapted(s)' = Adapted(s) \cup {Newest}
         /\ \A t \in Streams : t # s => Adapted(t)' = Adapted(t)
         /\ Cardinality(Later(s, Newest)') = 0
         /\ \A n \in Adapted(s) : Cardinality(Later(s, n)') = Cardinality(Later(s, n)) + 1
<1>1. /\ PalDue(s) /\ Newest \in ActiveOn(s) /\ Newest \notin Adapted(s) /\ Newest \in Nat
      /\ \A n \in Adapted(s) : n < Newest /\ n \in Nat
  BY AtNewest, TaskSeqs DEF TypeInv
<1>2. ad'.pc \in {"adapt", "inputs"} /\ (ad'.pc = "adapt" => ad'.todo = ad.todo \ {s})
      /\ (ad'.pc = "inputs" => ad.todo = {s})
  BY DEF AfterAdapt, IdleAdder
<1>3. Newest' = Newest /\ \A t : ActiveOn(t)' = ActiveOn(t)
  BY DEF Newest, ActiveOn, getActiveStreamIds
<1>4. ~ PalDue(s)' /\ \A t \in Streams : t # s => (PalDue(t)' <=> PalDue(t))
  BY <1>1, <1>2 DEF PalDue, AtStream
<1>5. Adapted(s)' = ActiveOn(s)
  BY <1>3, <1>4 DEF Adapted
<1>6. Adapted(s) = ActiveOn(s) \ {Newest}
  BY <1>1 DEF Adapted
<1>7. \A t \in Streams : t # s => Adapted(t)' = Adapted(t)
  BY <1>3, <1>4 DEF Adapted
<1>8. Later(s, Newest)' = {m \in Adapted(s) \cup {Newest} : m > Newest}
  BY <1>1, <1>3, <1>5, <1>6 DEF Later
<1>9. Later(s, Newest)' = {}
  BY <1>1, <1>8
<1>10. ASSUME NEW n \in Adapted(s)
       PROVE  Cardinality(Later(s, n)') = Cardinality(Later(s, n)) + 1
  <2>1. Later(s, n)' = {m \in Adapted(s) \cup {Newest} : m > n}
    BY <1>1, <1>5, <1>6 DEF Later
  <2>2. Later(s, n)' = Later(s, n) \cup {Newest}
    BY <1>1, <1>10, <2>1 DEF Later
  <2>3. Newest \notin Later(s, n) /\ IsFiniteSet(Later(s, n))
    BY <1>1, TaskSeqs, TasksFinite DEF Later, TypeInv
  <2> QED BY <2>2, <2>3, FS_AddElement
<1> QED BY <1>1, <1>2, <1>5, <1>6, <1>7, <1>9, <1>10, FS_EmptySet

\* The keys are of tasks before, and so are the entries of the second map.
LEMMA OlderKeys ==
  ASSUME TypeInv, TodoInv, SeqsGrow, NEW s \in Streams, AtStream(s), DataInv(s), IdsInv(s)
  PROVE  /\ ispParam[s].data \subseteq Nodes
         /\ \A a \in ispParam[s].data : a.key \in Int /\ a.key <= LastSequence
         /\ \A x \in DOMAIN ispParam[s].ids : x \in Int /\ x >= -1 /\ x <= LastSequence
<1>1. LastSequence \in Nat /\ \A n \in Adapted(s) : tasks[n].seq <= LastSequence /\ tasks[n].seq \in Nat
  BY AtNewest, TaskSeqs DEF TypeInv
<1>2. ispParam[s].data \subseteq Nodes
  BY DEF TypeInv, PalInv, PalType
<1>3. ASSUME NEW a \in ispParam[s].data PROVE a.key \in Int /\ a.key <= LastSequence
  <2>1. a.key \in Int
    BY <1>2 DEF Nodes
  <2>2. CASE a.key >= 0
    BY <1>1, <2>1, <2>2 DEF DataInv
  <2>3. CASE ~ (a.key >= 0)
    BY <1>1, <2>1, <2>3
  <2> QED BY <2>1, <2>2, <2>3
<1>4. ASSUME NEW x \in DOMAIN ispParam[s].ids PROVE x \in Int /\ x >= -1 /\ x <= LastSequence
  <2>1. x = -1 \/ \E n \in Adapted(s) : tasks[n].seq = x
    BY DEF IdsInv
  <2> QED BY <1>1, <2>1
<1> QED BY <1>2, <1>3, <1>4

\* An entry that leaves the second map is of a task after which there were PalSize - 1 others.
LEMMA EntryKept ==
  ASSUME TypeInv, TodoInv, SeqsGrow, NEW s \in Streams, AtStream(s), DataInv(s), IdsInv(s),
         NEW d, NEW after, after = RecordDataId(ispParam[s].ids, PalSize, LastSequence, d)
  PROVE  /\ LastSequence \in DOMAIN after /\ after[LastSequence] = d /\ IsFiniteSet(DOMAIN after)
         /\ \A x \in DOMAIN after :
              x = LastSequence \/ (x \in DOMAIN ispParam[s].ids /\ after[x] = ispParam[s].ids[x])
         /\ \A n \in Adapted(s) :
              Cardinality(Later(s, n)) < PalSize - 1 /\ tasks[n].seq \in DOMAIN ispParam[s].ids
                => tasks[n].seq \in DOMAIN after
<1> DEFINE ids == ispParam[s].ids
<1>1. IsFiniteSet(DOMAIN ids) /\ DOMAIN ids \in SUBSET Int /\ \A x \in DOMAIN ids : x >= -1
  BY OlderKeys DEF IdsInv
<1>2. PalSize \in Nat /\ PalSize # 0 /\ 1 \in Nat
  BY Constants
<1> HIDE DEF ids
<1>3. after = RecordDataId(ids, PalSize, LastSequence, d)
  BY DEF ids
<1>4. /\ LastSequence \in DOMAIN after /\ after[LastSequence] = d /\ IsFiniteSet(DOMAIN after)
      /\ \A x \in DOMAIN after : x = LastSequence \/ (x \in DOMAIN ids /\ after[x] = ids[x])
      /\ \A x \in DOMAIN ids : x \notin DOMAIN after =>
              Cardinality(DOMAIN ids) >= PalSize /\ \A y \in DOMAIN ids : x <= y
  BY <1>1, <1>2, <1>3, RecordEffect
<1>5. ASSUME NEW n \in Adapted(s), Cardinality(Later(s, n)) < PalSize - 1,
             tasks[n].seq \in DOMAIN ids, tasks[n].seq \notin DOMAIN after
      PROVE  FALSE
  <2>1. Cardinality(DOMAIN ids) >= PalSize /\ \A y \in DOMAIN ids : tasks[n].seq <= y
    BY <1>4, <1>5
  <2>2. \A y \in DOMAIN ids : y = tasks[n].seq \/ y > tasks[n].seq
    BY <1>1, <1>5, <2>1
  <2>3. Cardinality(Later(s, n)) >= Cardinality(DOMAIN ids) - 1
    BY <1>5, <2>2, OldestId DEF ids, TypeInv
  <2>4. Cardinality(DOMAIN ids) \in Nat /\ Cardinality(Later(s, n)) \in Nat
    BY <1>1, FS_CardinalityType, TaskSeqs, TasksFinite DEF TypeInv
  <2> QED BY <1>2, <1>5, <2>1, <2>3, <2>4
<1> QED BY <1>4, <1>5 DEF ids

\* The PAL has run: its buffer is that of the sequence, and the oldest one is gone.
LEMMA RanData ==
  ASSUME TypeInv, TodoInv, SeqsGrow, NEW s \in Streams, AtStream(s), DataInv(s), IdsInv(s),
         tasks' = tasks, ad' = AfterAdapt(s), NEW q, q = LastSequence,
         NEW node, node = NodeToWrite(ispParam[s], q),
         ispParam'[s] = AfterRun(ispParam[s], PalSize, q, node)
  PROVE  /\ DataInv(s)'
         /\ node \in ispParam[s].data
         /\ \A a \in ispParam[s].data : a = node \/ a \in ispParam'[s].data
         /\ \A a \in ispParam'[s].data : a.key = q \/ (a \in ispParam[s].data /\ a # node)
         /\ \E a \in ispParam'[s].data : a.key = q
<1> DEFINE data == ispParam[s].data
           new == [key |-> q, buf |-> node.buf, valid |-> TRUE]
<1>1. q \in Nat /\ q = tasks[Newest].seq /\ Newest \in Nat
  BY AtNewest, TaskSeqs DEF TypeInv
<1>2. data \subseteq Nodes
  BY OlderKeys
<1>3. node \in data /\ (node.key = q \/ q \notin Keys(ispParam[s]))
  BY <1>1, <1>2, NodeChosen
<1>4. ispParam'[s].data = (data \ {node}) \cup {new}
  BY DEF AfterRun
<1>5. /\ IsFiniteSet(data) /\ Cardinality(data) = PalSize
      /\ \A a, b \in data : a.key = b.key \/ a.buf = b.buf => a = b
      /\ \A a \in data : a.valid <=> a.key >= -1
      /\ \A a \in data : a.key >= 0 => \E n \in Adapted(s) : tasks[n].seq = a.key
      /\ \A a \in data : a.key \in Keys(ispParam[s])
  BY DEF DataInv, Keys
<1>6. new.key = q /\ new.buf = node.buf /\ new.valid = TRUE
  OBVIOUS
<1> HIDE DEF data, new
<1>7. \A a \in data \ {node} : a.key # q /\ a.buf # node.buf
  BY <1>3, <1>5
<1>8. new \notin data \ {node}
  BY <1>6, <1>7
<1> DEFINE after == (data \ {node}) \cup {new}
<1>9. IsFiniteSet(after) /\ Cardinality(after) = PalSize
  BY <1>3, <1>5, <1>8, RewriteData
<1>10. \A a, b \in after : a.key = b.key \/ a.buf = b.buf => a = b
  BY <1>5, <1>6, <1>7
<1>11. \A a \in after : a.valid <=> a.key >= -1
  BY <1>1, <1>5, <1>6
<1>12. Adapted(s)' = Adapted(s) \cup {Newest}
  BY StreamDone
<1>13. \A a \in after : a.key >= 0 => \E n \in Adapted(s)' : tasks[n].seq = a.key
  BY <1>1, <1>5, <1>6, <1>12
<1>14. \E a \in after : a.key = q /\ a.key >= -1
  BY <1>1, <1>6
<1>15. \A a \in after : a = new \/ (a \in data /\ a # node)
  OBVIOUS
<1>16. \A a \in data : a = node \/ a \in after
  OBVIOUS
<1> HIDE DEF after
<1>17. ispParam'[s].data = after
  BY <1>4 DEF after
<1>18. DataInv(s)'
  BY <1>9, <1>10, <1>11, <1>13, <1>14, <1>17 DEF DataInv
<1> QED BY <1>3, <1>6, <1>14, <1>15, <1>16, <1>17, <1>18 DEF data

\* All that the maps of a stream keep is kept when the PAL has run, ...
LEMMA RanKeeps ==
  ASSUME TypeInv, TodoInv, SeqsGrow, NEW s \in Streams, AtStream(s), DataInv(s), IdsInv(s),
         WindowInv(s),
         tasks' = tasks, ad' = AfterAdapt(s), NEW q, q = LastSequence,
         NEW node, node = NodeToWrite(ispParam[s], q),
         ispParam'[s] = AfterRun(ispParam[s], PalSize, q, node)
  PROVE  DataInv(s)' /\ IdsInv(s)' /\ WindowInv(s)' /\ Found(s, q)'
<1> DEFINE data == ispParam[s].data
           ids == ispParam[s].ids
           data2 == ispParam'[s].data
           ids2 == ispParam'[s].ids
<1>1. /\ DataInv(s)' /\ node \in data
      /\ \A a \in data : a = node \/ a \in data2
      /\ \A a \in data2 : a.key = q \/ (a \in data /\ a # node)
      /\ \E a \in data2 : a.key = q
  BY RanData
<1>2. ids2 = RecordDataId(ids, PalSize, q, q)
  BY DEF AfterRun
<1>3. /\ q \in DOMAIN ids2 /\ ids2[q] = q /\ IsFiniteSet(DOMAIN ids2)
      /\ \A x \in DOMAIN ids2 : x = q \/ (x \in DOMAIN ids /\ ids2[x] = ids[x])
      /\ \A n \in Adapted(s) :
           Cardinality(Later(s, n)) < PalSize - 1 /\ tasks[n].seq \in DOMAIN ids
             => tasks[n].seq \in DOMAIN ids2
  <2>1. ids2 = RecordDataId(ispParam[s].ids, PalSize, LastSequence, q)
    BY <1>2
  <2> HIDE DEF ids2
  <2> QED BY <2>1, EntryKept
<1>4. /\ Adapted(s)' = Adapted(s) \cup {Newest}
      /\ \A n \in Adapted(s) : Cardinality(Later(s, n)') = Cardinality(Later(s, n)) + 1
  BY StreamDone
<1>5. /\ q \in Nat /\ q = tasks[Newest].seq
      /\ \A n \in Adapted(s) : tasks[n].seq <= q /\ tasks[n].seq \in Nat
      /\ \A n \in Adapted(s) : Cardinality(Later(s, n)) \in Nat
  BY AtNewest, TaskSeqs, TasksFinite DEF TypeInv
<1>6. /\ data \subseteq Nodes /\ \A a \in data : a.key \in Int /\ a.key <= q
      /\ \A x \in DOMAIN ids : x \in Int /\ x >= -1 /\ x <= q
  BY OlderKeys
<1>7. /\ \A a, b \in data : a.key = b.key => a = b
      /\ \A x \in DOMAIN ids :
             /\ x = -1 \/ \E n \in Adapted(s) : tasks[n].seq = x
             /\ ids[x] \in -1..x /\ (ids[x] = x \/ x \in NotRun["new"])
             /\ LastBefore(data, ids[x], x)
  BY DEF DataInv, IdsInv
<1>8. node.key = q \/ \A a \in data : node.key <= a.key
  BY <1>5, <1>6, NodeChosen
<1>9. PalSize \in Nat
  BY Constants
<1>10. /\ DOMAIN (ispParam[s]').ids = DOMAIN ids2 /\ (ispParam[s]').ids = ids2
       /\ (ispParam[s]').data = data2
  OBVIOUS
<1>11. Found(s, q)'
  BY <1>1, <1>3 DEF Found, Keys
<1>12. ASSUME NEW n \in Adapted(s), Cardinality(Later(s, n)) < PalSize - 1
       PROVE  Found(s, tasks[n].seq)'
  <2> DEFINE x == tasks[n].seq
  <2>1. x \in DOMAIN ids /\ ids[x] \in Keys(ispParam[s])
    BY <1>5, <1>9, <1>12 DEF WindowInv, Found
  <2>2. PICK a \in data : a.key = ids[x]
    BY <2>1 DEF Keys
  <2>3. CASE x = q
    BY <1>11, <2>3, tasks' = tasks
  <2>4. CASE x # q
    <3>1. x \in DOMAIN ids2 /\ ids2[x] = ids[x]
      BY <1>3, <1>12, <2>1, <2>4
    <3>2. a # node
      <4> SUFFICES ASSUME a = node PROVE FALSE
        OBVIOUS
      <4>1. ids[x] \in Int /\ ids[x] <= x /\ x < q /\ x \in Nat
        BY <1>5, <1>7, <2>1, <2>4
      <4>2. \A b \in data : node.key <= b.key
        BY <1>8, <2>2, <4>1
      <4>3. \A b \in data : b = node \/ b.key > x
        BY <1>6, <1>7, <2>1, <2>2, <4>1, <4>2 DEF LastBefore
      <4>4. Cardinality(Later(s, n)) >= PalSize - 1
        BY <1>1, <1>6, <4>3, OldestData DEF TypeInv
      <4> QED BY <1>5, <1>9, <1>12, <4>4
    <3>3. a \in data2
      BY <1>1, <3>2
    <3> QED BY <2>2, <3>1, <3>3, tasks' = tasks DEF Found, Keys
  <2> QED BY <2>3, <2>4
<1>13. WindowInv(s)'
  <2> SUFFICES ASSUME NEW n \in Adapted(s)', Cardinality(Later(s, n)') < PalSize
               PROVE  Found(s, tasks[n].seq)'
    BY DEF WindowInv
  <2>1. CASE n = Newest
    BY <1>5, <1>11, <2>1, tasks' = tasks
  <2>2. CASE n \in Adapted(s)
    <3>1. Cardinality(Later(s, n)) < PalSize - 1
      BY <1>4, <1>5, <1>9, <2>2
    <3> QED BY <1>12, <2>2, <3>1
  <2> QED BY <1>4, <2>1, <2>2
<1>14. ASSUME NEW x \in DOMAIN ids2
       PROVE  /\ x = -1 \/ \E n \in Adapted(s)' : tasks[n].seq = x
              /\ ids2[x] \in -1..x /\ (ids2[x] = x \/ x \in NotRun["new"])
              /\ LastBefore(data2, ids2[x], x)
  <2>1. CASE x = q
    <3>1. LastBefore(data2, q, q)
      BY <1>1, <1>5, <1>6 DEF LastBefore
    <3> QED BY <1>3, <1>4, <1>5, <2>1, <3>1
  <2>2. CASE x # q
    <3>1. x \in DOMAIN ids /\ ids2[x] = ids[x]
      BY <1>3, <2>2
    <3>2. x \in Int /\ x < q
      BY <1>5, <1>6, <2>2, <3>1
    <3>3. LastBefore(data2, ids[x], x)
      BY <1>1, <1>7, <3>1, <3>2 DEF LastBefore
    <3> QED BY <1>4, <1>7, <3>1, <3>3
  <2> QED BY <2>1, <2>2
<1>15. IdsInv(s)'
  BY <1>3, <1>14, tasks' = tasks DEF IdsInv
<1> QED BY <1>1, <1>11, <1>13, <1>15

\* ... and when it has not: the last buffer serves the sequence too.
LEMMA NotRanKeeps ==
  ASSUME TypeInv, TodoInv, SeqsGrow, NEW s \in Streams, AtStream(s), DataInv(s), IdsInv(s),
         WindowInv(s),
         tasks' = tasks, ad' = AfterAdapt(s), NEW q, q = LastSequence, q \in NotRun["new"],
         q \notin Keys(ispParam[s]), NEW node,
         ispParam'[s] = AfterNoRun(ispParam[s], PalSize, q, node)
  PROVE  /\ DataInv(s)' /\ IdsInv(s)' /\ WindowInv(s)' /\ Found(s, q)'
         /\ ispParam'[s].data = ispParam[s].data
<1> DEFINE data == ispParam[s].data
           ids == ispParam[s].ids
           ids2 == ispParam'[s].ids
<1>0. PICK last : last = Max(Keys(ispParam[s]))
  OBVIOUS
<1>1. /\ last \in Keys(ispParam[s]) /\ last \in Int /\ last >= -1
      /\ \A a \in data : a.key <= last
  BY <1>0, LastKey, OlderKeys
<1>2. ispParam'[s].data = data /\ ids2 = RecordDataId(ids, PalSize, q, last)
  BY <1>0, <1>1 DEF AfterNoRun
<1>3. /\ q \in DOMAIN ids2 /\ ids2[q] = last /\ IsFiniteSet(DOMAIN ids2)
      /\ \A x \in DOMAIN ids2 : x = q \/ (x \in DOMAIN ids /\ ids2[x] = ids[x])
      /\ \A n \in Adapted(s) :
           Cardinality(Later(s, n)) < PalSize - 1 /\ tasks[n].seq \in DOMAIN ids
             => tasks[n].seq \in DOMAIN ids2
  <2>1. ids2 = RecordDataId(ispParam[s].ids, PalSize, LastSequence, last)
    BY <1>2
  <2>2. PICK after : after = ids2
    OBVIOUS
  <2>3. /\ LastSequence \in DOMAIN after /\ after[LastSequence] = last /\ IsFiniteSet(DOMAIN after)
        /\ \A x \in DOMAIN after :
             x = LastSequence \/ (x \in DOMAIN ispParam[s].ids /\ after[x] = ispParam[s].ids[x])
        /\ \A n \in Adapted(s) :
             Cardinality(Later(s, n)) < PalSize - 1 /\ tasks[n].seq \in DOMAIN ispParam[s].ids
               => tasks[n].seq \in DOMAIN after
    <3>1. after = RecordDataId(ispParam[s].ids, PalSize, LastSequence, last)
      BY <2>1, <2>2
    <3> HIDE DEF ids2
    <3> QED BY <3>1, EntryKept
  <2> QED BY <2>2, <2>3
<1>4. /\ Adapted(s)' = Adapted(s) \cup {Newest}
      /\ \A n \in Adapted(s) : Cardinality(Later(s, n)') = Cardinality(Later(s, n)) + 1
  BY StreamDone
<1>5. /\ q \in Nat /\ q = tasks[Newest].seq
      /\ \A n \in Adapted(s) : tasks[n].seq <= q /\ tasks[n].seq \in Nat
      /\ \A n \in Adapted(s) : Cardinality(Later(s, n)) \in Nat
  BY AtNewest, TaskSeqs, TasksFinite DEF TypeInv
<1>6. /\ data \subseteq Nodes /\ \A a \in data : a.key \in Int /\ a.key <= q
      /\ \A x \in DOMAIN ids : x \in Int /\ x >= -1 /\ x <= q
  BY OlderKeys
<1>7. \A x \in DOMAIN ids :
             /\ x = -1 \/ \E n \in Adapted(s) : tasks[n].seq = x
             /\ ids[x] \in -1..x /\ (ids[x] = x \/ x \in NotRun["new"])
             /\ LastBefore(data, ids[x], x)
  BY DEF IdsInv
<1>8. PalSize \in Nat
  BY Constants
<1>9. last <= q
  BY <1>1, <1>6 DEF Keys
<1>10. (ispParam[s]').ids = ids2 /\ (ispParam[s]').data = data
       /\ Keys(ispParam[s])' = Keys(ispParam[s])
  BY <1>2 DEF Keys
<1>11. Found(s, q)'
  BY <1>1, <1>3, <1>10 DEF Found
<1>12. ASSUME NEW n \in Adapted(s), Cardinality(Later(s, n)) < PalSize - 1
       PROVE  Found(s, tasks[n].seq)'
  <2>1. tasks[n].seq \in DOMAIN ids /\ ids[tasks[n].seq] \in Keys(ispParam[s])
    BY <1>5, <1>8, <1>12 DEF WindowInv, Found
  <2>2. CASE tasks[n].seq = q
    BY <1>11, <2>2, tasks' = tasks
  <2>3. CASE tasks[n].seq # q
    <3>1. tasks[n].seq \in DOMAIN ids2 /\ ids2[tasks[n].seq] = ids[tasks[n].seq]
      BY <1>3, <1>12, <2>1, <2>3
    <3> QED BY <1>10, <2>1, <3>1, tasks' = tasks DEF Found
  <2> QED BY <2>2, <2>3
<1>13. WindowInv(s)'
  <2> SUFFICES ASSUME NEW n \in Adapted(s)', Cardinality(Later(s, n)') < PalSize
               PROVE  Found(s, tasks[n].seq)'
    BY DEF WindowInv
  <2>1. CASE n = Newest
    BY <1>5, <1>11, <2>1, tasks' = tasks
  <2>2. CASE n \in Adapted(s)
    <3>1. Cardinality(Later(s, n)) < PalSize - 1
      BY <1>4, <1>5, <1>8, <2>2
    <3> QED BY <1>12, <2>2, <3>1
  <2> QED BY <1>4, <2>1, <2>2
<1>14. ASSUME NEW x \in DOMAIN ids2
       PROVE  /\ x = -1 \/ \E n \in Adapted(s)' : tasks[n].seq = x
              /\ ids2[x] \in -1..x /\ (ids2[x] = x \/ x \in NotRun["new"])
              /\ LastBefore(data, ids2[x], x)
  <2>1. CASE x = q
    <3>1. LastBefore(data, last, q)
      BY <1>1 DEF LastBefore
    <3> QED BY <1>1, <1>3, <1>4, <1>5, <1>9, <2>1, <3>1
  <2>2. CASE x # q
    BY <1>3, <1>4, <1>7, <2>2
  <2> QED BY <2>1, <2>2
<1>15. IdsInv(s)'
  BY <1>3, <1>10, <1>14, tasks' = tasks DEF IdsInv
<1>16. DataInv(s)'
  <2>1. \A a \in data : a.key >= 0 => \E n \in Adapted(s)' : tasks[n].seq = a.key
    BY <1>4 DEF DataInv
  <2> QED BY <1>10, <2>1, tasks' = tasks DEF DataInv
<1> QED BY <1>2, <1>11, <1>13, <1>15, <1>16

-----------------------------------------------------------------------------
(* The frame in the hands of an executor is one of the last.               *)

\* No executor has taken a task whose input is not queued yet.
LEMMA InputFirst ==
  ASSUME TypeInv, NEW act, NEW c, DagInv(act, c), dag.state = "running", NEW e \in Executors
  PROVE  c[e] + One(InputDue(e[1])) <= Len(act[e[1]])
<1> DEFINE s == e[1]
           due == One(InputDue(s))
           at(d) == <<s, d>>
           Late == {d \in 1..Depth[s] : ~ (c[at(d)] + due <= Len(act[s]))}
<1>1. s \in Streams /\ Depth[s] \in Nat /\ e = <<s, e[2]>>
  BY Neighbours, DagAssumption
<1>2. e[2] \in 1..Depth[s]
  BY <1>1 DEF Executors
<1>3. due \in Nat /\ act[s] \in Seq(Nat) /\ Len(act[s]) \in Nat /\ c \in [Executors -> Nat]
  BY <1>1 DEF One, DagInv, Lines
<1> HIDE DEF s, due
<1>4. \A d \in 1..Depth[s] : at(d) \in Executors /\ InUse(at(d)) /\ at(d)[1] = s /\ at(d)[2] = d
  BY <1>1 DEF Executors, InUse
<1>5. ASSUME Late # {} PROVE FALSE
  <2>1. Late \in SUBSET Nat
    OBVIOUS
  <2>2. PICK d \in Late : \A i \in Late : d <= i
    BY <1>5, <2>1, LeastNatural
  <2>3. d \in 1..Depth[s] /\ d \in Nat
    BY <1>1
  <2>4. InputLine(act, c, at(d)) /\ Len(mInputQueue[at(d)]) \in Nat /\ c[at(d)] \in Nat
    BY <1>3, <1>4, <2>3 DEF DagInv, Lines, TypeInv, QueueType
  <2>5. CASE d = 1
    <3>1. c[at(d)] + Len(mInputQueue[at(d)]) + due = Len(act[s])
      BY <1>4, <2>3, <2>4, <2>5 DEF InputLine, IsInputEdge, due
    <3> QED BY <1>3, <2>4, <3>1
  <2>6. CASE d # 1
    <3>1. d - 1 \in 1..Depth[s] /\ ~ (d <= d - 1)
      BY <1>1, <2>3, <2>6
    <3>2. c[at(d - 1)] + due <= Len(act[s])
      BY <2>2, <3>1
    <3>3. Producer(at(d)) = at(d - 1) /\ ~ IsInputEdge(at(d))
      BY <1>4, <2>3, <2>6 DEF Producer, IsInputEdge
    <3>4. c[at(d)] + Len(mInputQueue[at(d)]) + Kept(at(d - 1)) = c[at(d - 1)]
      BY <2>4, <3>3 DEF InputLine
    <3>5. Kept(at(d - 1)) \in Nat /\ c[at(d - 1)] \in Nat
      BY <1>3, <1>4, <3>1 DEF Kept, One
    <3>6. \A a, b, q, k, l, u \in Nat : a + q + k = b /\ b + u <= l => a + u <= l
      OBVIOUS
    <3>7. c[at(d)] + due <= Len(act[s])
      <4>1. PICK a, b, q, k, l : a = c[at(d)] /\ b = c[at(d - 1)] /\ q = Len(mInputQueue[at(d)])
                                 /\ k = Kept(at(d - 1)) /\ l = Len(act[s])
        OBVIOUS
      <4>2. {a, b, q, k, l, due} \subseteq Nat
        BY <1>3, <2>4, <3>5, <4>1
      <4>3. a + q + k = b
        BY <3>4, <4>1
      <4>4. b + due <= l
        BY <3>2, <4>1
      <4>5. a + due <= l
        BY <3>6, <4>2, <4>3, <4>4
      <4> QED BY <4>1, <4>5
    <3> QED BY <2>2, <3>7
  <2> QED BY <2>5, <2>6
<1>6. e[2] \notin Late
  BY <1>5
<1>7. at(e[2]) = e
  BY <1>1
<1> HIDE DEF at
<1> QED BY <1>2, <1>6, <1>7 DEF s, due

\* The end of a chain has taken no more than the executors before it.
LEMMA EndLast ==
  ASSUME TypeInv, NEW act, NEW c, DagInv(act, c), NEW e \in Executors, InUse(e),
         NEW f, f = <<e[1], Depth[e[1]]>>
  PROVE  f \in Executors /\ IsOutputEdge(f) /\ f[1] = e[1] /\ InUse(f) /\ c[f] <= c[e]
<1> DEFINE s == e[1]
           at(d) == <<s, d>>
           Ahead == {d \in 1..Depth[s] : d >= e[2] /\ ~ (InUse(at(d)) /\ c[at(d)] <= c[e])}
<1>1. s \in Streams /\ Depth[s] \in Nat /\ e = <<s, e[2]>> /\ Depth[s] # 0
  BY Neighbours, DagAssumption
<1>2. e[2] \in 1..Depth[s]
  BY <1>1 DEF Executors
<1>3. c \in [Executors -> Nat]
  BY DEF DagInv, Lines
<1> HIDE DEF s
<1>4. \A d \in 1..Depth[s] : at(d) \in Executors /\ at(d)[1] = s /\ at(d)[2] = d
  BY <1>1 DEF Executors
<1>5. ASSUME Ahead # {} PROVE FALSE
  <2>1. Ahead \in SUBSET Nat
    OBVIOUS
  <2>2. PICK d \in Ahead : \A i \in Ahead : d <= i
    BY <1>5, <2>1, LeastNatural
  <2>3. d \in 1..Depth[s] /\ d \in Nat /\ d >= e[2] /\ ~ (InUse(at(d)) /\ c[at(d)] <= c[e])
    BY <1>1
  <2>4. d # e[2]
    BY <1>1, <1>3, <2>3
  <2>5. d - 1 \in 1..Depth[s] /\ d - 1 >= e[2] /\ ~ (d <= d - 1) /\ d - 1 # Depth[s] /\ d # 1
    BY <1>1, <1>2, <2>3, <2>4
  <2>6. InUse(at(d - 1)) /\ c[at(d - 1)] <= c[e]
    BY <2>2, <2>5
  <2>7. /\ Producer(at(d)) = at(d - 1) /\ ~ IsInputEdge(at(d))
        /\ Consumer(at(d - 1)) = at(d) /\ ~ IsOutputEdge(at(d - 1))
    BY <1>4, <2>3, <2>5 DEF Producer, Consumer, IsInputEdge, IsOutputEdge
  <2>8. InUse(at(d))
    BY <1>4, <2>5, <2>6, <2>7, ConsumerInUse DEF DagInv
  <2>9. InputLine(act, c, at(d)) /\ Len(mInputQueue[at(d)]) \in Nat /\ c[at(d)] \in Nat
    BY <1>3, <1>4, <2>3, <2>8 DEF DagInv, Lines, TypeInv, QueueType
  <2>10. c[at(d)] + Len(mInputQueue[at(d)]) + Kept(at(d - 1)) = c[at(d - 1)]
    BY <2>7, <2>9 DEF InputLine
  <2>11. Kept(at(d - 1)) \in Nat /\ c[at(d - 1)] \in Nat /\ c[e] \in Nat
    BY <1>3, <1>4, <2>5 DEF Kept, One
  <2> QED BY <2>3, <2>6, <2>8, <2>9, <2>10, <2>11
<1>6. Depth[s] \in 1..Depth[s] /\ Depth[s] >= e[2] /\ Depth[s] \notin Ahead
  BY <1>1, <1>2, <1>5
<1>7. InUse(at(Depth[s])) /\ c[at(Depth[s])] <= c[e]
  BY <1>6
<1>8. f = at(Depth[s])
  BY DEF s
<1> QED BY <1>4, <1>6, <1>7, <1>8 DEF IsOutputEdge, s

\* The task of an executor that has not given its frame on, and all later ones of the stream,
\* have a buffer to come.
LEMMA NotCounted ==
  ASSUME TypeInv, NEW act, NEW c, DagInv(act, c), NEW e \in Executors, InUse(e),
         ex[e].pc \in {"pal", "run"}, NEW k \in DOMAIN act[e[1]], k >= c[e]
  PROVE  counted[act[e[1]][k]] # tasks[act[e[1]][k]].ports
<1> DEFINE s == e[1]
           n == act[s][k]
<1>1. PICK f : f = <<s, Depth[s]>>
  OBVIOUS
<1>2. f \in Executors /\ IsOutputEdge(f) /\ f[1] = s /\ InUse(f) /\ c[f] <= c[e]
  BY <1>1, EndLast
<1>3. s \in Streams /\ act[s] \in Seq(Nat) /\ c[e] \in Nat /\ c[f] \in Nat /\ k \in Nat
  BY <1>2, Neighbours DEF DagInv, Lines
<1>4. OutPorts(f) = PortsOf[s]
  BY <1>2, PortTypes
<1>5. ASSUME k > c[f] PROVE counted[n] # tasks[n].ports
  <2>1. counted[n] \cap OutPorts(f) = {}
    BY <1>2, <1>5 DEF DagInv, CountLines, CountLine
  <2>2. s \in getActiveStreamIds(n)
    BY <1>3 DEF DagInv, Lines, ActiveTasks
  <2>3. PortsOf[s] \cap tasks[n].ports # {}
    BY <2>2 DEF getActiveStreamIds, StreamsOf
  <2> QED BY <1>4, <2>1, <2>3
<1>6. CASE IsOutputEdge(e)
  <2>1. f = e
    BY <1>1, <1>6, Neighbours DEF IsOutputEdge
  <2>2. Holds(e) /\ ~ Calls(e)
    BY DEF Holds, HoldPoints, Calls
  <2>3. CASE k = c[e]
    <3>1. counted[n] \cap OutPorts(e) = ((OutPorts(e) \cap tasks[n].ports) \ ex[e].left) \cup {}
      BY <1>6, <2>2, <2>3 DEF DagInv, CountLines, CountLine
    <3>2. ex[e].left \subseteq OutPorts(e) \cap tasks[n].ports /\ ex[e].left # {}
      BY <1>6, <2>2, <2>3 DEF DagInv, Lines, HandsLine
    <3> QED BY <3>1, <3>2
  <2>4. CASE k # c[e]
    BY <1>3, <1>5, <2>1, <2>4
  <2> QED BY <2>3, <2>4
<1>7. CASE ~ IsOutputEdge(e)
  <2>1. PICK g : g = Consumer(e)
    OBVIOUS
  <2>2. g \in Executors /\ InUse(g) /\ g[1] = s /\ Producer(g) = e /\ ~ IsInputEdge(g)
    BY <1>7, <2>1, Neighbours, ConsumerInUse DEF DagInv, Consumer
  <2>3. c[f] <= c[g]
    BY <1>1, <2>2, EndLast
  <2>4. c[g] + Len(mInputQueue[g]) + Kept(e) = c[e]
    BY <2>2 DEF DagInv, Lines, InputLine
  <2>5. Kept(e) = 1 /\ Len(mInputQueue[g]) \in Nat /\ c[g] \in Nat
    BY <2>2 DEF Kept, One, TypeInv, QueueType, DagInv, Lines
  <2> QED BY <1>3, <1>5, <2>3, <2>4, <2>5
<1> QED BY <1>6, <1>7

\* The frame that an executor runs with is of a task whose parameters are prepared; it and the
\* later ones of the stream are all in work.
LEMMA InWork ==
  ASSUME TypeInv, EndInv, AddedWhileRunning, NEW act, NEW c, DagInv(act, c), NEW e \in Executors,
         ex[e].pc \in {"pal", "run"}
  PROVE  \E n \in Adapted(e[1]) :
            /\ tasks[n].seq = ex[e].seq
            /\ Cardinality({m \in ActiveOn(e[1]) : m >= n}) <= Len(mOngoingTasks)
<1> DEFINE s == e[1]
           n == act[s][c[e]]
           S == {m \in ActiveOn(s) : m >= n}
           T == DOMAIN mOngoingTasks
           place == [m \in S |-> CHOOSE i \in T : mOngoingTasks[i].n = m]
<1>1. InUse(e) /\ Holds(e)
  BY AtWork DEF Ended, Holds, HoldPoints
<1>2. c[e] \in DOMAIN act[s] /\ n \in DOMAIN tasks /\ s \in getActiveStreamIds(n)
  BY <1>1, HandsPlace DEF DagInv, TypeInv
<1>3. /\ s \in Streams /\ act[s] \in Seq(Nat) /\ c[e] \in Nat
      /\ \A j, k \in DOMAIN act[s] : j < k => act[s][j] < act[s][k]
      /\ \A k \in DOMAIN act[s] : act[s][k] \in DOMAIN tasks
      /\ \A m \in DOMAIN tasks : s \in getActiveStreamIds(m) => \E k \in DOMAIN act[s] : act[s][k] = m
  BY Neighbours DEF DagInv, Lines, ActiveTasks
<1>4. tasks[n].seq = ex[e].seq
  BY <1>1 DEF DagInv, Lines, HandsLine
<1>5. \A m \in DOMAIN tasks : m \in Nat /\ m <= Newest
  <2>1. tasks \in Seq([ports : SUBSET Ports, seq : Sequences0])
    BY DEF TypeInv, TaskInv, TaskType
  <2> QED BY <2>1 DEF Newest
<1> HIDE DEF n
<1>6. ASSUME PalDue(s) PROVE n # Newest
  <2>1. dag.state = "running"
    BY <1>6 DEF PalDue, AddedWhileRunning
  <2>2. InputDue(s)
    BY <1>6 DEF PalDue, InputDue, DagInv, TodoInv
  <2>3. c[e] + 1 <= Len(act[s])
    BY <2>1, <2>2, InputFirst DEF One
  <2>4. Len(act[s]) \in DOMAIN act[s] /\ c[e] < Len(act[s])
    BY <1>2, <1>3, <2>3
  <2>5. n < act[s][Len(act[s])] /\ act[s][Len(act[s])] <= Newest /\ act[s][Len(act[s])] \in Nat
    BY <1>2, <1>3, <1>5, <2>4 DEF n
  <2> QED BY <1>2, <1>5, <2>5
<1>7. n \in Adapted(s)
  BY <1>2, <1>6 DEF Adapted, ActiveOn
<1>8. ASSUME NEW m \in S PROVE \E i \in T : mOngoingTasks[i].n = m
  <2>1. m \in DOMAIN tasks /\ s \in getActiveStreamIds(m) /\ m >= n
    BY DEF ActiveOn
  <2>2. PICK k \in DOMAIN act[s] : act[s][k] = m
    BY <1>3, <2>1
  <2>3. k >= c[e]
    <3>1. k < c[e] => m < n
      BY <1>2, <1>3, <2>2 DEF n
    <3> QED BY <1>2, <1>3, <1>5, <2>1, <3>1
  <2>4. counted[m] # tasks[m].ports
    BY <1>1, <2>2, <2>3, NotCounted
  <2> QED BY <2>1, <2>4 DEF DagInv, OngoingInv
<1>9. \A m \in S : place[m] \in T /\ mOngoingTasks[place[m]].n = m
  BY <1>8
<1>10. place \in [S -> T]
  BY <1>9
<1>11. IsFiniteSet(T) /\ Cardinality(T) = Len(mOngoingTasks)
  <2>1. mOngoingTasks \in Seq([n : DOMAIN tasks, returned : Nat])
    BY DEF TypeInv, TaskInv, TaskType
  <2>2. T = 1..Len(mOngoingTasks) /\ Len(mOngoingTasks) \in Nat
    BY <2>1
  <2>3. IsFiniteSet(1..Len(mOngoingTasks)) /\ Cardinality(1..Len(mOngoingTasks)) = Len(mOngoingTasks)
    <3>1. \A k \in Nat : IsFiniteSet(1..k) /\ Cardinality(1..k) = k
      <4> TAKE k \in Nat
      <4>1. 1 \in Int /\ k \in Int /\ k - 1 + 1 = k /\ (1 > k <=> k = 0)
        OBVIOUS
      <4> QED BY <4>1, FS_Interval
    <3> QED BY <2>2, <3>1
  <2> QED BY <2>2, <2>3
<1> HIDE DEF place, S, T
<1>12. \A x, y \in S : place[x] = place[y] => x = y
  BY <1>9
<1>13. Cardinality(S) <= Cardinality(T)
  BY <1>10, <1>11, <1>12, NoMore
<1> QED BY <1>4, <1>7, <1>11, <1>13 DEF S

\* So there are fewer of them than the parameter queue has buffers, one fewer while
\* prepareIpuParams is at the next one.
LEMMA FewLater ==
  ASSUME PalAssumption, TypeInv, EndInv, AddedWhileRunning, FewTasks, NEW act, NEW c,
         DagInv(act, c), NEW e \in Executors, ex[e].pc \in {"pal", "run"}
  PROVE  \E n \in Adapted(e[1]) :
            /\ tasks[n].seq = ex[e].seq
            /\ Cardinality(Later(e[1], n)) + 1 <= PalSize
            /\ Newest \in ActiveOn(e[1]) /\ PalDue(e[1])
                 => Cardinality(Later(e[1], n)) + 2 <= PalSize
<1> DEFINE s == e[1]
<1>1. PICK n \in Adapted(s) : /\ tasks[n].seq = ex[e].seq
                              /\ Cardinality({m \in ActiveOn(s) : m >= n}) <= Len(mOngoingTasks)
  BY InWork
<1> DEFINE S == {m \in ActiveOn(s) : m >= n}
           L == Later(s, n)
<1>2. Len(mOngoingTasks) <= PalSize /\ Len(mOngoingTasks) \in Nat /\ PalSize \in Nat
  <2>1. mOngoingTasks \in Seq([n : DOMAIN tasks, returned : Nat])
    BY DEF TypeInv, TaskInv, TaskType
  <2>2. MaxInflight \in Nat
    BY DagAssumption
  <2> QED BY <2>1, <2>2, Constants DEF PalAssumption, FewTasks
<1>3. /\ IsFiniteSet(L) /\ Cardinality(L) \in Nat /\ L \subseteq ActiveOn(s)
      /\ \A m \in ActiveOn(s) : m \in Nat /\ m <= Newest
      /\ n \in ActiveOn(s) /\ n \in Nat
  BY TaskSeqs, TasksFinite DEF TypeInv
<1>4. IsFiniteSet(S) /\ Cardinality(S) \in Nat
  BY TasksFinite DEF TypeInv
<1>5. L \cup {n} \subseteq S /\ n \notin L /\ Newest \in Nat
  <2>1. \A m \in L : m > n
    BY DEF Later
  <2>2. Newest \in Nat
    BY DEF Newest, TypeInv, TaskInv, TaskType
  <2>3. \A m \in L : m \in ActiveOn(s) /\ m \in Nat /\ m > n
    BY <1>3, <2>1
  <2>4. n \notin L
    BY <1>3, <2>1
  <2> HIDE DEF L
  <2>5. \A m \in L \cup {n} : m \in ActiveOn(s) /\ m >= n
    BY <1>3, <2>3
  <2> QED BY <2>2, <2>4, <2>5
<1> HIDE DEF L, S
<1>6. IsFiniteSet(L \cup {n}) /\ Cardinality(L \cup {n}) = Cardinality(L) + 1
  BY <1>3, <1>5, FS_AddElement
<1>7. Cardinality(L \cup {n}) <= Cardinality(S)
  BY <1>4, <1>5, FS_Subset
<1>8. Cardinality(S) <= PalSize
  BY <1>1, <1>2, <1>4 DEF S
<1>9. Cardinality(L) + 1 <= PalSize
  BY <1>2, <1>3, <1>4, <1>6, <1>7, <1>8
<1>10. ASSUME Newest \in ActiveOn(s), PalDue(s) PROVE Cardinality(L) + 2 <= PalSize
  <2>1. Newest \notin L \cup {n} /\ Newest \in S
    <3>1. n # Newest /\ Newest \notin L
      BY <1>10 DEF L, Later, Adapted
    <3>2. Newest >= n
      BY <1>3, <1>5
    <3> QED BY <1>10, <3>1, <3>2 DEF S
  <2> DEFINE M == L \cup {n}
  <2>2. M \cup {Newest} \subseteq S /\ Newest \notin M
    BY <1>5, <2>1
  <2>3. IsFiniteSet(M) /\ Cardinality(M) = Cardinality(L) + 1
    BY <1>6
  <2> HIDE DEF M
  <2>4. Cardinality(M \cup {Newest}) = Cardinality(L) + 1 + 1
    BY <2>2, <2>3, FS_AddElement
  <2>5. Cardinality(M \cup {Newest}) <= Cardinality(S)
    BY <1>4, <2>2, FS_Subset
  <2> QED BY <1>2, <1>3, <1>4, <1>8, <2>4, <2>5
<1> QED BY <1>1, <1>9, <1>10 DEF L

-----------------------------------------------------------------------------
(* The parameters stay.                                                    *)

\* runIspAdapt for another sequence does not take the buffer an executor runs with.
LEMMA OtherBuffer ==
  ASSUME PalAssumption, TypeInv, EndInv, AddedWhileRunning, ParamInv, NEW act, NEW c,
         DagInv(act, c), NEW e \in Executors, ex[e].pc = "run", NEW s \in Streams, s = e[1],
         AtStream(s), ex[e].seq # LastSequence,
         NEW node, node = NodeToWrite(ispParam[s], LastSequence)
  PROVE  node # ex[e].pal /\ ex[e].seq \in Nat /\ ex[e].seq < LastSequence
<1>1. TodoInv /\ SeqsGrow /\ FewTasks /\ DataInv(s) /\ PalOf(e)
  BY DEF ParamInv, DagInv, StreamInv, PalsInv, ExAt
<1>2. PICK n \in Adapted(s) :
        /\ tasks[n].seq = ex[e].seq
        /\ Newest \in ActiveOn(s) /\ PalDue(s) => Cardinality(Later(s, n)) + 2 <= PalSize
  BY <1>1, FewLater
<1>3. /\ PalDue(s) /\ Newest \in ActiveOn(s) /\ LastSequence \in Nat
      /\ tasks[n].seq <= LastSequence /\ tasks[n].seq \in Nat
      /\ Cardinality(Later(s, n)) \in Nat
  BY <1>1, AtNewest, TaskSeqs, TasksFinite DEF TypeInv
<1>4. ex[e].seq \in Nat /\ ex[e].seq < LastSequence
  BY <1>2, <1>3
<1>5. ASSUME node = ex[e].pal PROVE FALSE
  <2>1. ispParam[s].data \subseteq Nodes /\ \A a \in ispParam[s].data : a.key \in Int
    BY <1>1, KeyRange DEF TypeInv, PalInv, PalType
  <2>2. /\ node \in ispParam[s].data /\ node.key <= ex[e].seq
        /\ LastBefore(ispParam[s].data, node.key, ex[e].seq)
    BY <1>1, <1>5 DEF PalOf
  <2>3. node.key = LastSequence \/ \A a \in ispParam[s].data : node.key <= a.key
    BY <1>1, <1>3, <2>1, NodeChosen
  <2>4. node.key # LastSequence
    BY <1>3, <1>4, <2>1, <2>2
  <2>5. ASSUME NEW a \in ispParam[s].data PROVE a = node \/ a.key > ex[e].seq
    <3>1. a.key <= node.key \/ a.key > ex[e].seq
      BY <2>2 DEF LastBefore
    <3>2. a.key <= node.key => a.key = node.key
      BY <2>1, <2>2, <2>3, <2>4
    <3>3. a.key = node.key => a = node
      BY <1>1, <2>2 DEF DataInv
    <3> QED BY <3>1, <3>2, <3>3
  <2>6. Cardinality(Later(s, n)) >= PalSize - 1
    BY <1>1, <1>2, <2>1, <2>2, <2>5, OldestData DEF TypeInv
  <2>7. Cardinality(Later(s, n)) + 2 <= PalSize /\ PalSize \in Nat
    BY <1>2, <1>3, Constants
  <2> QED BY <1>3, <2>6, <2>7
<1> QED BY <1>4, <1>5

\* What an executor runs with stays when the PAL has run for a task.
LEMMA PalKept ==
  ASSUME PalAssumption, TypeInv, EndInv, AddedWhileRunning, ParamInv, NEW act, NEW c,
         DagInv(act, c), NEW e \in Executors, ex[e].pc = "run", NEW s \in Streams, s = e[1],
         AtStream(s), tasks' = tasks, ex' = ex, ad' = AfterAdapt(s), NEW q, q = LastSequence,
         NEW node, node = NodeToWrite(ispParam[s], q),
         ispParam'[s] = AfterRun(ispParam[s], PalSize, q, node),
         q \in Keys(ispParam[s]) \/ q \notin NotRun["new"]
  PROVE  PalOf(e)'
<1> DEFINE data == ispParam[s].data
           data2 == ispParam'[s].data
           pal == ex[e].pal
           seq == ex[e].seq
<1>1. TodoInv /\ SeqsGrow /\ FewTasks /\ DataInv(s) /\ IdsInv(s) /\ PalOf(e)
  BY DEF ParamInv, DagInv, StreamInv, PalsInv, ExAt
<1>2. /\ pal \in data /\ pal.valid /\ pal.key <= seq
      /\ pal.key = seq \/ seq \in NotRun["new"]
      /\ LastBefore(data, pal.key, seq)
  BY <1>1 DEF PalOf
<1>3. /\ node \in data
      /\ \A a \in data : a = node \/ a \in data2
      /\ \A a \in data2 : a.key = q \/ (a \in data /\ a # node)
  BY <1>1, RanData
<1>4. /\ data \subseteq Nodes /\ \A a \in data : a.key \in Int /\ a.key <= q
      /\ q \in Nat
  BY <1>1, OlderKeys, AtNewest
<1>5. CASE seq = q
  <2>1. q \in Keys(ispParam[s]) => pal.key = q
    <3> SUFFICES ASSUME NEW a \in data, a.key = q PROVE pal.key = q
      BY DEF Keys
    <3>1. a.key <= pal.key
      BY <1>2, <1>4, <1>5 DEF LastBefore
    <3> QED BY <1>2, <1>4, <1>5, <3>1
  <2>2. pal.key = q
    BY <1>2, <1>5, <2>1
  <2>3. node = pal
    <3>1. q \in Keys(ispParam[s])
      BY <1>2, <2>2 DEF Keys
    <3>2. node.key = q
      BY <1>1, <1>4, <3>1, NodeChosen
    <3> QED BY <1>1, <1>2, <1>3, <2>2, <3>2 DEF DataInv
  <2>4. pal \in data2
    <3>1. pal = [key |-> q, buf |-> node.buf, valid |-> TRUE]
      <4>1. pal \in Nodes /\ pal.valid \in BOOLEAN
        BY <1>2, <1>4 DEF Nodes
      <4>2. pal = [key |-> pal.key, buf |-> pal.buf, valid |-> pal.valid]
        BY <4>1 DEF Nodes
      <4>3. pal.valid = TRUE
        BY <1>2, <4>1
      <4> QED BY <2>2, <2>3, <4>2, <4>3
    <3> HIDE DEF pal
    <3> QED BY <3>1 DEF AfterRun
  <2>5. LastBefore(data2, q, q)
    BY <1>3, <1>4 DEF LastBefore
  <2> QED BY <1>2, <1>5, <2>2, <2>4, <2>5 DEF PalOf
<1>6. CASE seq # q
  <2>1. node # pal /\ seq \in Nat /\ seq < q
    BY <1>6, OtherBuffer
  <2>2. pal \in data2
    BY <1>2, <1>3, <2>1
  <2>3. LastBefore(data2, pal.key, seq)
    BY <1>2, <1>3, <1>4, <2>1 DEF LastBefore
  <2> QED BY <1>2, <2>2, <2>3 DEF PalOf
<1> QED BY <1>5, <1>6

\* What the executors run with does not depend on anything else.
LEMMA PalSame ==
  ASSUME NEW e, PalOf(e), ispParam'[e[1]].data = ispParam[e[1]].data,
         ex'[e].pal = ex[e].pal, ex'[e].seq = ex[e].seq
  PROVE  PalOf(e)'
<1>1. (ispParam[e[1]].data)' = ispParam[e[1]].data /\ (ex[e].pal)' = ex[e].pal /\ (ex[e].seq)' = ex[e].seq
  OBVIOUS
<1> QED BY <1>1 DEF PalOf, LastBefore

\* Nor do the maps of a stream, but on its tasks and the marks in mOngoingPalMap.
LEMMA StreamSame ==
  ASSUME NEW s, StreamInv(s), ispParam'[s] = ispParam[s], Adapted(s)' = Adapted(s),
         \A n \in Adapted(s) : tasks'[n].seq = tasks[n].seq,
         \A q \in Sequences0 : s \in mOngoingPalMap'[q] => s \in mOngoingPalMap[q],
         LastSequence \in Int, LastSequence' \in Int, LastSequence <= LastSequence'
  PROVE  StreamInv(s)'
<1>1. /\ (ispParam[s].data)' = ispParam[s].data /\ (ispParam[s].ids)' = ispParam[s].ids
      /\ Keys(ispParam[s])' = Keys(ispParam[s])
  BY DEF Keys
<1>2. DataInv(s)'
  BY <1>1 DEF StreamInv, DataInv
<1>3. IdsInv(s)'
  BY <1>1 DEF StreamInv, IdsInv, LastBefore
<1>4. \A q : Found(s, q)' <=> Found(s, q)
  BY <1>1 DEF Found
<1>5. WindowInv(s)'
  <2> SUFFICES ASSUME NEW n \in Adapted(s)', Cardinality(Later(s, n)') < PalSize
               PROVE  Found(s, tasks[n].seq)'
    BY DEF WindowInv
  <2>1. n \in Adapted(s) /\ Later(s, n)' = Later(s, n)
    BY DEF Later
  <2>2. Found(s, tasks[n].seq)
    BY <2>1 DEF StreamInv, WindowInv
  <2>3. PICK x : x = tasks[n].seq
    OBVIOUS
  <2>4. Found(s, x)' /\ tasks'[n].seq = x
    BY <1>4, <2>1, <2>2, <2>3
  <2> QED BY <2>4
<1>6. PalMapInv(s)'
  <2> SUFFICES ASSUME NEW q \in Sequences0, s \in mOngoingPalMap'[q]
               PROVE  q <= LastSequence' /\ (q = LastSequence' => Found(s, q)')
    BY DEF PalMapInv, Sequences0, MaxSequence, MaxTasks
  <2>1. q <= LastSequence /\ (q = LastSequence => Found(s, q)) /\ q \in Int
    BY Constants DEF StreamInv, PalMapInv, Sequences0
  <2>2. q <= LastSequence' /\ (q = LastSequence' => q = LastSequence)
    BY <2>1
  <2> QED BY <1>4, <2>1, <2>2
<1> QED BY <1>2, <1>3, <1>5, <1>6 DEF StreamInv

-----------------------------------------------------------------------------
(* The parameters, action by action.                                       *)

\* The sequence of the newest task, or -1
LEMMA LastType ==
  ASSUME TypeInv
  PROVE  LastSequence \in Int
<1>1. CASE tasks = <<>>
  BY <1>1 DEF LastSequence
<1>2. CASE tasks # <<>>
  BY <1>2, NewestType, Constants DEF TypeInv, Sequences0
<1> QED BY <1>1, <1>2

\* A step that leaves the tasks, the maps and the progress of prepareIpuParams alone.
LEMMA MapsSame ==
  ASSUME TypeInv, ParamInv, tasks' = tasks, ispParam' = ispParam,
         \A s \in Streams : PalDue(s)' <=> PalDue(s),
         \A q \in Sequences0 : mOngoingPalMap'[q] \subseteq mOngoingPalMap[q]
  PROVE  SeqsGrow' /\ \A s \in Streams : StreamInv(s)'
<1>1. SeqsGrow'
  BY DEF ParamInv, SeqsGrow
<1>2. LastSequence \in Int /\ LastSequence' = LastSequence /\ LastSequence <= LastSequence'
  <2>1. LastSequence \in Int /\ LastSequence' = LastSequence
    BY LastType DEF LastSequence, Newest
  <2> QED BY <2>1
<1>3. ASSUME NEW s \in Streams PROVE StreamInv(s)'
  <2>1. Adapted(s)' = Adapted(s)
    BY DEF Adapted, ActiveOn, Newest, getActiveStreamIds
  <2>2. StreamInv(s)
    BY DEF ParamInv
  <2> QED BY <1>2, <2>1, <2>2, StreamSame
<1> QED BY <1>1, <1>3

\* A stream whose PAL has run for the sequence is left out: both maps have what it needs.
LEMMA DoneKeeps ==
  ASSUME TypeInv, TypeInv', ParamInv, TodoInv, NEW s \in Streams, PalDone(s)
  PROVE  ParamInv'
<1>1. AtStream(s) /\ SeqsGrow /\ StreamInv(s)
  BY DEF AtStream, PalDone, Adapting, ParamInv
<1>2. /\ tasks' = tasks /\ mOngoingTasks' = mOngoingTasks /\ ex' = ex /\ ispParam' = ispParam
      /\ mOngoingPalMap' = mOngoingPalMap /\ ad' = AfterAdapt(s)
      /\ s \in mOngoingPalMap[LastSequence]
  BY DEF PalDone, taskVars, palVars
<1>3. /\ ad'.pc # "write" /\ Adapted(s)' = Adapted(s) \cup {Newest}
      /\ \A t \in Streams : t # s => Adapted(t)' = Adapted(t)
      /\ \A n \in Adapted(s) : Cardinality(Later(s, n)') = Cardinality(Later(s, n)) + 1
  BY <1>1, <1>2, StreamDone
<1>4. PICK q : q = LastSequence
  OBVIOUS
<1>5. q \in Sequences0 /\ q = tasks[Newest].seq /\ LastSequence' = q /\ q \in Int
  BY <1>1, <1>2, <1>4, AtNewest DEF LastSequence, Newest
<1>6. Found(s, q)
  BY <1>1, <1>2, <1>4, <1>5 DEF StreamInv, PalMapInv
<1>7. \A x : Found(s, x)' <=> Found(s, x)
  BY <1>2 DEF Found, Keys
<1>8. StreamInv(s)'
  <2>1. DataInv(s)'
    <3>1. \A a \in ispParam[s].data : a.key >= 0 => \E n \in Adapted(s)' : tasks[n].seq = a.key
      BY <1>1, <1>3 DEF StreamInv, DataInv
    <3> QED BY <1>1, <1>2, <3>1 DEF StreamInv, DataInv
  <2>2. IdsInv(s)'
    <3>1. \A x \in DOMAIN ispParam[s].ids : x = -1 \/ \E n \in Adapted(s)' : tasks[n].seq = x
      BY <1>1, <1>3 DEF StreamInv, IdsInv
    <3> QED BY <1>1, <1>2, <3>1 DEF StreamInv, IdsInv, LastBefore
  <2>3. WindowInv(s)'
    <3> SUFFICES ASSUME NEW n \in Adapted(s)', Cardinality(Later(s, n)') < PalSize
                 PROVE  Found(s, tasks[n].seq)'
      BY DEF WindowInv
    <3>1. CASE n = Newest
      BY <1>2, <1>5, <1>6, <1>7, <3>1
    <3>2. CASE n \in Adapted(s)
      <4>1. Cardinality(Later(s, n)) \in Nat
        BY <3>2, TaskSeqs, TasksFinite DEF TypeInv
      <4>2. Cardinality(Later(s, n)) < PalSize
        BY <1>3, <3>2, <4>1, Constants
      <4>3. PICK x : x = tasks[n].seq
        OBVIOUS
      <4>4. Found(s, x)
        BY <1>1, <3>2, <4>2, <4>3 DEF StreamInv, WindowInv
      <4> QED BY <1>2, <1>7, <4>3, <4>4
    <3> QED BY <1>3, <3>1, <3>2
  <2>4. PalMapInv(s)'
    BY <1>1, <1>2, <1>4, <1>5, <1>7 DEF StreamInv, PalMapInv, Sequences0, MaxSequence, MaxTasks
  <2> QED BY <2>1, <2>2, <2>3, <2>4 DEF StreamInv
<1>9. ASSUME NEW t \in Streams, t # s PROVE StreamInv(t)'
  <2>1. StreamInv(t) /\ Adapted(t)' = Adapted(t) /\ LastSequence <= LastSequence'
    BY <1>3, <1>4, <1>5, <1>9 DEF ParamInv
  <2> QED BY <1>2, <1>4, <1>5, <2>1, StreamSame
<1>10. SeqsGrow' /\ FewTasks' /\ WriteInv'
  BY <1>1, <1>2, <1>3 DEF SeqsGrow, FewTasks, WriteInv, ParamInv
<1>11. PalsInv'
  BY <1>2 DEF PalsInv, PalOf, LastBefore, ExAt, ParamInv
<1> QED BY <1>8, <1>9, <1>10, <1>11 DEF ParamInv

\* runIspAdapt writes the maps.
LEMMA WrittenKeeps ==
  ASSUME PalAssumption, TypeInv, TypeInv', EndInv, AddedWhileRunning, ParamInv, NEW act, NEW c,
         DagInv(act, c), NEW s \in Streams, PalWritten(s)
  PROVE  ParamInv'
<1>1. AtStream(s) /\ SeqsGrow /\ StreamInv(s) /\ TodoInv
  BY DEF AtStream, PalWritten, ParamInv, DagInv, TodoInv
<1>2. /\ tasks' = tasks /\ mOngoingTasks' = mOngoingTasks /\ ex' = ex /\ ad' = AfterAdapt(s)
      /\ mOngoingPalMap' = [mOngoingPalMap EXCEPT ![LastSequence] = @ \cup {s}]
  BY DEF PalWritten, taskVars, palVars
<1>3. /\ ad'.pc # "write"
      /\ \A t \in Streams : t # s => Adapted(t)' = Adapted(t)
  BY <1>1, <1>2, StreamDone
<1>4. PICK q : q = LastSequence
  OBVIOUS
<1>5. q \in Sequences0 /\ LastSequence' = q /\ q \in Int
  BY <1>1, <1>2, <1>4, AtNewest DEF LastSequence, Newest
<1>6. PICK node : node = NodeToWrite(ispParam[s], q)
  OBVIOUS
<1>7. ad.node = node
  BY <1>4, <1>6 DEF ParamInv, WriteInv, PalWritten
<1>8. PICK ran \in BOOLEAN :
        /\ ispParam' = [ispParam EXCEPT ![s] = ranIspAdapt(s, ran)]
        /\ ~ ran => q \notin Keys(ispParam[s]) /\ q \in NotRun["new"]
        /\ ran => q \in Keys(ispParam[s]) \/ q \notin NotRun["new"]
  <2> DEFINE case == IF LastSequence \in Keys(ispParam[s]) THEN "again" ELSE "new"
             ran == LastSequence \notin NotRun[case]
  <2>1. ispParam' = [ispParam EXCEPT ![s] = ranIspAdapt(s, ran)]
    BY DEF PalWritten
  <2>2. q \in Keys(ispParam[s]) => ran
    BY <1>4 DEF PalAssumption
  <2>3. q \notin Keys(ispParam[s]) => (ran <=> q \notin NotRun["new"])
    BY <1>4
  <2>4. ran \in BOOLEAN
    OBVIOUS
  <2> HIDE DEF ran
  <2> QED BY <2>1, <2>2, <2>3, <2>4
<1>9. DOMAIN ispParam = Streams
  BY DEF TypeInv, PalInv, PalType
<1>10. /\ ispParam'[s] = IF ran THEN AfterRun(ispParam[s], PalSize, q, node)
                         ELSE AfterNoRun(ispParam[s], PalSize, q, node)
       /\ \A t \in Streams : t # s => ispParam'[t] = ispParam[t]
  BY <1>4, <1>7, <1>8, <1>9 DEF ranIspAdapt
<1>11. DataInv(s)' /\ IdsInv(s)' /\ WindowInv(s)' /\ Found(s, q)'
  <2>1. CASE ran
    BY <1>1, <1>2, <1>4, <1>6, <1>10, <2>1, RanKeeps DEF StreamInv
  <2>2. CASE ~ ran
    BY <1>1, <1>2, <1>4, <1>8, <1>10, <2>2, NotRanKeeps DEF StreamInv
  <2> QED BY <2>1, <2>2
<1>12. \A x \in Sequences0 : x # q => mOngoingPalMap'[x] = mOngoingPalMap[x]
  BY <1>2, <1>4 DEF TypeInv, PalInv, PalType
<1>13. PalMapInv(s)'
  <2> SUFFICES ASSUME NEW x \in Sequences0, s \in mOngoingPalMap'[x]
               PROVE  x <= LastSequence' /\ (x = LastSequence' => Found(s, x)')
    BY DEF PalMapInv, Sequences0, MaxSequence, MaxTasks
  <2>1. CASE x = q
    BY <1>5, <1>11, <2>1
  <2>2. CASE x # q
    <3>1. s \in mOngoingPalMap[x]
      BY <1>12, <2>2
    <3>2. x <= q
      BY <1>1, <1>4, <3>1 DEF StreamInv, PalMapInv
    <3> QED BY <1>5, <2>2, <3>2
  <2> QED BY <2>1, <2>2
<1>14. ASSUME NEW t \in Streams, t # s PROVE StreamInv(t)'
  <2>1. StreamInv(t) /\ Adapted(t)' = Adapted(t) /\ LastSequence <= LastSequence'
        /\ ispParam'[t] = ispParam[t]
    BY <1>3, <1>4, <1>5, <1>10, <1>14 DEF ParamInv
  <2>2. \A x \in Sequences0 : t \in mOngoingPalMap'[x] => t \in mOngoingPalMap[x]
    BY <1>2, <1>14 DEF TypeInv, PalInv, PalType
  <2> QED BY <1>2, <1>4, <1>5, <2>1, <2>2, StreamSame
<1>15. ASSUME NEW e \in Executors, ExAt(e, "run") PROVE PalOf(e)'
  <2>1. PalOf(e) /\ ex[e].pc = "run" /\ e[1] \in Streams
    BY <1>15, Neighbours DEF ParamInv, PalsInv, ExAt
  <2>2. CASE e[1] = s /\ ran
    BY <1>1, <1>2, <1>4, <1>6, <1>8, <1>10, <2>1, <2>2, PalKept
  <2>3. CASE e[1] = s /\ ~ ran
    <3>1. ispParam'[s].data = ispParam[s].data
      BY <1>1, <1>2, <1>4, <1>8, <1>10, <2>3, NotRanKeeps DEF StreamInv
    <3> QED BY <1>2, <2>1, <2>3, <3>1, PalSame
  <2>4. CASE e[1] # s
    BY <1>2, <1>10, <2>1, <2>4, PalSame
  <2> QED BY <2>2, <2>3, <2>4
<1>16. PalsInv'
  BY <1>2, <1>15 DEF PalsInv, ExAt
<1>17. SeqsGrow' /\ FewTasks' /\ WriteInv'
  BY <1>1, <1>2, <1>3 DEF SeqsGrow, FewTasks, WriteInv, ParamInv
<1> QED BY <1>11, <1>13, <1>14, <1>16, <1>17 DEF ParamInv, StreamInv

\* runIspAdapt chooses the buffer; queueBuffers does not come to the parameters.
LEMMA AddingSame ==
  ASSUME TypeInv, ParamInv,
         (\E s \in Streams : runIspAdapt(s)) \/ QueueInput \/ QueueOutput \/ UNCHANGED vars
  PROVE  ParamInv'
<1>1. /\ tasks' = tasks /\ mOngoingTasks' = mOngoingTasks /\ ex' = ex /\ ispParam' = ispParam
      /\ mOngoingPalMap' = mOngoingPalMap
  BY DEF runIspAdapt, QueueInput, QueueOutput, vars, taskVars, palVars
<1>2. ad \in Adders /\ ParamInv
  BY DEF TypeInv, AdderInv
<1>3. (\A s \in Streams : PalDue(s)' <=> PalDue(s)) /\ WriteInv'
  <2>1. ASSUME NEW s \in Streams, runIspAdapt(s)
        PROVE  (\A t \in Streams : PalDue(t)' <=> PalDue(t)) /\ WriteInv'
    <3>1. /\ ad.pc = "adapt" /\ s = Min(ad.todo)
          /\ ad' = [ad EXCEPT !.pc = "write", !.node = NodeToWrite(ispParam[s], LastSequence)]
      BY <2>1 DEF runIspAdapt, Adapting
    <3>2. /\ ad'.pc = "write" /\ ad'.todo = ad.todo
          /\ ad'.node = NodeToWrite(ispParam[s], LastSequence)
      BY <1>2, <3>1 DEF Adders
    <3>3. \A t \in Streams : PalDue(t)' <=> PalDue(t)
      BY <3>1, <3>2 DEF PalDue
    <3>4. WriteInv'
      BY <1>1, <3>1, <3>2 DEF WriteInv, LastSequence, Newest
    <3> QED BY <3>3, <3>4
  <2>2. ASSUME QueueInput \/ QueueOutput
        PROVE  (\A t \in Streams : PalDue(t)' <=> PalDue(t)) /\ WriteInv'
    <3>1. ad.pc \in {"inputs", "outputs"} /\ ad'.pc \in {"inputs", "outputs", "idle"}
      <4>1. ASSUME NEW S PROVE [ad EXCEPT !.todo = S].pc = ad.pc
                               /\ [ad EXCEPT !.pc = "outputs", !.todo = S].pc = "outputs"
        BY <1>2 DEF Adders
      <4>2. CASE QueueInput
        <5> DEFINE S == ad.todo \ {Min(ad.todo)}
                   T == UNION {PortsOf[t] : t \in getActiveStreamIds(Newest)}
        <5>1. /\ ad.pc = "inputs"
              /\ \/ ad' = [ad EXCEPT !.todo = S]
                 \/ ad' = [ad EXCEPT !.pc = "outputs", !.todo = T]
          BY <4>2 DEF QueueInput
        <5> HIDE DEF S, T
        <5> QED BY <4>1, <5>1
      <4>3. CASE QueueOutput
        <5> DEFINE S == ad.todo \ {Min(ad.todo)}
        <5>1. ad.pc = "outputs" /\ (ad' = IdleAdder \/ ad' = [ad EXCEPT !.todo = S])
          BY <4>3 DEF QueueOutput
        <5>2. IdleAdder.pc = "idle"
          BY DEF IdleAdder
        <5> HIDE DEF S
        <5> QED BY <4>1, <5>1, <5>2
      <4> QED BY <2>2, <4>2, <4>3
    <3> QED BY <3>1 DEF PalDue, WriteInv
  <2>3. ASSUME UNCHANGED vars
        PROVE  (\A t \in Streams : PalDue(t)' <=> PalDue(t)) /\ WriteInv'
    <3>1. ad' = ad
      BY <2>3 DEF vars
    <3> QED BY <1>1, <1>2, <3>1 DEF PalDue, WriteInv, LastSequence, Newest, ParamInv
  <2> QED BY <2>1, <2>2, <2>3
<1>4. SeqsGrow' /\ \A s \in Streams : StreamInv(s)'
  BY <1>1, <1>3, MapsSame
<1>5. FewTasks' /\ PalsInv'
  BY <1>1 DEF FewTasks, PalsInv, PalOf, LastBefore, ExAt, ParamInv
<1> QED BY <1>3, <1>4, <1>5 DEF ParamInv

\* A new task comes after all others, and nothing is marked for a sequence of its own.
LEMMA AddSame ==
  ASSUME PalAssumption, TypeInv, TypeInv', ParamInv, AddTask
  PROVE  ParamInv'
<1>1. PICK kind \in TaskKinds[Newest + 1] : \E step \in SequenceSteps :
         /\ LastSequence + step \in 0..MaxSequence
         /\ tasks' = Append(tasks, [ports |-> kind, seq |-> LastSequence + step])
         /\ ad' = [IdleAdder EXCEPT !.pc = "adapt", !.todo = StreamsOf(kind)]
  BY DEF AddTask
<1>2. PICK q : /\ q \in Nat /\ LastSequence <= q
               /\ tasks' = Append(tasks, [ports |-> kind, seq |-> q])
               /\ ad' = [IdleAdder EXCEPT !.pc = "adapt", !.todo = StreamsOf(kind)]
  <2>1. PICK step \in SequenceSteps :
         /\ LastSequence + step \in 0..MaxSequence
         /\ tasks' = Append(tasks, [ports |-> kind, seq |-> LastSequence + step])
         /\ ad' = [IdleAdder EXCEPT !.pc = "adapt", !.todo = StreamsOf(kind)]
    BY <1>1
  <2>2. step \in Nat /\ LastSequence \in Int
    BY LastType DEF PalAssumption
  <2>3. LastSequence + step \in Nat /\ LastSequence <= LastSequence + step
    BY <2>1, <2>2, Constants
  <2> QED BY <2>1, <2>3
<1>3. /\ ex' = ex /\ ispParam' = ispParam /\ mOngoingPalMap' = mOngoingPalMap
      /\ ad.pc = "idle" /\ Len(mOngoingTasks) < MaxInflight
      /\ mOngoingTasks' = Append(mOngoingTasks, [n |-> Newest + 1, returned |-> 0])
  BY DEF AddTask, palVars
<1>4. tasks \in Seq([ports : SUBSET Ports, seq : Sequences0]) /\ Len(tasks) \in Nat
      /\ DOMAIN tasks = 1..Len(tasks)
  BY DEF TypeInv, TaskInv, TaskType
<1>5. /\ DOMAIN tasks' = 1..(Len(tasks) + 1) /\ Len(tasks') = Len(tasks) + 1
      /\ \A n \in DOMAIN tasks : tasks'[n] = tasks[n]
      /\ tasks'[Len(tasks) + 1] = [ports |-> kind, seq |-> q]
  BY <1>2, <1>4
<1>6. Newest = Len(tasks) /\ Newest' = Len(tasks) + 1 /\ LastSequence' = q
      /\ LastSequence \in Int
  <2>1. tasks' # <<>> /\ Newest' = Len(tasks) + 1
    BY <1>4, <1>5 DEF Newest
  <2>2. [ports |-> kind, seq |-> q].seq = q
    OBVIOUS
  <2>3. (LastSequence)' = (tasks'[Len(tasks) + 1]).seq
    BY <2>1 DEF LastSequence
  <2> QED BY <1>5, <2>1, <2>2, <2>3, LastType DEF Newest
<1>7. ad'.pc = "adapt" /\ ad'.todo = StreamsOf(kind)
  BY <1>2 DEF IdleAdder
<1>8. \A n \in DOMAIN tasks : tasks[n].seq <= LastSequence /\ tasks[n].seq \in Nat
  <2> SUFFICES ASSUME NEW n \in DOMAIN tasks
               PROVE  tasks[n].seq <= LastSequence /\ tasks[n].seq \in Nat
    OBVIOUS
  <2>1. tasks # <<>> /\ Newest \in DOMAIN tasks /\ n <= Newest
    BY <1>4, <1>6
  <2>2. tasks[n].seq <= tasks[Newest].seq
    BY <2>1 DEF ParamInv, SeqsGrow
  <2>3. tasks[n] \in [ports : SUBSET Ports, seq : Sequences0]
    BY <1>4, ElementOfSeq
  <2> QED BY <2>1, <2>2, <2>3, Constants DEF LastSequence, Sequences0
<1>9. SeqsGrow'
  <2> SUFFICES ASSUME NEW m \in DOMAIN tasks', NEW n \in DOMAIN tasks', m <= n
               PROVE  tasks'[m].seq <= tasks'[n].seq
    BY DEF SeqsGrow
  <2>1. tasks'[Len(tasks) + 1].seq = q
    BY <1>5
  <2>2. CASE n \in DOMAIN tasks
    <3>1. m \in DOMAIN tasks
      BY <1>4, <1>5, <2>2
    <3> QED BY <1>5, <2>2, <3>1 DEF ParamInv, SeqsGrow
  <2>3. CASE n = Len(tasks) + 1
    <3>1. CASE m = n
      BY <1>2, <2>1, <2>3, <3>1
    <3>2. CASE m \in DOMAIN tasks
      BY <1>2, <1>5, <1>6, <1>8, <2>1, <2>3, <3>2
    <3> QED BY <1>4, <1>5, <2>3, <3>1, <3>2
  <2> QED BY <1>4, <1>5, <2>2, <2>3
<1>10. FewTasks'
  <2>1. mOngoingTasks \in Seq([n : DOMAIN tasks, returned : Nat])
    BY DEF TypeInv, TaskInv, TaskType
  <2>2. Len(mOngoingTasks') = Len(mOngoingTasks) + 1 /\ Len(mOngoingTasks) \in Nat
    BY <1>3, <2>1
  <2> QED BY <1>3, <2>2, DagAssumption DEF FewTasks
<1>11. ASSUME NEW s \in Streams PROVE StreamInv(s)'
  <2>1. ActiveOn(s)' \ {Len(tasks) + 1} = ActiveOn(s)
    <3>1. \A n \in DOMAIN tasks : (s \in getActiveStreamIds(n))' <=> s \in getActiveStreamIds(n)
      BY <1>5 DEF getActiveStreamIds
    <3>2. \A n : n \in DOMAIN tasks <=> n \in DOMAIN tasks' /\ n # Len(tasks) + 1
      BY <1>4, <1>5
    <3> QED BY <3>1, <3>2 DEF ActiveOn
  <2>2. Len(tasks) + 1 \in ActiveOn(s)' => PalDue(s)'
    <3>1. PICK k : k = Len(tasks) + 1
      OBVIOUS
    <3>2. getActiveStreamIds(k)' = StreamsOf(kind)
      <4>1. tasks'[k].ports = kind
        BY <1>5, <3>1
      <4> QED BY <4>1 DEF getActiveStreamIds, StreamsOf
    <3>3. k \in ActiveOn(s)' => PalDue(s)'
      BY <1>7, <3>2 DEF ActiveOn, PalDue
    <3> QED BY <3>1, <3>3
  <2>3. Adapted(s) = ActiveOn(s)
    BY <1>3 DEF Adapted, PalDue
  <2>4. Adapted(s)' = Adapted(s)
    <3>1. Adapted(s)' \subseteq ActiveOn(s)' /\ Len(tasks) + 1 \notin Adapted(s)'
      BY <1>6, <2>2 DEF Adapted
    <3>2. ActiveOn(s)' \ {Len(tasks) + 1} \subseteq Adapted(s)'
      BY <1>6 DEF Adapted
    <3> QED BY <2>1, <2>3, <3>1, <3>2
  <2>5. \A n \in Adapted(s) : tasks'[n].seq = tasks[n].seq
    BY <1>5 DEF Adapted, ActiveOn
  <2>6. StreamInv(s)
    BY DEF ParamInv
  <2>7. LastSequence \in Int /\ LastSequence' \in Int /\ LastSequence <= LastSequence'
    BY <1>2, <1>6
  <2>8. /\ ispParam'[s] = ispParam[s]
        /\ \A x \in Sequences0 : s \in mOngoingPalMap'[x] => s \in mOngoingPalMap[x]
    BY <1>3
  <2> QED BY <2>4, <2>5, <2>6, <2>7, <2>8, StreamSame
<1>12. PalsInv' /\ WriteInv'
  BY <1>3, <1>7 DEF PalsInv, PalOf, LastBefore, ExAt, WriteInv, ParamInv
<1> QED BY <1>9, <1>10, <1>11, <1>12 DEF ParamInv

\* getIpuParameter gives the executor the buffer of its frame.
LEMMA GetsPal ==
  ASSUME PalAssumption, TypeInv, EndInv, AddedWhileRunning, ParamInv, NEW act, NEW c,
         DagInv(act, c), NEW e \in Executors, GetPal(e)
  PROVE  PalOf(e)'
<1>1. PICK s : s = e[1] /\ s \in Streams
  BY Neighbours
<1>2. PICK seq : seq = ex[e].seq
  OBVIOUS
<1>3. PICK pal : pal = getIpuParameter(ispParam[s], seq)
  OBVIOUS
<1>4. /\ ex[e].pc = "pal" /\ ispParam' = ispParam
      /\ ex' = [ex EXCEPT ![e].pc = "run", ![e].pal = pal]
  BY <1>1, <1>2, <1>3 DEF GetPal, ExAt, palVars
<1>5. ex'[e].pal = pal /\ ex'[e].seq = seq
  <2>1. ex \in [Executors -> Threads] /\ ex[e] \in Threads
    BY DEF TypeInv
  <2> QED BY <1>2, <1>4, <2>1 DEF Threads
<1>6. DataInv(s) /\ IdsInv(s) /\ WindowInv(s) /\ FewTasks
  BY <1>1 DEF ParamInv, StreamInv
<1>7. PICK n \in Adapted(s) : tasks[n].seq = seq /\ Cardinality(Later(s, n)) + 1 <= PalSize
  BY <1>1, <1>2, <1>4, <1>6, FewLater
<1>8. Found(s, seq)
  <2>1. Cardinality(Later(s, n)) \in Nat /\ PalSize \in Nat
    BY TaskSeqs, TasksFinite, Constants DEF TypeInv
  <2>2. Cardinality(Later(s, n)) < PalSize
    BY <1>7, <2>1
  <2> QED BY <1>6, <1>7, <2>2 DEF WindowInv
<1>9. pal \in ispParam[s].data /\ pal.key = ispParam[s].ids[seq]
  BY <1>3, <1>6, <1>8, ParameterFound
<1>10. /\ pal.key \in -1..seq /\ (pal.key = seq \/ seq \in NotRun["new"])
       /\ LastBefore(ispParam[s].data, pal.key, seq)
  BY <1>6, <1>8, <1>9 DEF IdsInv, Found
<1>11. seq \in Nat
  BY <1>7, TaskSeqs DEF TypeInv
<1>12. pal.valid /\ pal.key <= seq
  BY <1>6, <1>9, <1>10, <1>11 DEF DataInv
<1>13. (ex[e].pal)' = pal /\ (ex[e].seq)' = seq /\ (ispParam[e[1]])' = ispParam[s]
  BY <1>1, <1>4, <1>5
<1> QED BY <1>9, <1>10, <1>12, <1>13 DEF PalOf, LastBefore

\* Where the threads of the executors come to run.
RunsStill(e) ==
    ex'[e].pc = "run" => ex[e].pc = "run" /\ ex'[e].pal = ex[e].pal /\ ex'[e].seq = ex[e].seq

\* An executor runs a pipe only with the parameters it has just taken.
LEMMA ExecutorRunsStill ==
  ASSUME TypeInv, NEW e \in Executors, ExecutorStep(e) \/ RunFails(e)
  PROVE  /\ \A f \in Executors : RunsStill(f) \/ (f = e /\ GetPal(e))
         /\ ad' = ad /\ tasks' = tasks /\ ispParam' = ispParam
<1>1. ad' = ad /\ tasks' = tasks /\ ispParam' = ispParam
  BY DEF ExecutorStep, Fetch, ThreadExits, WaitPolicy, WaitTimesOut, GetPal, NotifyConsumer,
         onFrameDone, BufferDone, returnBuffers, ReturnInput, RunFails, taskVars, palVars
<1>2. ASSUME \A f \in Executors : f # e => ex'[f] = ex[f], ex'[e].pc # "run"
      PROVE  \A f \in Executors : RunsStill(f)
  BY <1>2 DEF RunsStill
<1>3. CASE GetPal(e)
  <2>1. \A f \in Executors : f # e => ex'[f] = ex[f]
    BY <1>3, GetPalEffect
  <2> QED BY <1>1, <1>3, <2>1 DEF RunsStill
<1>4. CASE WaitPolicy(e)
  <2>1. ex \in [Executors -> Threads]
    BY DEF TypeInv
  <2>2. \/ ExGoto(e, "pal") \/ ExGoto(e, "sleep")
        \/ ex' = [f \in Executors |-> IF f = e \/ ExAt(f, "sleep")
                                      THEN [ex[f] EXCEPT !.pc = "pal"] ELSE ex[f]]
    BY <1>4 DEF WaitPolicy
  <2>3. \A f \in Executors : [ex[f] EXCEPT !.pc = "pal"].pc = "pal"
                             /\ [ex[f] EXCEPT !.pc = "sleep"].pc = "sleep"
    BY <2>1 DEF Threads
  <2>4. CASE ExGoto(e, "pal") \/ ExGoto(e, "sleep")
    <3>1. /\ \A f \in Executors : f # e => ex'[f] = ex[f]
          /\ ex'[e] = [ex[e] EXCEPT !.pc = "pal"] \/ ex'[e] = [ex[e] EXCEPT !.pc = "sleep"]
      BY <2>1, <2>4 DEF ExGoto
    <3> QED BY <1>1, <1>2, <2>3, <3>1
  <2>5. CASE ~ (ExGoto(e, "pal") \/ ExGoto(e, "sleep"))
    <3>1. \A f \in Executors : ex'[f] = ex[f] \/ ex'[f] = [ex[f] EXCEPT !.pc = "pal"]
      BY <2>2, <2>5
    <3> QED BY <1>1, <2>3, <3>1 DEF RunsStill
  <2> QED BY <2>4, <2>5
<1>5. CASE ~ GetPal(e) /\ ~ WaitPolicy(e)
  <2>1. \A f \in Executors : f # e => ex'[f] = ex[f]
    BY <1>5, FetchEffect, ExitsEffect, TimeoutEffect, NotifyEffect, FrameDoneEffect,
       CallbackEffect, ReturnEffect, FailEffect DEF ExecutorStep
  <2>2. ex'[e].pc # "run"
    BY <1>5, FetchEffect, ExitsEffect, TimeoutEffect, NotifyEffect, FrameDoneEffect,
       CallbackEffect, ReturnEffect, FailEffect DEF ExecutorStep
  <2> QED BY <1>1, <1>2, <2>1, <2>2
<1> QED BY <1>3, <1>4, <1>5

\* Nor do start, stop and the switch of the pipe make one run.
LEMMA ControlRunsStill ==
  ASSUME TypeInv, setActive \/ start \/ stopProcessing \/ notifyStop \/ JoinExecutor
  PROVE  /\ \A f \in Executors : RunsStill(f)
         /\ ad' = ad /\ tasks' = tasks /\ ispParam' = ispParam
         /\ mOngoingTasks' = mOngoingTasks /\ mOngoingPalMap' = mOngoingPalMap
<1>1. /\ ad' = ad /\ tasks' = tasks /\ ispParam' = ispParam
      /\ mOngoingTasks' = mOngoingTasks /\ mOngoingPalMap' = mOngoingPalMap
  BY DEF setActive, start, stopProcessing, notifyStop, JoinExecutor, taskVars, palVars
<1>2. ex \in [Executors -> Threads]
  BY DEF TypeInv
<1>3. CASE setActive \/ stopProcessing
  <2>1. ex' = [e \in Executors |-> IF ex[e].pc = "sleep" THEN [ex[e] EXCEPT !.pc = "pal"] ELSE ex[e]]
    BY <1>3 DEF setActive, stopProcessing, ExAt
  <2>2. \A f \in Executors : [ex[f] EXCEPT !.pc = "pal"].pc = "pal"
    BY <1>2 DEF Threads
  <2>3. \A f \in Executors : ex'[f] = ex[f] \/ ex'[f] = [ex[f] EXCEPT !.pc = "pal"]
    BY <2>1
  <2> QED BY <1>1, <2>2, <2>3 DEF RunsStill
<1>4. CASE start
  BY <1>1, <1>4, StartEffect DEF RunsStill
<1>5. CASE notifyStop
  <2>1. ex' = [e \in Executors |-> [ex[e] EXCEPT !.running = FALSE]]
    BY <1>5 DEF notifyStop
  <2>2. ASSUME NEW f \in Executors PROVE RunsStill(f)
    <3> DEFINE t == ex[f]
               u == [t EXCEPT !.running = FALSE]
    <3>1. t \in Threads /\ ex'[f] = u
      BY <1>2, <2>1
    <3> HIDE DEF t
    <3>2. u.pc = t.pc /\ u.pal = t.pal /\ u.seq = t.seq
      BY <3>1 DEF Threads
    <3> HIDE DEF u
    <3> QED BY <3>1, <3>2 DEF RunsStill, t
  <2> QED BY <1>1, <2>2
<1>6. CASE JoinExecutor
  <2>1. ex' = ex
    BY <1>6 DEF JoinExecutor
  <2> QED BY <1>1, <2>1 DEF RunsStill
<1> QED BY <1>3, <1>4, <1>5, <1>6

\* onFrameDone() takes tasks out of mOngoingTasks and marks out of mOngoingPalMap.
LEMMA FrameDoneFewer ==
  ASSUME TypeInv, NEW e \in Executors, ExecutorStep(e) \/ RunFails(e)
  PROVE  /\ Len(mOngoingTasks') <= Len(mOngoingTasks)
         /\ \A q \in Sequences0 : mOngoingPalMap'[q] \subseteq mOngoingPalMap[q]
<1>1. /\ mOngoingTasks \in Seq([n : DOMAIN tasks, returned : Nat])
      /\ mOngoingPalMap \in [Sequences0 -> SUBSET Streams]
      /\ Len(mOngoingTasks) \in Nat
  BY DEF TypeInv, TaskInv, TaskType, PalInv, PalType
<1>2. CASE ~ onFrameDone(e)
  <2>1. mOngoingTasks' = mOngoingTasks /\ mOngoingPalMap' = mOngoingPalMap
    BY <1>2 DEF ExecutorStep, Fetch, ThreadExits, WaitPolicy, WaitTimesOut, GetPal,
           NotifyConsumer, BufferDone, returnBuffers, ReturnInput, RunFails, taskVars, palVars
  <2> QED BY <1>1, <2>1
<1>3. CASE onFrameDone(e)
  <2> DEFINE S == TaskOf(e, CurrentPort(e))
             i == Min(S)
             done == IsComplete(mOngoingTasks[i])
  <2>1. CASE S = {}
    <3>1. mOngoingTasks' = mOngoingTasks /\ mOngoingPalMap' = mOngoingPalMap
      BY <1>3, <2>1 DEF onFrameDone
    <3> QED BY <1>1, <3>1
  <2>2. CASE S # {}
    <3>1. /\ mOngoingTasks' = IF done THEN RemoveAt(mOngoingTasks, i)
                              ELSE [mOngoingTasks EXCEPT ![i].returned = @ + 1]
          /\ mOngoingPalMap' = [mOngoingPalMap EXCEPT ![ex[e].seq] = IF done THEN {} ELSE @]
      BY <1>3, <2>2 DEF onFrameDone
    <3>2. i \in DOMAIN mOngoingTasks
      BY <2>2, TaskOfPlace DEF TypeInv
    <3> HIDE DEF i, done
    <3>3. \A q \in Sequences0 : mOngoingPalMap'[q] \subseteq mOngoingPalMap[q]
      BY <1>1, <3>1
    <3>4. CASE done
      <4>1. mOngoingTasks' = RemoveAt(mOngoingTasks, i)
        BY <3>1, <3>4
      <4>2. Len(mOngoingTasks') = Len(mOngoingTasks) - 1
        BY <1>1, <3>2, <4>1, RemoveAtShifts
      <4> QED BY <1>1, <3>3, <4>2
    <3>5. CASE ~ done
      <4>1. mOngoingTasks' = [mOngoingTasks EXCEPT ![i].returned = @ + 1]
        BY <3>1, <3>5
      <4>2. Len(mOngoingTasks') = Len(mOngoingTasks)
        <5> DEFINE m == [mOngoingTasks[i] EXCEPT !.returned = @ + 1]
        <5>1. mOngoingTasks' = [mOngoingTasks EXCEPT ![i] = m]
          BY <4>1
        <5> HIDE DEF m
        <5> QED BY <1>1, <3>2, <5>1
      <4> QED BY <1>1, <3>3, <4>2
    <3> QED BY <3>4, <3>5
  <2> QED BY <2>1, <2>2
<1> QED BY <1>2, <1>3

-----------------------------------------------------------------------------
(* The theorem.                                                            *)

\* Every step keeps the parameters, unless a task is added while the DAG stops.
LEMMA ParamKept ==
  ASSUME PalAssumption, IInv, IInv', [Next]_vars, AddedWhileRunning, ParamInv,
         NEW act, NEW c, DagInv(act, c)
  PROVE  ParamInv'
<1>1. TypeInv /\ TypeInv' /\ EndInv /\ TodoInv
  BY DEF IInv, DagInv
<1>2. ASSUME \A e \in Executors : RunsStill(e) \/ GetPal(e),
             ad' = ad, tasks' = tasks, ispParam' = ispParam,
             Len(mOngoingTasks') <= Len(mOngoingTasks),
             \A q \in Sequences0 : mOngoingPalMap'[q] \subseteq mOngoingPalMap[q]
      PROVE  ParamInv'
  <2>1. SeqsGrow' /\ \A s \in Streams : StreamInv(s)'
    BY <1>1, <1>2, MapsSame DEF PalDue
  <2>2. WriteInv'
    BY <1>2 DEF WriteInv, LastSequence, Newest, ParamInv
  <2>3. FewTasks'
    <3>1. /\ mOngoingTasks \in Seq([n : DOMAIN tasks, returned : Nat])
          /\ mOngoingTasks' \in Seq([n : DOMAIN tasks', returned : Nat])
      BY <1>1 DEF TypeInv, TaskInv, TaskType
    <3>2. Len(mOngoingTasks) \in Nat /\ Len(mOngoingTasks') \in Nat
      BY <3>1
    <3> QED BY <1>2, <3>2, DagAssumption DEF FewTasks, ParamInv
  <2>4. ASSUME NEW e \in Executors, ExAt(e, "run")' PROVE PalOf(e)'
    <3>1. CASE GetPal(e)
      BY <1>1, <3>1, GetsPal
    <3>2. CASE RunsStill(e)
      <4>1. ExAt(e, "run") /\ ex'[e].pal = ex[e].pal /\ ex'[e].seq = ex[e].seq
        BY <2>4, <3>2 DEF RunsStill, ExAt
      <4>2. PalOf(e)
        BY <4>1 DEF ParamInv, PalsInv
      <4> QED BY <1>2, <4>1, <4>2, PalSame
    <3> QED BY <1>2, <3>1, <3>2
  <2> QED BY <2>1, <2>2, <2>3, <2>4 DEF ParamInv, PalsInv
<1>3. CASE (\E s \in Streams : runIspAdapt(s)) \/ QueueInput \/ QueueOutput \/ UNCHANGED vars
  BY <1>1, <1>3, AddingSame
<1>4. CASE \E s \in Streams : PalDone(s)
  BY <1>1, <1>4, DoneKeeps
<1>5. CASE \E s \in Streams : PalWritten(s)
  BY <1>1, <1>5, WrittenKeeps
<1>6. CASE AddTask
  BY <1>1, <1>6, AddSame
<1>7. CASE \E e \in Executors : ExecutorStep(e) \/ RunFails(e)
  <2>1. PICK e \in Executors : ExecutorStep(e) \/ RunFails(e)
    BY <1>7
  <2>2. /\ \A f \in Executors : RunsStill(f) \/ GetPal(f)
        /\ ad' = ad /\ tasks' = tasks /\ ispParam' = ispParam
    BY <1>1, <2>1, ExecutorRunsStill
  <2>3. /\ Len(mOngoingTasks') <= Len(mOngoingTasks)
        /\ \A q \in Sequences0 : mOngoingPalMap'[q] \subseteq mOngoingPalMap[q]
    BY <1>1, <2>1, FrameDoneFewer
  <2> QED BY <1>2, <2>2, <2>3
<1>8. CASE setActive \/ start \/ stopProcessing \/ notifyStop \/ JoinExecutor
  <2>1. /\ \A f \in Executors : RunsStill(f)
        /\ ad' = ad /\ tasks' = tasks /\ ispParam' = ispParam
        /\ mOngoingTasks' = mOngoingTasks /\ mOngoingPalMap' = mOngoingPalMap
    BY <1>1, <1>8, ControlRunsStill
  <2>2. Len(mOngoingTasks) \in Nat
    <3>1. mOngoingTasks \in Seq([n : DOMAIN tasks, returned : Nat])
      BY <1>1 DEF TypeInv, TaskInv, TaskType
    <3> QED BY <3>1
  <2>3. /\ Len(mOngoingTasks') <= Len(mOngoingTasks)
        /\ \A q \in Sequences0 : mOngoingPalMap'[q] \subseteq mOngoingPalMap[q]
    BY <2>1, <2>2
  <2> QED BY <1>2, <2>1, <2>3
<1> QED BY <1>3, <1>4, <1>5, <1>6, <1>7, <1>8 DEF Next, AddingThread, Stopping

\* The buffers as allocateIspParamBuffers() and configure() leave them.
LEMMA InitData ==
  ASSUME NEW data, data = InitialIspParameter(PalSize).data
  PROVE  /\ IsFiniteSet(data) /\ Cardinality(data) = PalSize
         /\ \A a, b \in data : a.key = b.key \/ a.buf = b.buf => a = b
         /\ \A a \in data : (a.valid <=> a.key >= -1) /\ a.key <= -1 /\ a.key \in Int
         /\ \E a \in data : a.key >= -1
<1> DEFINE node(i) == [key |-> IF i = PalSize THEN -1 ELSE -i - 1, buf |-> i,
                       valid |-> i = PalSize]
           f == [i \in 1..PalSize |-> node(i)]
<1>1. PalSize \in Nat /\ PalSize # 0 /\ PalSize \in 1..PalSize
  BY Constants
<1>2. data = {node(i) : i \in 1..PalSize}
  BY DEF InitialIspParameter
<1>3. \A i \in 1..PalSize : /\ node(i).key = IF i = PalSize THEN -1 ELSE -i - 1
                            /\ node(i).buf = i /\ node(i).valid = (i = PalSize)
  OBVIOUS
<1> HIDE DEF node
<1>4. \A i, j \in 1..PalSize : node(i).key = node(j).key \/ node(i).buf = node(j).buf => i = j
  <2> SUFFICES ASSUME NEW i \in 1..PalSize, NEW j \in 1..PalSize, node(i).key = node(j).key
               PROVE  i = j
    BY <1>3
  <2>1. (IF i = PalSize THEN -1 ELSE -i - 1) = (IF j = PalSize THEN -1 ELSE -j - 1)
    BY <1>3
  <2> QED BY <1>1, <2>1
<1>5. \A i \in 1..PalSize : /\ node(i).key <= -1 /\ node(i).key \in Int
                            /\ (node(i).key >= -1 <=> i = PalSize)
  <2> TAKE i \in 1..PalSize
  <2>1. i \in Nat /\ i # 0
    BY <1>1
  <2>2. node(i).key = IF i = PalSize THEN -1 ELSE -i - 1
    BY <1>3
  <2> QED BY <2>1, <2>2
<1>6. f \in Bijection(1..PalSize, data)
  <2>1. f \in [1..PalSize -> data] /\ \A i \in 1..PalSize : f[i] = node(i)
    BY <1>2
  <2>2. \A i, j \in 1..PalSize : f[i] = f[j] => i = j
    BY <1>4, <2>1
  <2>3. \A a \in data : \E i \in 1..PalSize : f[i] = a
    BY <1>2, <2>1
  <2> HIDE DEF f
  <2> QED BY <2>1, <2>2, <2>3 DEF Bijection, Injection, Surjection, IsInjective
<1>7. IsFiniteSet(1..PalSize) /\ Cardinality(1..PalSize) = PalSize
  <2>1. 1 \in Int /\ PalSize \in Int /\ ~ (1 > PalSize) /\ PalSize - 1 + 1 = PalSize
    BY <1>1
  <2> QED BY <2>1, FS_Interval
<1>8. IsFiniteSet(data) /\ Cardinality(data) = PalSize
  BY <1>6, <1>7, FS_Bijection DEF ExistsBijection
<1>9. \A a \in data : \E i \in 1..PalSize : a = node(i)
  BY <1>2
<1>10. node(PalSize) \in data /\ node(PalSize).key >= -1
  BY <1>1, <1>2, <1>5
<1>11. ASSUME NEW a \in data, NEW b \in data, a.key = b.key \/ a.buf = b.buf PROVE a = b
  BY <1>4, <1>9, <1>11
<1>12. ASSUME NEW a \in data PROVE (a.valid <=> a.key >= -1) /\ a.key <= -1 /\ a.key \in Int
  <2>1. PICK i \in 1..PalSize : a = node(i)
    BY <1>9
  <2> QED BY <1>3, <1>5, <2>1
<1> QED BY <1>8, <1>10, <1>11, <1>12

\* The maps of a DAG that has no tasks.
LEMMA InitParams == Init => ParamInv
<1> SUFFICES ASSUME Init PROVE ParamInv
  OBVIOUS
<1>1. /\ tasks = <<>> /\ mOngoingTasks = <<>> /\ ad = IdleAdder
      /\ mOngoingPalMap = [seq \in 0..MaxSequence |-> {}]
      /\ \A s \in Streams : ispParam[s] = InitialIspParameter(PalSize)
  BY DEF Init
<1>2. ad.pc = "idle" /\ DOMAIN tasks = {} /\ Len(mOngoingTasks) = 0
  BY <1>1 DEF IdleAdder
<1>3. SeqsGrow /\ FewTasks /\ WriteInv
  BY <1>2, DagAssumption DEF SeqsGrow, FewTasks, WriteInv
<1>4. PalsInv
  BY IdleExecutorType DEF Init, Points, PalsInv, ExAt
<1>5. ASSUME NEW s \in Streams PROVE StreamInv(s)
  <2>1. PICK data : data = InitialIspParameter(PalSize).data
    OBVIOUS
  <2>2. /\ IsFiniteSet(data) /\ Cardinality(data) = PalSize
        /\ \A a, b \in data : a.key = b.key \/ a.buf = b.buf => a = b
        /\ \A a \in data : (a.valid <=> a.key >= -1) /\ a.key <= -1 /\ a.key \in Int
        /\ \E a \in data : a.key >= -1
    BY <2>1, InitData
  <2>3. ispParam[s].data = data /\ ispParam[s].ids = [x \in {-1} |-> -1]
    <3>1. InitialIspParameter(PalSize).ids = [x \in {-1} |-> -1]
      BY DEF InitialIspParameter
    <3> QED BY <1>1, <2>1, <3>1
  <2>4. DataInv(s)
    <3>1. \A a \in data : ~ (a.key >= 0)
      BY <2>2
    <3> QED BY <2>2, <2>3, <3>1 DEF DataInv
  <2>5. IdsInv(s)
    <3>1. DOMAIN ispParam[s].ids = {-1} /\ ispParam[s].ids[-1] = -1 /\ IsFiniteSet({-1})
      BY <2>3, FS_Singleton
    <3>2. LastBefore(data, -1, -1)
      BY <2>2 DEF LastBefore
    <3> QED BY <2>3, <3>1, <3>2 DEF IdsInv
  <2>6. WindowInv(s)
    BY <1>2 DEF WindowInv, Adapted, ActiveOn
  <2>7. PalMapInv(s)
    BY <1>1 DEF PalMapInv, Sequences0
  <2> QED BY <2>4, <2>5, <2>6, <2>7 DEF StreamInv
<1> QED BY <1>3, <1>4, <1>5 DEF ParamInv

\* What the executors run with is theirs while they run.
LEMMA ParamStable ==
  ASSUME PalAssumption, IInv, AddedWhileRunning, ParamInv, NEW act, NEW c, DagInv(act, c)
  PROVE  PalStable
<1>1. TypeInv /\ EndInv /\ TodoInv
  BY DEF IInv, DagInv
<1> SUFFICES ASSUME NEW e \in Executors, ExAt(e, "run")
    PROVE  /\ ex[e].pal \in ispParam[e[1]].data
           /\ ex[e].pal.key <= ex[e].seq /\ ex[e].pal.valid
           /\ ad.pc = "write" /\ Min(ad.todo) = e[1] /\ ad.node.buf = ex[e].pal.buf
                => LastSequence = ex[e].seq
  BY DEF PalStable
<1>2. PalOf(e) /\ e[1] \in Streams
  BY Neighbours DEF ParamInv, PalsInv
<1>3. ASSUME ad.pc = "write", Min(ad.todo) = e[1], ad.node.buf = ex[e].pal.buf,
             LastSequence # ex[e].seq
      PROVE  FALSE
  <2>1. PICK s : s = e[1] /\ s \in Streams
    BY <1>2
  <2>2. AtStream(s) /\ DataInv(s) /\ SeqsGrow
    BY <1>1, <1>3, <2>1 DEF AtStream, TodoInv, ParamInv, StreamInv
  <2>3. PICK node : node = NodeToWrite(ispParam[s], LastSequence)
    OBVIOUS
  <2>4. ad.node = node
    BY <1>3, <2>1, <2>3 DEF ParamInv, WriteInv
  <2>5. node # ex[e].pal
    BY <1>1, <1>3, <2>1, <2>2, <2>3, OtherBuffer DEF ExAt
  <2>6. node \in ispParam[s].data
    <3>1. LastSequence \in Nat /\ ispParam[s].data \subseteq Nodes
      BY <1>1, <2>1, <2>2, AtNewest DEF TypeInv, PalInv, PalType
    <3> QED BY <2>2, <2>3, <3>1, NodeChosen
  <2>7. ex[e].pal \in ispParam[s].data /\ node.buf = ex[e].pal.buf
    BY <1>2, <1>3, <2>1, <2>4 DEF PalOf
  <2> QED BY <2>2, <2>5, <2>6, <2>7 DEF DataInv
<1> QED BY <1>2, <1>3 DEF PalOf

\* An executor runs with the parameters of its sequence, or with the last ones when the PAL
\* did not run for it, and no other sequence takes their buffer while it runs: for a
\* parameter queue that has a buffer for each task in work.
THEOREM ParametersStay ==
  ASSUME PalAssumption
  PROVE  Spec /\ []UsedOnce /\ []AddedWhileRunning => []PalStable
<1>1. IInv /\ IInv' /\ [Next]_vars /\ AddedWhileRunning /\ OrderInv /\ ParamInv => ParamInv'
  BY ParamKept DEF OrderInv
<1>2. IInv /\ AddedWhileRunning /\ OrderInv /\ ParamInv => PalStable
  BY ParamStable DEF OrderInv
<1> QED BY <1>1, <1>2, InitParams, OrderInvariance, Invariance, PTL DEF Spec

=============================================================================
