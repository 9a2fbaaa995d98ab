---------------------- MODULE RequestRefinement_proofs ----------------------
(***************************************************************************)
(* RequestThread implements RequestPath, for every configuration, every set *)
(* of streams and every number of requests and sessions.  A step of the     *)
(* HAL is one step of RequestPath or none: the steps that the application   *)
(* can tell from a stutter are qbuf, the hand-over, the return of a frame,  *)
(* its delivery, start(), and the pieces of stop().                         *)
(***************************************************************************)
EXTENDS RequestRefinement, RequestThread_proofs

\* The places of RequestPath.
Waiting    == IdsIn(mPendingRequests) \cup Held
Frames     == [s \in Streams |-> IdsIn(mFrameQueue[s])]

\* Requests are in the processors in the order of qbuf; a fake request is 0.
PipeOrder ==
    /\ \A i \in DOMAIN pipe : pipe[i].request.id <= rt.lastHanded
    /\ \A i, j \in DOMAIN pipe :
          i < j /\ pipe[j].request.id # 0 => pipe[i].request.id < pipe[j].request.id

\* Frames wait in the order of qbuf, and before what the processors hold: a stream that
\* is due has no frame of the first request there.
FrameOrder == \A s \in Streams :
    /\ \A m, n \in DOMAIN mFrameQueue[s] :
          m < n => mFrameQueue[s][m].id < mFrameQueue[s][n].id
    /\ \A n \in DOMAIN mFrameQueue[s] :
          /\ mFrameQueue[s][n].id # 0 /\ mFrameQueue[s][n].id <= rt.lastHanded
          /\ \A i \in DOMAIN pipe : pipe[i].request.id # 0 =>
                /\ mFrameQueue[s][n].id <= pipe[i].request.id
                /\ mFrameQueue[s][n].id = pipe[i].request.id => i = 1 /\ s \notin StreamsDue

\* The processors deliver one frame of their first request at a time.
DeliveryInv ==
    /\ pipe = <<>> => pipeStep.point = "stats"
    /\ inbox["psys"] = "EVENT_FRAME_AVAILABLE" =>
          /\ pipeStep.point = "frames"
          /\ \E s \in Streams : pipeStep.current = {s} /\ s \notin pipeStep.left

\* clearRequests() has made the device inactive.
ClearInv == app.pc = "clearFrames" => ~ mActive

ReturnInv == PipeOrder /\ FrameOrder /\ DeliveryInv /\ ClearInv

\* A device that may be started, or runs, was given a request since the last stop, and
\* clearRequests() comes first in a stop; the processors return frames in DEVICE_START.
Serving == {"idle", "wait1st", "woken1st"}
RunInv ==
    /\ app.pc \in Serving /\ mState \in {"DEVICE_BUFFER_READY", "DEVICE_START"} => mActive
    /\ app.pc \in {"wait1st", "woken1st"} => mState = "DEVICE_BUFFER_READY"
    /\ app.pc \notin Serving => ~ mActive
    /\ inbox["psys"] # "NONE" => mState = "DEVICE_START"

\* What RequestPath sees of the device does not change.
StartedSame ==
    /\ (mState' = "DEVICE_START") = (mState = "DEVICE_START")
    /\ app'.startFailed = app.startFailed

-----------------------------------------------------------------------------
(* The numbers in a queue.                                                 *)

\* The numbers of the requests that the processors hold, without fake ones.
IdsOf(jobs) == {jobs[n].request.id : n \in DOMAIN jobs} \ {0}

\* The places of a queue without its front.
LEMMA TailAt ==
  ASSUME NEW S, NEW q \in Seq(S), q # <<>>
  PROVE  /\ Len(q) \in Nat \ {0} /\ DOMAIN q = 1..Len(q) /\ 1 \in DOMAIN q /\ Head(q) = q[1]
         /\ Tail(q) \in Seq(S) /\ DOMAIN Tail(q) = 1..(Len(q) - 1)
         /\ \A n \in 1..(Len(q) - 1) : n + 1 \in DOMAIN q /\ n + 1 # 1 /\ Tail(q)[n] = q[n + 1]
<1>1. Len(q) \in Nat \ {0} /\ DOMAIN q = 1..Len(q) /\ Head(q) = q[1]
  OBVIOUS
<1>2. Tail(q) \in Seq(S) /\ Len(Tail(q)) = Len(q) - 1
  OBVIOUS
<1>3. \A n \in 1..(Len(q) - 1) : Tail(q)[n] = q[n + 1]
  OBVIOUS
<1>4. \A n \in 1..(Len(q) - 1) : n + 1 \in 1..Len(q) /\ n + 1 # 1
  BY <1>1
<1> QED BY <1>1, <1>2, <1>3, <1>4

\* Every place but the first is one of the queue without its front.
LEMMA FrontOrTail ==
  ASSUME NEW S, NEW q \in Seq(S), q # <<>>, NEW n \in DOMAIN q
  PROVE  n = 1 \/ (n - 1 \in DOMAIN Tail(q) /\ Tail(q)[n - 1] = q[n])
<1>1. n = 1 \/ n - 1 \in 1..(Len(q) - 1)
  BY TailAt
<1>2. CASE n - 1 \in 1..(Len(q) - 1)
  <2>1. n - 1 + 1 = n
    BY TailAt
  <2> QED BY <1>2, <2>1, TailAt
<1> QED BY <1>1, <1>2

\* The places of a queue with one more at its end.
LEMMA AppendAt ==
  ASSUME NEW S, NEW q \in Seq(S), NEW x \in S
  PROVE  /\ Append(q, x) \in Seq(S) /\ Len(q) \in Nat /\ DOMAIN q = 1..Len(q)
         /\ DOMAIN Append(q, x) = 1..(Len(q) + 1)
         /\ \A n \in DOMAIN q : n \in DOMAIN Append(q, x) /\ Append(q, x)[n] = q[n]
         /\ Append(q, x)[Len(q) + 1] = x
         /\ \A n \in DOMAIN Append(q, x) : n \in DOMAIN q \/ n = Len(q) + 1
  OBVIOUS

\* Nothing is in an empty queue.
LEMMA NoIds == IdsIn(<<>>) = {} /\ IdsOf(<<>>) = {}
  BY DEF IdsIn, IdsOf

\* A queue has the numbers of its front and of the rest.
LEMMA IdsFront ==
  ASSUME NEW q \in Seq(Requests), q # <<>>
  PROVE  IdsIn(q) = ({Head(q).id} \ {0}) \cup IdsIn(Tail(q))
<1>1. ASSUME NEW id \in IdsIn(q) PROVE id \in ({Head(q).id} \ {0}) \cup IdsIn(Tail(q))
  <2>1. PICK n \in DOMAIN q : id = q[n].id /\ id # 0
    BY DEF IdsIn
  <2>2. n = 1 \/ (n - 1 \in DOMAIN Tail(q) /\ Tail(q)[n - 1] = q[n])
    BY FrontOrTail
  <2>3. Head(q) = q[1]
    BY TailAt
  <2> QED BY <2>1, <2>2, <2>3 DEF IdsIn
<1>2. ASSUME NEW id \in ({Head(q).id} \ {0}) \cup IdsIn(Tail(q)) PROVE id \in IdsIn(q)
  <2>1. CASE id \in IdsIn(Tail(q))
    <3>1. PICK n \in DOMAIN Tail(q) : id = Tail(q)[n].id /\ id # 0
      BY <2>1 DEF IdsIn
    <3>2. n + 1 \in DOMAIN q /\ Tail(q)[n] = q[n + 1]
      BY TailAt
    <3> QED BY <3>1, <3>2 DEF IdsIn
  <2>2. CASE id = Head(q).id /\ id # 0
    BY <2>2, TailAt DEF IdsIn
  <2> QED BY <1>2, <2>1, <2>2
<1> QED BY <1>1, <1>2

\* A request at the end of a queue adds its number.
LEMMA IdsAppend ==
  ASSUME NEW q \in Seq(Requests), NEW r \in Requests
  PROVE  IdsIn(Append(q, r)) = IdsIn(q) \cup ({r.id} \ {0})
<1>1. ASSUME NEW id \in IdsIn(Append(q, r)) PROVE id \in IdsIn(q) \cup ({r.id} \ {0})
  <2>1. PICK n \in DOMAIN Append(q, r) : id = Append(q, r)[n].id /\ id # 0
    BY DEF IdsIn
  <2> QED BY <2>1, AppendAt DEF IdsIn
<1>2. ASSUME NEW id \in IdsIn(q) \cup ({r.id} \ {0}) PROVE id \in IdsIn(Append(q, r))
  <2>1. CASE id \in IdsIn(q)
    <3>1. PICK n \in DOMAIN q : id = q[n].id /\ id # 0
      BY <2>1 DEF IdsIn
    <3> QED BY <3>1, AppendAt DEF IdsIn
  <2>2. CASE id = r.id /\ id # 0
    <3>1. Len(q) + 1 \in DOMAIN Append(q, r) /\ Append(q, r)[Len(q) + 1] = r
      BY AppendAt
    <3> QED BY <2>2, <3>1 DEF IdsIn
  <2> QED BY <1>2, <2>1, <2>2
<1> QED BY <1>1, <1>2

\* The same for the processors' jobs: the front and the rest, ...
LEMMA JobsFront ==
  ASSUME NEW q \in Seq(Jobs), q # <<>>
  PROVE  IdsOf(q) = ({Head(q).request.id} \ {0}) \cup IdsOf(Tail(q))
<1>1. ASSUME NEW id \in IdsOf(q)
      PROVE  id \in ({Head(q).request.id} \ {0}) \cup IdsOf(Tail(q))
  <2>1. PICK n \in DOMAIN q : id = q[n].request.id /\ id # 0
    BY DEF IdsOf
  <2>2. n = 1 \/ (n - 1 \in DOMAIN Tail(q) /\ Tail(q)[n - 1] = q[n])
    BY FrontOrTail
  <2>3. Head(q) = q[1]
    BY TailAt
  <2> QED BY <2>1, <2>2, <2>3 DEF IdsOf
<1>2. ASSUME NEW id \in ({Head(q).request.id} \ {0}) \cup IdsOf(Tail(q)) PROVE id \in IdsOf(q)
  <2>1. CASE id \in IdsOf(Tail(q))
    <3>1. PICK n \in DOMAIN Tail(q) : id = Tail(q)[n].request.id /\ id # 0
      BY <2>1 DEF IdsOf
    <3>2. n + 1 \in DOMAIN q /\ Tail(q)[n] = q[n + 1]
      BY TailAt
    <3> QED BY <3>1, <3>2 DEF IdsOf
  <2>2. CASE id = Head(q).request.id /\ id # 0
    BY <2>2, TailAt DEF IdsOf
  <2> QED BY <1>2, <2>1, <2>2
<1> QED BY <1>1, <1>2

\* ... and a job at the end.
LEMMA JobsAppend ==
  ASSUME NEW q \in Seq(Jobs), NEW job \in Jobs
  PROVE  IdsOf(Append(q, job)) = IdsOf(q) \cup ({job.request.id} \ {0})
<1>1. ASSUME NEW id \in IdsOf(Append(q, job))
      PROVE  id \in IdsOf(q) \cup ({job.request.id} \ {0})
  <2>1. PICK n \in DOMAIN Append(q, job) : id = Append(q, job)[n].request.id /\ id # 0
    BY DEF IdsOf
  <2> QED BY <2>1, AppendAt DEF IdsOf
<1>2. ASSUME NEW id \in IdsOf(q) \cup ({job.request.id} \ {0})
      PROVE  id \in IdsOf(Append(q, job))
  <2>1. CASE id \in IdsOf(q)
    <3>1. PICK n \in DOMAIN q : id = q[n].request.id /\ id # 0
      BY <2>1 DEF IdsOf
    <3> QED BY <3>1, AppendAt DEF IdsOf
  <2>2. CASE id = job.request.id /\ id # 0
    <3>1. Len(q) + 1 \in DOMAIN Append(q, job) /\ Append(q, job)[Len(q) + 1] = job
      BY AppendAt
    <3> QED BY <2>2, <3>1 DEF IdsOf
  <2> QED BY <1>2, <2>1, <2>2
<1> QED BY <1>1, <1>2

\* The front of the processors' jobs is the oldest of them, and is there once.
LEMMA OldestJob ==
  ASSUME TypeOK, PipeOrder, pipe # <<>>, Head(pipe).request.id # 0
  PROVE  /\ Head(pipe).request.id \in Path!Oldest(IdsOf(pipe))
         /\ Head(pipe).request.id \notin IdsOf(Tail(pipe))
<1>0. pipe \in Seq(Jobs) /\ \A i \in DOMAIN pipe : pipe[i].request.id \in Nat
  <2>1. pipe \in Seq(Jobs)
    BY DEF TypeOK, DeviceType
  <2>2. \A i \in DOMAIN pipe : pipe[i].request \in Requests
    <3>1. \A i \in DOMAIN pipe : pipe[i] \in Jobs
      BY <2>1
    <3> QED BY <3>1 DEF Jobs
  <2> QED BY <2>1, <2>2, RequestFields
<1>1. ASSUME NEW n \in DOMAIN pipe, pipe[n].request.id # 0, n # 1
      PROVE  Head(pipe).request.id < pipe[n].request.id
  <2>1. 1 < n /\ 1 \in DOMAIN pipe /\ Head(pipe) = pipe[1]
    BY <1>0, <1>1, TailAt
  <2> QED BY <1>1, <2>1 DEF PipeOrder
<1>2. ASSUME NEW other \in IdsOf(pipe) PROVE Head(pipe).request.id <= other
  <2>1. PICK n \in DOMAIN pipe : other = pipe[n].request.id /\ other # 0
    BY DEF IdsOf
  <2>2. Head(pipe) = pipe[1] /\ 1 \in DOMAIN pipe
    BY <1>0, TailAt
  <2> QED BY <1>0, <1>1, <2>1, <2>2
<1>3. Head(pipe).request.id \notin IdsOf(Tail(pipe))
  <2> SUFFICES ASSUME NEW n \in DOMAIN Tail(pipe), Head(pipe).request.id = Tail(pipe)[n].request.id
               PROVE  FALSE
    BY DEF IdsOf
  <2>1. n + 1 \in DOMAIN pipe /\ n + 1 # 1 /\ Tail(pipe)[n] = pipe[n + 1]
    BY <1>0, TailAt
  <2> QED BY <1>0, <1>1, <2>1
<1>4. Head(pipe).request.id \in IdsOf(pipe)
  BY <1>0, JobsFront
<1> QED BY <1>2, <1>3, <1>4 DEF Path!Oldest

-----------------------------------------------------------------------------
(* The steps of RequestPath, in terms of the places.                       *)

\* A step that leaves all places alone is a stutter.
LEMMA Stutters ==
  ASSUME StartedSame, mActive' = mActive, app'.queued = app.queued, Waiting' = Waiting,
         IdsOf(pipe)' = IdsOf(pipe), StreamsDue' = StreamsDue, Frames' = Frames
  PROVE  UNCHANGED Path!pathVars
  BY DEF Path!pathVars, StartedSame, Waiting, IdsOf, Frames

\* qbuf
LEMMA Submits ==
  ASSUME StartedSame, mActive' = TRUE, app'.queued = app.queued + 1,
         Waiting' = Waiting \cup {app.queued + 1},
         IdsOf(pipe)' = IdsOf(pipe), StreamsDue' = StreamsDue, Frames' = Frames
  PROVE  Path!Next
<1>1. Path!Submit
  BY DEF Path!Submit, StartedSame, Waiting, IdsOf, Frames
<1> QED BY <1>1 DEF Path!Next

\* handleRequest, EVENT_PROCESS_REQUEST
LEMMA HandsOver ==
  ASSUME NEW id \in Path!Oldest(Waiting), StartedSame,
         mActive' = mActive, app'.queued = app.queued, Waiting' = Waiting \ {id},
         IdsOf(pipe)' = IdsOf(pipe) \cup {id}, StreamsDue' = StreamsDue, Frames' = Frames
  PROVE  Path!Next
<1>1. Path!HandOver
  BY DEF Path!HandOver, StartedSame, Waiting, IdsOf, Frames
<1> QED BY <1>1 DEF Path!Next

\* a processor returns a frame, or has it dropped by a camera that is being stopped
LEMMA Returns ==
  ASSUME NEW s \in StreamsDue \cap Streams, NEW id \in Path!Oldest(IdsOf(pipe)),
         StartedSame, mState = "DEVICE_START",
         \/ Frames' = [Frames EXCEPT ![s] = @ \cup {id}]
         \/ ~ mActive /\ Frames' = Frames,
         mActive' = mActive, app'.queued = app.queued, Waiting' = Waiting,
         IdsOf(pipe)' = IdsOf(pipe), StreamsDue' = StreamsDue \ {s}
  PROVE  Path!Next
<1>1. Path!Return(s)
  BY DEF Path!Return, StartedSame, Waiting, IdsOf, Frames
<1> QED BY <1>1 DEF Path!Next

\* the processors are done with a request
LEMMA Finishes ==
  ASSUME StartedSame, mState = "DEVICE_START",
         StreamsDue = {}, StreamsDue' = Streams, NEW id \in Path!Oldest(IdsOf(pipe)),
         mActive' = mActive, app'.queued = app.queued, Waiting' = Waiting,
         IdsOf(pipe)' = IdsOf(pipe) \ {id}, Frames' = Frames
  PROVE  Path!Next
<1>1. Path!Finish
  BY DEF Path!Finish, StartedSame, Waiting, IdsOf, Frames
<1> QED BY <1>1 DEF Path!Next

\* dqbuf
LEMMA Takes ==
  ASSUME NEW s \in Streams, NEW id \in Path!Oldest(Frames[s]), StartedSame,
         Frames' = [Frames EXCEPT ![s] = @ \ {id}],
         mActive' = mActive, app'.queued = app.queued, Waiting' = Waiting,
         IdsOf(pipe)' = IdsOf(pipe), StreamsDue' = StreamsDue
  PROVE  Path!Next
<1>1. Path!Take(s)
  BY DEF Path!Take, StartedSame, Waiting, IdsOf, Frames
<1> QED BY <1>1 DEF Path!Next

\* stop() and deinit, before they drop anything
LEMMA Deactivates ==
  ASSUME StartedSame, mActive' = FALSE, app'.queued = app.queued, Waiting' = Waiting,
         IdsOf(pipe)' = IdsOf(pipe), StreamsDue' = StreamsDue, Frames' = Frames
  PROVE  Path!Next
<1>1. Path!Deactivate
  BY DEF Path!Deactivate, StartedSame, Waiting, IdsOf, Frames
<1> QED BY <1>1 DEF Path!Next

\* clearRequests drops the queue, the request thread the request it holds
LEMMA DropsWaiting ==
  ASSUME StartedSame, ~ mActive, mActive' = mActive, app'.queued = app.queued, Waiting' \subseteq Waiting,
         IdsOf(pipe)' = IdsOf(pipe), StreamsDue' = StreamsDue, Frames' = Frames
  PROVE  Path!Next
<1>1. Path!DropWaiting
  BY DEF Path!DropWaiting, StartedSame, Waiting, IdsOf, Frames
<1> QED BY <1>1 DEF Path!Next

\* clearRequests drops the frames of a stream
LEMMA DropsFrames ==
  ASSUME NEW s \in Streams, StartedSame, ~ mActive, Frames' = [Frames EXCEPT ![s] = {}],
         mActive' = mActive, app'.queued = app.queued, Waiting' = Waiting,
         IdsOf(pipe)' = IdsOf(pipe), StreamsDue' = StreamsDue
  PROVE  Path!Next
<1>1. Path!DropFrames(s)
  BY DEF Path!DropFrames, StartedSame, Waiting, IdsOf, Frames
<1> QED BY <1>1 DEF Path!Next

\* the processors are started
LEMMA Starts ==
  ASSUME mActive, mState # "DEVICE_START", mState' = "DEVICE_START", app'.startFailed = FALSE,
         mActive' = mActive, app'.queued = app.queued, Waiting' = Waiting,
         IdsOf(pipe)' = IdsOf(pipe), StreamsDue' = StreamsDue, Frames' = Frames
  PROVE  Path!Next
<1>1. Path!Start
  BY DEF Path!Start, Waiting, IdsOf, Frames
<1> QED BY <1>1 DEF Path!Next

\* start() fails
LEMMA FailsToStart ==
  ASSUME mActive, mState # "DEVICE_START", mState' = mState, app'.startFailed = TRUE,
         IdsOf(pipe)' = {}, StreamsDue' = Streams,
         mActive' = mActive, app'.queued = app.queued, Waiting' = Waiting, Frames' = Frames
  PROVE  Path!Next
<1>1. Path!FailToStart
  BY DEF Path!FailToStart, Path!DropProcessing, Waiting, IdsOf, Frames
<1> QED BY <1>1 DEF Path!Next

\* stop() stops the processors
LEMMA StopsProcessing ==
  ASSUME ~ mActive, mState = "DEVICE_START", mState' # "DEVICE_START",
         app'.startFailed = app.startFailed, IdsOf(pipe)' = {}, StreamsDue' = Streams,
         mActive' = mActive, app'.queued = app.queued, Waiting' = Waiting, Frames' = Frames
  PROVE  Path!Next
<1>1. Path!StopProcessing
  BY DEF Path!StopProcessing, Path!DropProcessing, Waiting, IdsOf, Frames
<1> QED BY <1>1 DEF Path!Next

-----------------------------------------------------------------------------
(* Steps that move only the threads.                                       *)

USE DEF reqVars, queueVars, seqVars, flagVars, ioVars, dqVars, pipeVars

\* where the request thread holds a request
Points == {"begin", "params", "save", "notify"}

\* The types the order of requests and frames is about.
LEMMA PathTypes ==
  ASSUME TypeOK
  PROVE  /\ pipe \in Seq(Jobs) /\ mPendingRequests \in Seq(Requests)
         /\ \A i \in DOMAIN pipe : pipe[i].request \in Requests /\ pipe[i].request.id \in Nat
         /\ \A s \in Streams : mFrameQueue[s] \in Seq(Requests)
         /\ \A s \in Streams : \A n \in DOMAIN mFrameQueue[s] : mFrameQueue[s][n].id \in Nat
         /\ rt.request \in Requests /\ rt.request.id \in Nat /\ rt.lastHanded \in Nat
         /\ app.queued \in Nat /\ pipeStep \in PipeSteps
<1>1. /\ pipe \in Seq(Jobs) /\ mPendingRequests \in Seq(Requests) /\ pipeStep \in PipeSteps
      /\ \A s \in Streams : mFrameQueue[s] \in Seq(Requests)
  BY DEF TypeOK, MembersType, DeviceType
<1>2. \A i \in DOMAIN pipe : pipe[i].request \in Requests
  <2>1. \A i \in DOMAIN pipe : pipe[i] \in Jobs
    BY <1>1
  <2> QED BY <2>1 DEF Jobs
<1>3. \A s \in Streams : \A n \in DOMAIN mFrameQueue[s] : mFrameQueue[s][n] \in Requests
  BY <1>1
<1>4. rt.request \in Requests /\ rt.lastHanded \in Nat /\ app.queued \in Nat
  BY DEF TypeOK, RequestThreads, Applications
<1> QED BY <1>1, <1>2, <1>3, <1>4, RequestFields

\* The requests that wait stay when the request thread neither takes nor loses one.
LEMMA WaitingStays ==
  ASSUME IdsIn(mPendingRequests)' = IdsIn(mPendingRequests),
         \/ rt.pc \notin Points /\ rt'.pc \notin Points
         \/ rt.pc \in Points /\ rt'.pc \in Points /\ rt'.request = rt.request
  PROVE  Waiting' = Waiting
  BY DEF Waiting, Held, Points

\* The streams that are due depend on the processors only.
LEMMA DueStays ==
  ASSUME pipe' = pipe, pipeStep' = pipeStep,
         inbox'["psys"] = "EVENT_FRAME_AVAILABLE" <=> inbox["psys"] = "EVENT_FRAME_AVAILABLE"
  PROVE  StreamsDue' = StreamsDue
  BY DEF StreamsDue

\* The order of requests and frames stays in a step that touches neither the processors
\* nor the frames, ...
LEMMA QuietInv ==
  ASSUME ReturnInv, mActive' = mActive, app'.pc = "clearFrames" => app.pc = "clearFrames",
         rt'.lastHanded = rt.lastHanded,
         pipe' = pipe, pipeStep' = pipeStep, mFrameQueue' = mFrameQueue,
         inbox'["psys"] = "EVENT_FRAME_AVAILABLE" <=> inbox["psys"] = "EVENT_FRAME_AVAILABLE"
  PROVE  /\ ReturnInv' /\ StreamsDue' = StreamsDue
         /\ IdsOf(pipe)' = IdsOf(pipe) /\ Frames' = Frames
<1>1. StreamsDue' = StreamsDue
  BY DueStays
<1>2. PipeOrder' /\ DeliveryInv' /\ ClearInv'
  BY DEF ReturnInv, PipeOrder, DeliveryInv, ClearInv
<1>3. FrameOrder'
  BY <1>1 DEF ReturnInv, FrameOrder
<1>4. IdsOf(pipe)' = IdsOf(pipe) /\ Frames' = Frames
  BY DEF IdsOf, Frames
<1> QED BY <1>1, <1>2, <1>3, <1>4 DEF ReturnInv

\* ... and it is a stutter when the requests that wait stay as well.
LEMMA QuietStep ==
  ASSUME ReturnInv, StartedSame, mActive' = mActive, app'.queued = app.queued,
         app'.pc = "clearFrames" => app.pc = "clearFrames",
         Waiting' = Waiting, rt'.lastHanded = rt.lastHanded,
         pipe' = pipe, pipeStep' = pipeStep, mFrameQueue' = mFrameQueue,
         inbox'["psys"] = "EVENT_FRAME_AVAILABLE" <=> inbox["psys"] = "EVENT_FRAME_AVAILABLE"
  PROVE  ReturnInv' /\ UNCHANGED Path!pathVars
  BY QuietInv, Stutters

\* The request thread between two requests, and while it handles one.
LEMMA ThreadSteps ==
  ASSUME TypeOK, ReturnInv, StartedSame,
         \/ ThreadLoopAgain \/ LoopTop \/ LoopTimeout \/ LoopWoken \/ LoopCheckActive
         \/ HandleBegin \/ HandleParams \/ HandleFirst \/ LoopReset
  PROVE  ReturnInv' /\ UNCHANGED Path!pathVars
<1>1. /\ mActive' = mActive /\ mPendingRequests' = mPendingRequests /\ pipe' = pipe
      /\ pipeStep' = pipeStep /\ mFrameQueue' = mFrameQueue /\ inbox' = inbox
  BY DEF ThreadLoopAgain, LoopTop, LoopTimeout, LoopWoken, LoopCheckActive,
     HandleBegin, HandleParams, HandleFirst, LoopReset
<1>2. app'.queued = app.queued /\ (app'.pc = "clearFrames" => app.pc = "clearFrames")
  <2>1. CASE HandleFirst
    BY <2>1 DEF HandleFirst, TypeOK, Applications
  <2>2. CASE ~ HandleFirst
    <3>1. app' = app
      BY <2>2 DEF ThreadLoopAgain, LoopTop, LoopTimeout, LoopWoken, LoopCheckActive,
         HandleBegin, HandleParams, LoopReset
    <3> QED BY <3>1
  <2> QED BY <2>1, <2>2
<1>3. /\ rt'.lastHanded = rt.lastHanded
      /\ \/ rt.pc \notin Points /\ rt'.pc \notin Points
         \/ rt.pc \in Points /\ rt'.pc \in Points /\ rt'.request = rt.request
  <2> USE DEF TypeOK, RequestThreads, Points, RtAt, RtGoto
  <2>1. CASE ThreadLoopAgain \/ LoopTimeout \/ LoopCheckActive
    BY <2>1 DEF ThreadLoopAgain, LoopTimeout, LoopCheckActive
  <2>2. CASE LoopTop \/ LoopWoken
    BY <2>2 DEF LoopTop, LoopWoken, ChooseSequence
  <2>3. CASE HandleBegin
    BY <2>3 DEF HandleBegin
  <2>4. CASE HandleParams
    BY <2>4 DEF HandleParams
  <2>5. CASE HandleFirst \/ LoopReset
    BY <2>5 DEF HandleFirst, LoopReset
  <2> QED BY <2>1, <2>2, <2>3, <2>4, <2>5
<1>4. Waiting' = Waiting
  BY <1>1, <1>3, WaitingStays
<1> QED BY <1>1, <1>2, <1>3, <1>4, QuietStep

\* Events that only set triggers, and the signal of requestExit.
LEMMA EventSteps ==
  ASSUME TypeOK, ReturnInv, StartedSame,
         \/ SofEvent \/ HandleSof \/ IsysFrameEvent \/ HandleFrame("isys") \/ HandleFrame("psys")
         \/ HandleStats \/ HandleInsertFake \/ RequestExit
  PROVE  ReturnInv' /\ UNCHANGED Path!pathVars
<1>1. /\ mActive' = mActive /\ pipe' = pipe /\ pipeStep' = pipeStep /\ mFrameQueue' = mFrameQueue
  BY DEF SofEvent, HandleSof, IsysFrameEvent, HandleFrame, HandleStats, HandleInsertFake,
     RequestExit
<1>2. app'.queued = app.queued /\ (app'.pc = "clearFrames" => app.pc = "clearFrames")
  <2>1. CASE RequestExit
    BY <2>1 DEF RequestExit, TypeOK, Applications
  <2>2. CASE ~ RequestExit
    <3>1. app' = app
      BY <2>2 DEF SofEvent, HandleSof, IsysFrameEvent, HandleFrame, HandleStats, HandleInsertFake
    <3> QED BY <3>1
  <2> QED BY <2>1, <2>2
<1>3. rt' \in {rt, Signal(rt), [rt EXCEPT !.exiting = TRUE]}
  BY DEF SofEvent, HandleSof, IsysFrameEvent, HandleFrame, HandleStats, HandleInsertFake,
     RequestExit, AddTrigger
<1>4. /\ rt'.lastHanded = rt.lastHanded
      /\ \/ rt.pc \notin Points /\ rt'.pc \notin Points
         \/ rt.pc \in Points /\ rt'.pc \in Points /\ rt'.request = rt.request
  <2>1. CASE rt' = Signal(rt)
    BY <2>1 DEF Signal, TypeOK, RequestThreads, Points
  <2>2. CASE rt' = rt \/ rt' = [rt EXCEPT !.exiting = TRUE]
    BY <2>2 DEF TypeOK, RequestThreads
  <2> QED BY <1>3, <2>1, <2>2
<1>5. IdsIn(mPendingRequests)' = IdsIn(mPendingRequests)
  <2>1. CASE HandleInsertFake /\ mPendingRequests' # mPendingRequests
    <3>1. mPendingRequests = <<>> /\ mPendingRequests' = <<FakeRequest(app.session)>>
      BY <2>1 DEF HandleInsertFake
    <3>2. IdsIn(mPendingRequests') = {}
      BY <3>1 DEF IdsIn, FakeRequest
    <3>3. IdsIn(mPendingRequests) = {}
      BY <3>1, NoIds
    <3> QED BY <3>2, <3>3 DEF IdsIn
  <2>2. CASE ~ HandleInsertFake
    <3>1. mPendingRequests' = mPendingRequests
      BY <2>2 DEF SofEvent, HandleSof, IsysFrameEvent, HandleFrame, HandleStats, RequestExit
    <3> QED BY <3>1 DEF IdsIn
  <2> QED BY <2>1, <2>2 DEF IdsIn
<1>6. inbox'["psys"] = "EVENT_FRAME_AVAILABLE" <=> inbox["psys"] = "EVENT_FRAME_AVAILABLE"
  <2>1. inbox \in [Sources -> EventTypes] /\ "psys" \in Sources
    BY DEF TypeOK, DeviceType, Sources
  <2>2. CASE SofEvent \/ IsysFrameEvent
    BY <2>1, <2>2 DEF SofEvent, IsysFrameEvent, Deliver
  <2>3. CASE HandleSof \/ HandleFrame("isys") \/ HandleFrame("psys") \/ HandleStats
             \/ HandleInsertFake
    BY <2>1, <2>3 DEF HandleSof, HandleFrame, HandleStats, HandleInsertFake, Delivered
  <2>4. CASE RequestExit
    BY <2>4 DEF RequestExit
  <2> QED BY <2>2, <2>3, <2>4
<1>7. Waiting' = Waiting
  BY <1>4, <1>5, WaitingStays
<1> QED BY <1>1, <1>2, <1>4, <1>6, <1>7, QuietStep

-----------------------------------------------------------------------------
(* The request thread takes a request and hands it over.                   *)

\* fetchNextRequest moves the oldest pending request into the thread's hands.
LEMMA FetchStep ==
  ASSUME TypeOK, ReturnInv, StartedSame, fetchNextRequest
  PROVE  ReturnInv' /\ UNCHANGED Path!pathVars
<1>1. /\ mActive' = mActive /\ pipe' = pipe /\ pipeStep' = pipeStep /\ mFrameQueue' = mFrameQueue
      /\ inbox' = inbox /\ app' = app /\ rt.pc = "fetch"
  BY DEF fetchNextRequest, RtAt
<1>2. CASE mPendingRequests = <<>>
  <2>1. /\ mPendingRequests' = mPendingRequests /\ rt'.pc = "loop"
        /\ rt'.lastHanded = rt.lastHanded
    BY <1>2 DEF fetchNextRequest, RtGoto, TypeOK, RequestThreads
  <2>2. Waiting' = Waiting
    BY <1>1, <2>1, WaitingStays DEF Points
  <2> QED BY <1>1, <2>1, <2>2, QuietStep
<1>3. CASE mPendingRequests # <<>>
  <2>1. /\ mPendingRequests' = Tail(mPendingRequests) /\ rt'.pc = "begin"
        /\ rt'.request = Head(mPendingRequests) /\ rt'.lastHanded = rt.lastHanded
    BY <1>3 DEF fetchNextRequest, NextPending, TypeOK, RequestThreads
  <2>2. IdsIn(mPendingRequests)
        = ({Head(mPendingRequests).id} \ {0}) \cup IdsIn(Tail(mPendingRequests))
    BY <1>3, PathTypes, IdsFront
  <2>3. Waiting = IdsIn(mPendingRequests)
    BY <1>1 DEF Waiting, Held
  <2>4. Waiting' = IdsIn(Tail(mPendingRequests)) \cup ({Head(mPendingRequests).id} \ {0})
    BY <2>1 DEF Waiting, Held
  <2>5. Waiting' = Waiting
    BY <2>2, <2>3, <2>4
  <2> QED BY <1>1, <2>1, <2>5, QuietStep
<1> QED BY <1>2, <1>3

\* handleRequest gives its request up when a stop came in between.
LEMMA SaveStep ==
  ASSUME TypeOK, ReturnInv, StartedSame, HandleSave
  PROVE  ReturnInv' /\ [Path!Next]_(Path!pathVars)
<1>1. /\ mActive' = mActive /\ pipe' = pipe /\ pipeStep' = pipeStep /\ mFrameQueue' = mFrameQueue
      /\ inbox' = inbox /\ app' = app /\ rt.pc = "save" /\ mPendingRequests' = mPendingRequests
  BY DEF HandleSave, RtAt
<1>2. CASE mActive
  <2>1. rt'.pc = "notify" /\ rt'.request = rt.request /\ rt'.lastHanded = rt.lastHanded
    BY <1>2 DEF HandleSave, RtGoto, TypeOK, RequestThreads
  <2>2. Waiting' = Waiting
    BY <1>1, <2>1, WaitingStays DEF Points
  <2> QED BY <1>1, <2>1, <2>2, QuietStep
<1>3. CASE ~ mActive
  <2>1. rt'.pc = "reset" /\ rt'.lastHanded = rt.lastHanded
    BY <1>3 DEF HandleSave, RtGoto, TypeOK, RequestThreads
  <2>2. Waiting' \subseteq Waiting
    BY <1>1, <2>1 DEF Waiting, Held
  <2>3. /\ ReturnInv' /\ StreamsDue' = StreamsDue
        /\ IdsOf(pipe)' = IdsOf(pipe) /\ Frames' = Frames
    BY <1>1, <2>1, QuietInv
  <2> QED BY <1>1, <1>3, <2>2, <2>3, DropsWaiting
<1> QED BY <1>2, <1>3

\* The request thread's request is older than all that are pending.
LEMMA HeldIsOldest ==
  ASSUME TypeOK, OrderInv, rt.pc \in Points, rt.request.id # 0
  PROVE  /\ rt.request.id \in Path!Oldest(Waiting)
         /\ IdsIn(mPendingRequests) = Waiting \ {rt.request.id}
<1>0. rt.request.id \in Nat /\ mPendingRequests \in Seq(Requests)
  BY PathTypes
<1>1. Waiting = IdsIn(mPendingRequests) \cup {rt.request.id}
  BY DEF Waiting, Held, Points
<1>2. ASSUME NEW id \in IdsIn(mPendingRequests) PROVE rt.request.id < id
  <2>1. PICK n \in DOMAIN mPendingRequests : id = mPendingRequests[n].id /\ id # 0
    BY DEF IdsIn
  <2>2. n \in 1..Len(mPendingRequests)
    BY <1>0
  <2> QED BY <2>1, <2>2 DEF OrderInv, PendingOrder
<1>3. rt.request.id \notin IdsIn(mPendingRequests)
  BY <1>0, <1>2
<1>4. \A id \in Waiting : rt.request.id <= id
  <2> SUFFICES ASSUME NEW id \in Waiting PROVE rt.request.id <= id
    OBVIOUS
  <2>1. CASE id = rt.request.id
    BY <1>0, <2>1
  <2>2. CASE id \in IdsIn(mPendingRequests)
    <3>1. id \in Nat
      <4>1. PICK n \in DOMAIN mPendingRequests : id = mPendingRequests[n].id
        BY <2>2 DEF IdsIn
      <4>2. mPendingRequests[n] \in Requests
        BY <1>0
      <4> QED BY <4>1, <4>2, RequestFields
    <3> QED BY <1>0, <1>2, <2>2, <3>1
  <2> QED BY <1>1, <2>1, <2>2
<1> QED BY <1>1, <1>3, <1>4 DEF Path!Oldest

\* HandleNotify hands the oldest request over.
LEMMA NotifyStep ==
  ASSUME TypeOK, OrderInv, ReturnInv, StartedSame, HandleNotify
  PROVE  ReturnInv' /\ [Path!Next]_(Path!pathVars)
<1> DEFINE job == [request |-> rt.request, settingSeq |-> rt.effectSeq]
<1>0. /\ mActive' = mActive /\ pipe' = Append(pipe, job) /\ pipeStep' = pipeStep
      /\ mFrameQueue' = mFrameQueue /\ inbox' = inbox /\ app' = app
      /\ mPendingRequests' = mPendingRequests /\ rt.pc = "notify" /\ rt'.pc = "first"
      /\ rt'.lastHanded = IF rt.lastHanded < rt.request.id THEN rt.request.id ELSE rt.lastHanded
  BY DEF HandleNotify, RtAt, TypeOK, RequestThreads
<1>1. job \in Jobs /\ job.request = rt.request /\ rt.request.id \in Nat /\ rt.lastHanded \in Nat
  BY PathTypes DEF TypeOK, RequestThreads, Jobs
<1> HIDE DEF job
<1>2. /\ pipe \in Seq(Jobs) /\ Len(pipe) \in Nat /\ DOMAIN pipe = 1..Len(pipe) /\ pipe' # <<>>
      /\ \A n \in DOMAIN pipe : n \in DOMAIN pipe' /\ pipe'[n] = pipe[n]
      /\ pipe'[Len(pipe) + 1] = job
      /\ \A n \in DOMAIN pipe' : n \in DOMAIN pipe \/ n = Len(pipe) + 1
  <2>1. pipe \in Seq(Jobs)
    BY PathTypes
  <2>2. pipe' # <<>>
    BY <1>0, <1>1, <2>1
  <2> QED BY <1>0, <1>1, <2>1, <2>2, AppendAt
<1>3. /\ rt.lastHanded <= rt'.lastHanded /\ rt.request.id <= rt'.lastHanded
      /\ rt'.lastHanded \in Nat
      /\ (rt.request.id # 0 => rt.lastHanded < rt.request.id)
  BY <1>0, <1>1 DEF OrderInv, HeldOrder
<1>4. PipeOrder'
  <2>1. ASSUME NEW i \in DOMAIN pipe' PROVE pipe'[i].request.id <= rt'.lastHanded
    BY <1>1, <1>2, <1>3, <2>1, PathTypes DEF ReturnInv, PipeOrder
  <2>2. ASSUME NEW i \in DOMAIN pipe', NEW j \in DOMAIN pipe', i < j, pipe'[j].request.id # 0
        PROVE  pipe'[i].request.id < pipe'[j].request.id
    <3>1. i \in DOMAIN pipe
      BY <1>2, <2>2
    <3>2. CASE j \in DOMAIN pipe
      BY <1>2, <2>2, <3>1, <3>2 DEF ReturnInv, PipeOrder
    <3>3. CASE j = Len(pipe) + 1
      <4>1. pipe[i].request.id <= rt.lastHanded /\ pipe[i].request.id \in Nat
        BY <3>1, PathTypes DEF ReturnInv, PipeOrder
      <4> QED BY <1>1, <1>2, <1>3, <2>2, <3>1, <3>3, <4>1
    <3> QED BY <1>2, <3>2, <3>3
  <2> QED BY <2>1, <2>2 DEF PipeOrder
<1>5. StreamsDue' = StreamsDue
  <2>1. CASE pipe = <<>>
    BY <1>0, <2>1 DEF StreamsDue, ReturnInv, DeliveryInv
  <2>2. CASE pipe # <<>>
    <3>1. 1 \in DOMAIN pipe /\ Head(pipe) = pipe[1]
      BY <1>2, <2>2, TailAt
    <3>2. Head(pipe') = pipe'[1]
      <4>1. pipe' \in Seq(Jobs)
        BY <1>0, <1>1, <1>2, AppendAt
      <4> QED BY <1>2, <4>1
    <3>3. Head(pipe') = Head(pipe)
      BY <1>2, <3>1, <3>2
    <3> QED BY <1>0, <1>2, <2>2, <3>3 DEF StreamsDue
  <2> QED BY <2>1, <2>2
<1>6. FrameOrder'
  <2>1. ASSUME NEW s \in Streams, NEW n \in DOMAIN mFrameQueue[s]
        PROVE  /\ mFrameQueue[s][n].id # 0 /\ mFrameQueue[s][n].id <= rt'.lastHanded
               /\ \A i \in DOMAIN pipe' : pipe'[i].request.id # 0 =>
                     /\ mFrameQueue[s][n].id <= pipe'[i].request.id
                     /\ mFrameQueue[s][n].id = pipe'[i].request.id => i = 1 /\ s \notin StreamsDue
    <3>1. /\ mFrameQueue[s][n].id \in Nat /\ mFrameQueue[s][n].id # 0
          /\ mFrameQueue[s][n].id <= rt.lastHanded
      BY PathTypes DEF ReturnInv, FrameOrder
    <3>2. mFrameQueue[s][n].id <= rt'.lastHanded
      BY <1>1, <1>3, <3>1
    <3>3. ASSUME NEW i \in DOMAIN pipe', pipe'[i].request.id # 0
          PROVE  /\ mFrameQueue[s][n].id <= pipe'[i].request.id
                 /\ mFrameQueue[s][n].id = pipe'[i].request.id => i = 1 /\ s \notin StreamsDue
      <4>1. CASE i \in DOMAIN pipe
        BY <1>2, <3>3, <4>1 DEF ReturnInv, FrameOrder
      <4>2. CASE i = Len(pipe) + 1
        <5>1. pipe'[i].request.id = rt.request.id
          BY <1>1, <1>2, <4>2
        <5> QED BY <1>1, <1>3, <3>1, <3>3, <5>1
      <4> QED BY <1>2, <4>1, <4>2
    <3> QED BY <3>1, <3>2, <3>3
  <2> QED BY <1>0, <1>5, <2>1 DEF FrameOrder, ReturnInv
<1>7. ReturnInv'
  BY <1>0, <1>2, <1>4, <1>6 DEF ReturnInv, DeliveryInv, ClearInv
<1>8. IdsOf(pipe)' = IdsOf(pipe) \cup ({rt.request.id} \ {0}) /\ Frames' = Frames
  <2>1. IdsOf(pipe') = IdsOf(pipe) \cup ({rt.request.id} \ {0})
    BY <1>0, <1>1, <1>2, JobsAppend
  <2> QED BY <1>0, <2>1 DEF IdsOf, Frames
<1>9. Waiting' = IdsIn(mPendingRequests)
  BY <1>0 DEF Waiting, Held, IdsIn
<1>10. CASE rt.request.id = 0
  <2>1. Waiting' = Waiting
    BY <1>9, <1>10 DEF Waiting, Held
  <2> QED BY <1>0, <1>5, <1>7, <1>8, <1>10, <2>1, Stutters
<1>11. CASE rt.request.id # 0
  <2>1. rt.request.id \in Path!Oldest(Waiting) /\ Waiting' = Waiting \ {rt.request.id}
    BY <1>0, <1>9, <1>11, HeldIsOldest DEF Points
  <2>2. IdsOf(pipe)' = IdsOf(pipe) \cup {rt.request.id}
    BY <1>8, <1>11
  <2> QED BY <1>0, <1>5, <1>7, <1>8, <2>1, <2>2, HandsOver
<1> QED BY <1>10, <1>11

-----------------------------------------------------------------------------
(* The processors return frames.                                           *)

\* An event of the processors changes nothing but their mailbox.
LEMMA Mailbox ==
  ASSUME TypeOK
  PROVE  /\ \A event : Deliver("psys", event) =>
               inbox'["psys"] = IF mActive THEN event ELSE "NONE"
         /\ (inbox' = [inbox EXCEPT !["psys"] = "INSERT_FAKE"]) =>
               inbox'["psys"] = "INSERT_FAKE"
<1>1. inbox \in [Sources -> EventTypes] /\ "psys" \in Sources
  BY DEF TypeOK, DeviceType, Sources
<1> QED BY <1>1 DEF Deliver

\* The statistics of the first request.
LEMMA StatsStep ==
  ASSUME TypeOK, ReturnInv, StartedSame, PsysStats
  PROVE  ReturnInv' /\ UNCHANGED Path!pathVars
<1>1. /\ mActive' = mActive /\ pipe' = pipe /\ mFrameQueue' = mFrameQueue /\ app' = app /\ rt' = rt
      /\ mPendingRequests' = mPendingRequests /\ pipe # <<>> /\ inbox["psys"] = "NONE"
      /\ pipeStep.point = "stats" /\ pipeStep'.point = "frames" /\ pipeStep'.left = Streams
  BY DEF PsysStats, PsysTurn, Idle
<1>2. inbox'["psys"] # "EVENT_FRAME_AVAILABLE"
  <2>1. CASE Head(pipe).request.hasVideoBuffer
    BY <2>1, Mailbox DEF PsysStats
  <2>2. CASE ~ Head(pipe).request.hasVideoBuffer
    BY <1>1, <2>2 DEF PsysStats
  <2> QED BY <2>1, <2>2
<1>3. StreamsDue' = StreamsDue
  BY <1>1, <1>2 DEF StreamsDue
<1>4. PipeOrder' /\ DeliveryInv' /\ ClearInv'
  BY <1>1, <1>2 DEF ReturnInv, PipeOrder, DeliveryInv, ClearInv
<1>5. FrameOrder'
  BY <1>1, <1>3 DEF ReturnInv, FrameOrder
<1>6. Waiting' = Waiting /\ IdsOf(pipe)' = IdsOf(pipe) /\ Frames' = Frames
  BY <1>1 DEF Waiting, Held, IdsIn, IdsOf, Frames
<1> QED BY <1>1, <1>3, <1>4, <1>5, <1>6, Stutters DEF ReturnInv

\* Frames stay in order when fewer streams are due.
LEMMA FewerDue ==
  ASSUME FrameOrder, pipe' = pipe, mFrameQueue' = mFrameQueue, rt'.lastHanded = rt.lastHanded,
         StreamsDue' \subseteq StreamsDue
  PROVE  FrameOrder'
  BY DEF FrameOrder

\* A processor begins to return the frame of a stream, which is lost when the camera is
\* inactive.
LEMMA FrameStep ==
  ASSUME TypeOK, ReturnInv, StartedSame, PsysFrame
  PROVE  ReturnInv' /\ [Path!Next]_(Path!pathVars)
<1>1. /\ mActive' = mActive /\ pipe' = pipe /\ mFrameQueue' = mFrameQueue /\ app' = app /\ rt' = rt
      /\ mPendingRequests' = mPendingRequests /\ pipe # <<>> /\ inbox["psys"] = "NONE"
      /\ pipeStep.point = "frames" /\ mState = "DEVICE_START"
      /\ inbox'["psys"] = IF mActive THEN "EVENT_FRAME_AVAILABLE" ELSE "NONE"
  BY Mailbox DEF PsysFrame, PsysTurn, Idle
<1>2. PICK s \in pipeStep.left :
        pipeStep' = [pipeStep EXCEPT !.left = @ \ {s}, !.current = {s}]
  BY DEF PsysFrame
<1>3. /\ s \in Streams /\ pipeStep'.point = "frames" /\ pipeStep'.left = pipeStep.left \ {s}
      /\ pipeStep'.current = {s}
  BY <1>1, <1>2, PathTypes DEF PipeSteps
<1>4. PipeOrder' /\ DeliveryInv' /\ ClearInv'
  BY <1>1, <1>3 DEF ReturnInv, PipeOrder, DeliveryInv, ClearInv
<1>5. Waiting' = Waiting /\ IdsOf(pipe)' = IdsOf(pipe) /\ Frames' = Frames
  BY <1>1 DEF Waiting, Held, IdsIn, IdsOf, Frames
<1>6. CASE Head(pipe).request.id = 0 \/ mActive
  <2>1. StreamsDue' = StreamsDue
    BY <1>1, <1>2, <1>3, <1>6 DEF StreamsDue
  <2> QED BY <1>1, <1>4, <1>5, <2>1, FewerDue, Stutters DEF ReturnInv
<1>7. CASE Head(pipe).request.id # 0 /\ ~ mActive
  <2>1. StreamsDue = pipeStep.left /\ StreamsDue' = StreamsDue \ {s}
    BY <1>1, <1>3, <1>7 DEF StreamsDue
  <2>2. s \in StreamsDue \cap Streams
    BY <1>2, <1>3, <2>1
  <2>3. Head(pipe).request.id \in Path!Oldest(IdsOf(pipe))
    BY <1>1, <1>7, OldestJob DEF ReturnInv
  <2> QED BY <1>1, <1>4, <1>5, <1>7, <2>1, <2>2, <2>3, FewerDue, Returns DEF ReturnInv
<1> QED BY <1>6, <1>7

\* The processors have returned all frames of their first request.
LEMMA DoneStep ==
  ASSUME TypeOK, ReturnInv, StartedSame, PsysDone
  PROVE  ReturnInv' /\ [Path!Next]_(Path!pathVars)
<1>1. /\ mActive' = mActive /\ mFrameQueue' = mFrameQueue /\ app' = app /\ rt' = rt
      /\ mPendingRequests' = mPendingRequests /\ pipe # <<>> /\ inbox["psys"] = "NONE"
      /\ pipeStep.point = "frames" /\ pipeStep.left = {} /\ mState = "DEVICE_START"
      /\ pipe' = Tail(pipe) /\ pipeStep' = NoFrameStep
  BY DEF PsysDone, PsysTurn, Idle
<1>2. inbox'["psys"] # "EVENT_FRAME_AVAILABLE"
  <2>1. CASE FrameEventFromPsys
    BY <2>1, Mailbox DEF PsysDone
  <2>2. CASE ~ FrameEventFromPsys
    BY <1>1, <2>2 DEF PsysDone
  <2> QED BY <2>1, <2>2
<1>3. StreamsDue' = Streams
  BY <1>1 DEF StreamsDue, NoFrameStep
<1>4. /\ pipe \in Seq(Jobs)
      /\ \A n \in DOMAIN pipe' : /\ n + 1 \in DOMAIN pipe /\ n + 1 # 1 /\ pipe'[n] = pipe[n + 1]
                                 /\ n \in Int
  <2>1. pipe \in Seq(Jobs)
    BY PathTypes
  <2> QED BY <1>1, <2>1, TailAt
<1>5. PipeOrder'
  <2>1. ASSUME NEW i \in DOMAIN pipe' PROVE pipe'[i].request.id <= rt'.lastHanded
    BY <1>1, <1>4, <2>1 DEF ReturnInv, PipeOrder
  <2>2. ASSUME NEW i \in DOMAIN pipe', NEW j \in DOMAIN pipe', i < j, pipe'[j].request.id # 0
        PROVE  pipe'[i].request.id < pipe'[j].request.id
    <3>1. i + 1 < j + 1
      BY <1>4, <2>2
    <3> QED BY <1>4, <2>2, <3>1 DEF ReturnInv, PipeOrder
  <2> QED BY <2>1, <2>2 DEF PipeOrder
<1>6. FrameOrder'
  BY <1>1, <1>4 DEF ReturnInv, FrameOrder
<1>7. DeliveryInv' /\ ClearInv'
  BY <1>1, <1>2 DEF ReturnInv, DeliveryInv, ClearInv, NoFrameStep
<1>8. Waiting' = Waiting /\ IdsOf(pipe)' = IdsOf(Tail(pipe)) /\ Frames' = Frames
  BY <1>1 DEF Waiting, Held, IdsIn, IdsOf, Frames
<1>9. IdsOf(pipe) = ({Head(pipe).request.id} \ {0}) \cup IdsOf(Tail(pipe))
  BY <1>1, <1>4, JobsFront
<1>10. CASE Head(pipe).request.id = 0
  <2>1. StreamsDue = Streams /\ IdsOf(pipe)' = IdsOf(pipe)
    BY <1>8, <1>9, <1>10 DEF StreamsDue
  <2> QED BY <1>1, <1>3, <1>5, <1>6, <1>7, <1>8, <2>1, Stutters DEF ReturnInv
<1>11. CASE Head(pipe).request.id # 0
  <2>1. StreamsDue = {}
    BY <1>1, <1>11 DEF StreamsDue
  <2>2. /\ Head(pipe).request.id \in Path!Oldest(IdsOf(pipe))
        /\ Head(pipe).request.id \notin IdsOf(Tail(pipe))
    BY <1>1, <1>11, OldestJob DEF ReturnInv
  <2>3. IdsOf(pipe)' = IdsOf(pipe) \ {Head(pipe).request.id}
    BY <1>8, <1>9, <1>11, <2>2
  <2> QED BY <1>1, <1>3, <1>5, <1>6, <1>7, <1>8, <2>1, <2>2, <2>3, Finishes DEF ReturnInv
<1> QED BY <1>10, <1>11

\* handleEvent puts the frame into the queue of its stream.
LEMMA AvailableStep ==
  ASSUME TypeOK, ReturnInv, RunInv, StartedSame, HandleFrameAvailable
  PROVE  ReturnInv' /\ [Path!Next]_(Path!pathVars)
<1>1. /\ mActive' = mActive /\ app' = app /\ rt' = rt /\ mPendingRequests' = mPendingRequests
      /\ pipe' = pipe /\ pipeStep' = pipeStep /\ inbox["psys"] = "EVENT_FRAME_AVAILABLE"
      /\ inbox'["psys"] = "INSERT_FAKE" /\ pipe # <<>> /\ mState = "DEVICE_START"
  BY Mailbox DEF HandleFrameAvailable, TypeOK, PsysEventHasJob, RunInv
<1>2. PICK s \in Streams : pipeStep.current = {s} /\ s \notin pipeStep.left
  BY <1>1 DEF ReturnInv, DeliveryInv
<1>3. pipeStep.point = "frames"
  BY <1>1 DEF ReturnInv, DeliveryInv
<1>4. PipeOrder' /\ DeliveryInv' /\ ClearInv'
  BY <1>1 DEF ReturnInv, PipeOrder, DeliveryInv, ClearInv
<1>5. Waiting' = Waiting /\ IdsOf(pipe)' = IdsOf(pipe)
  BY <1>1 DEF Waiting, Held, IdsIn, IdsOf
<1>6. CASE Head(pipe).request.id = 0
  <2>1. StreamsDue' = StreamsDue /\ mFrameQueue' = mFrameQueue
    BY <1>1, <1>6 DEF StreamsDue, HandleFrameAvailable
  <2>2. FrameOrder' /\ Frames' = Frames
    BY <1>1, <2>1, FewerDue DEF ReturnInv, Frames
  <2> QED BY <1>1, <1>4, <1>5, <2>1, <2>2, Stutters DEF ReturnInv
<1>7. CASE Head(pipe).request.id # 0
  <2> DEFINE request == Head(pipe).request
  <2>1. mFrameQueue' = [mFrameQueue EXCEPT ![s] = Append(@, request)]
    BY <1>2, <1>7 DEF HandleFrameAvailable
  <2>2. /\ request \in Requests /\ request.id \in Nat /\ request = pipe[1].request
        /\ 1 \in DOMAIN pipe
    <3>1. pipe \in Seq(Jobs) /\ 1 \in DOMAIN pipe /\ Head(pipe) = pipe[1]
      BY <1>1, PathTypes, TailAt
    <3> QED BY <3>1, PathTypes
  <2>3. request.id # 0
    BY <1>7
  <2>4. request.id \in Path!Oldest(IdsOf(pipe))
    BY <1>1, <1>7, OldestJob DEF ReturnInv
  <2> HIDE DEF request
  <2>5. StreamsDue = pipeStep.left \cup {s} /\ StreamsDue' = StreamsDue \ {s}
    BY <1>1, <1>2, <1>3, <1>7 DEF StreamsDue
  <2>6. /\ mFrameQueue[s] \in Seq(Requests) /\ mFrameQueue'[s] = Append(mFrameQueue[s], request)
        /\ \A t \in Streams : t # s => mFrameQueue'[t] = mFrameQueue[t]
    <3>1. mFrameQueue \in [Streams -> Seq(Requests)]
      BY DEF TypeOK, DeviceType
    <3> QED BY <2>1, <3>1
  <2>7. /\ Len(mFrameQueue[s]) \in Nat /\ DOMAIN mFrameQueue[s] = 1..Len(mFrameQueue[s])
        /\ \A n \in DOMAIN mFrameQueue[s] : mFrameQueue'[s][n] = mFrameQueue[s][n]
        /\ mFrameQueue'[s][Len(mFrameQueue[s]) + 1] = request
        /\ \A n \in DOMAIN mFrameQueue'[s] :
              n \in DOMAIN mFrameQueue[s] \/ n = Len(mFrameQueue[s]) + 1
    BY <2>2, <2>6, AppendAt
  <2>8. \A i \in DOMAIN pipe : pipe[i].request.id # 0 =>
          request.id <= pipe[i].request.id /\ (request.id = pipe[i].request.id => i = 1)
    <3> SUFFICES ASSUME NEW i \in DOMAIN pipe, pipe[i].request.id # 0
                 PROVE  /\ request.id <= pipe[i].request.id
                        /\ request.id = pipe[i].request.id => i = 1
      OBVIOUS
    <3>1. CASE i = 1
      BY <2>2, <3>1
    <3>2. CASE i # 1
      <4>1. 1 < i
        BY <1>1, <3>2, PathTypes
      <4>2. request.id < pipe[i].request.id /\ pipe[i].request.id \in Nat
        BY <2>2, <4>1, PathTypes DEF ReturnInv, PipeOrder
      <4> QED BY <2>2, <4>2
    <3> QED BY <3>1, <3>2
  <2>9. ASSUME NEW n \in DOMAIN mFrameQueue[s] PROVE mFrameQueue[s][n].id < request.id
    <3>1. /\ mFrameQueue[s][n].id <= request.id /\ mFrameQueue[s][n].id # request.id
          /\ mFrameQueue[s][n].id \in Nat
      BY <2>2, <2>3, <2>5, PathTypes DEF ReturnInv, FrameOrder
    <3> QED BY <2>2, <3>1
  <2>10. FrameOrder'
    <3> SUFFICES ASSUME NEW t \in Streams
                 PROVE  /\ \A m, n \in DOMAIN mFrameQueue'[t] :
                              m < n => mFrameQueue'[t][m].id < mFrameQueue'[t][n].id
                        /\ \A n \in DOMAIN mFrameQueue'[t] :
                              /\ mFrameQueue'[t][n].id # 0 /\ mFrameQueue'[t][n].id <= rt.lastHanded
                              /\ \A i \in DOMAIN pipe : pipe[i].request.id # 0 =>
                                    /\ mFrameQueue'[t][n].id <= pipe[i].request.id
                                    /\ mFrameQueue'[t][n].id = pipe[i].request.id
                                       => i = 1 /\ t \notin StreamsDue'
      BY <1>1 DEF FrameOrder
    <3>1. CASE t # s
      BY <2>5, <2>6, <3>1 DEF ReturnInv, FrameOrder
    <3>2. CASE t = s
      <4>1. ASSUME NEW m \in DOMAIN mFrameQueue'[s], NEW n \in DOMAIN mFrameQueue'[s], m < n
            PROVE  mFrameQueue'[s][m].id < mFrameQueue'[s][n].id
        <5>1. m \in DOMAIN mFrameQueue[s]
          BY <2>7, <4>1
        <5>2. CASE n \in DOMAIN mFrameQueue[s]
          BY <2>7, <4>1, <5>1, <5>2 DEF ReturnInv, FrameOrder
        <5>3. CASE n = Len(mFrameQueue[s]) + 1
          BY <2>7, <2>9, <5>1, <5>3
        <5> QED BY <2>7, <5>2, <5>3
      <4>2. ASSUME NEW n \in DOMAIN mFrameQueue'[s]
            PROVE  /\ mFrameQueue'[s][n].id # 0 /\ mFrameQueue'[s][n].id <= rt.lastHanded
                   /\ \A i \in DOMAIN pipe : pipe[i].request.id # 0 =>
                         /\ mFrameQueue'[s][n].id <= pipe[i].request.id
                         /\ mFrameQueue'[s][n].id = pipe[i].request.id
                            => i = 1 /\ s \notin StreamsDue'
        <5>1. CASE n \in DOMAIN mFrameQueue[s]
          BY <2>5, <2>7, <5>1 DEF ReturnInv, FrameOrder
        <5>2. CASE n = Len(mFrameQueue[s]) + 1
          <6>1. request.id <= rt.lastHanded
            BY <2>2 DEF ReturnInv, PipeOrder
          <6> QED BY <2>3, <2>5, <2>7, <2>8, <5>2, <6>1
        <5> QED BY <2>7, <5>1, <5>2
      <4> QED BY <3>2, <4>1, <4>2
    <3> QED BY <3>1, <3>2
  <2>11. Frames' = [Frames EXCEPT ![s] = @ \cup {request.id}]
    <3>1. IdsIn(mFrameQueue'[s]) = IdsIn(mFrameQueue[s]) \cup {request.id}
      <4>1. IdsIn(Append(mFrameQueue[s], request)) = IdsIn(mFrameQueue[s]) \cup ({request.id} \ {0})
        BY <2>2, <2>6, IdsAppend
      <4> QED BY <2>3, <2>6, <4>1
    <3>2. Frames' = [t \in Streams |-> IdsIn(mFrameQueue'[t])]
      BY DEF Frames
    <3> QED BY <2>6, <3>1, <3>2 DEF Frames
  <2>12. s \in StreamsDue \cap Streams
    BY <2>5
  <2> QED BY <1>1, <1>4, <1>5, <2>4, <2>5, <2>10, <2>11, <2>12, Returns DEF ReturnInv
<1> QED BY <1>6, <1>7

-----------------------------------------------------------------------------
(* The application.                                                        *)

\* qbuf
LEMMA QbufStep ==
  ASSUME TypeOK, ReturnInv, StartedSame, Qbuf
  PROVE  ReturnInv' /\ [Path!Next]_(Path!pathVars)
<1>1. PICK kind \in RequestKinds : processRequest(kind)
  BY DEF Qbuf
<1>2. /\ mActive' = TRUE /\ pipe' = pipe /\ pipeStep' = pipeStep /\ mFrameQueue' = mFrameQueue
      /\ inbox' = inbox
  BY <1>1 DEF processRequest
<1>3. app'.queued = app.queued + 1 /\ app'.pc = "idle"
  BY <1>1 DEF processRequest, AppAt, TypeOK, Applications
<1>4. rt' \in {rt, Signal(rt)}
  BY <1>1 DEF processRequest, AddTrigger
<1>5. rt'.lastHanded = rt.lastHanded /\ Held' = Held
  <2>1. CASE rt' = Signal(rt)
    BY <2>1 DEF Signal, TypeOK, RequestThreads, Held
  <2>2. CASE rt' = rt
    BY <2>2 DEF Held
  <2> QED BY <1>4, <2>1, <2>2
<1>6. Waiting' = Waiting \cup {app.queued + 1}
  <2>1. PICK request \in Requests : /\ mPendingRequests' = Append(mPendingRequests, request)
                                    /\ request.id = app.queued + 1
    <3> DEFINE session == IF mActive THEN app.session ELSE app.session + 1
               request == [id |-> app.queued + 1, session |-> session,
                           mIsFirstRequest |-> ~mActive, hasVideoBuffer |-> kind.hasVideoBuffer,
                           sequence |-> kind.sequence]
    <3>1. app.queued + 1 \in Nat /\ session \in Nat /\ (~mActive) \in BOOLEAN
      BY DEF TypeOK, MembersType, Applications
    <3>2. request \in Requests
      BY <1>1, <3>1, NewRequestType
    <3>3. mPendingRequests' = Append(mPendingRequests, request)
      BY <1>1 DEF processRequest
    <3>4. request.id = app.queued + 1
      OBVIOUS
    <3> QED BY <3>2, <3>3, <3>4
  <2>2. mPendingRequests \in Seq(Requests) /\ app.queued + 1 # 0
    BY PathTypes
  <2>3. IdsIn(Append(mPendingRequests, request)) = IdsIn(mPendingRequests) \cup {app.queued + 1}
    <3>1. IdsIn(Append(mPendingRequests, request))
          = IdsIn(mPendingRequests) \cup ({request.id} \ {0})
      BY <2>2, IdsAppend
    <3> QED BY <2>1, <2>2, <3>1
  <2>4. IdsIn(mPendingRequests)' = IdsIn(mPendingRequests) \cup {app.queued + 1}
    BY <2>1, <2>3 DEF IdsIn
  <2> QED BY <1>5, <2>4 DEF Waiting
<1>7. StreamsDue' = StreamsDue /\ IdsOf(pipe)' = IdsOf(pipe) /\ Frames' = Frames
  BY <1>2, DueStays DEF IdsOf, Frames
<1>8. PipeOrder' /\ DeliveryInv' /\ ClearInv'
  BY <1>2, <1>3, <1>5 DEF ReturnInv, PipeOrder, DeliveryInv, ClearInv
<1>9. FrameOrder'
  BY <1>2, <1>5, <1>7, FewerDue DEF ReturnInv
<1> QED BY <1>2, <1>3, <1>6, <1>7, <1>8, <1>9, Submits DEF ReturnInv

\* The processors are stopped: by stop(), and by a start() that fails.
LEMMA StopInv ==
  ASSUME TypeOK, ReturnInv, StopLocked, mActive' = mActive, rt' = rt, inbox' = inbox,
         mPendingRequests' = mPendingRequests, mFrameQueue' = mFrameQueue,
         app'.pc # "clearFrames"
  PROVE  /\ ReturnInv' /\ IdsOf(pipe)' = {} /\ StreamsDue' = Streams
         /\ Waiting' = Waiting /\ Frames' = Frames
<1>1. pipe' = <<>> /\ pipeStep' = NoFrameStep /\ inbox'["psys"] = "NONE"
  BY DEF StopLocked, Idle, Sources
<1>2. PipeOrder' /\ DeliveryInv' /\ ClearInv'
  BY <1>1 DEF PipeOrder, DeliveryInv, ClearInv, NoFrameStep
<1>3. FrameOrder'
  BY <1>1 DEF ReturnInv, FrameOrder
<1>4. IdsOf(pipe)' = {} /\ StreamsDue' = Streams
  BY <1>1 DEF IdsOf, StreamsDue
<1>5. Waiting' = Waiting /\ Frames' = Frames
  BY DEF Waiting, Held, IdsIn, Frames
<1> QED BY <1>2, <1>3, <1>4, <1>5 DEF ReturnInv

\* start() waits for the first request, starts the units, or fails to.
LEMMA StartStep ==
  ASSUME TypeOK, ReturnInv, RunInv, wait1stRequestDone \/ Wait1stReturns
  PROVE  ReturnInv' /\ [Path!Next]_(Path!pathVars)
<1>1. /\ mActive' = mActive /\ rt' = rt /\ inbox' = inbox
      /\ mPendingRequests' = mPendingRequests /\ mFrameQueue' = mFrameQueue
  BY DEF wait1stRequestDone, Wait1stReturns
<1>2. mState = "DEVICE_BUFFER_READY" /\ mActive
  BY DEF wait1stRequestDone, Wait1stReturns, AppAt, RunInv, Serving
<1>3. Waiting' = Waiting
  BY <1>1 DEF Waiting, Held, IdsIn
<1>4. CASE app' = [app EXCEPT !.pc = "wait1st"] /\ UNCHANGED <<mState, pipeVars>>
  <2>1. StartedSame /\ app'.queued = app.queued /\ app'.pc # "clearFrames"
    BY <1>4 DEF StartedSame, TypeOK, Applications
  <2> QED BY <1>1, <1>3, <1>4, <2>1, QuietStep
<1>5. ASSUME NEW waited \in BOOLEAN, StartReturns(waited)
      PROVE  ReturnInv' /\ [Path!Next]_(Path!pathVars)
  <2>1. PICK fails \in BOOLEAN :
          /\ StartUnits(fails)
          /\ app' = [app EXCEPT !.pc = "idle", !.startFailed = fails,
                                !.startOk = waited => app.firstDone]
    BY <1>5 DEF StartReturns
  <2>2. app'.queued = app.queued /\ app'.pc = "idle" /\ app'.startFailed = fails
    BY <2>1 DEF TypeOK, Applications
  <2>3. CASE ~ fails
    <3>1. mState' = "DEVICE_START" /\ pipe' = pipe /\ pipeStep' = pipeStep
      BY <2>1, <2>3 DEF StartUnits
    <3>2. /\ ReturnInv' /\ StreamsDue' = StreamsDue
          /\ IdsOf(pipe)' = IdsOf(pipe) /\ Frames' = Frames
      BY <1>1, <2>2, <3>1, QuietInv
    <3>3. app'.startFailed = FALSE
      BY <2>2, <2>3
    <3> QED BY <1>1, <1>2, <1>3, <2>2, <3>1, <3>2, <3>3, Starts
  <2>4. CASE fails
    <3>1. StopLocked /\ mState' = mState
      BY <2>1, <2>4 DEF StartUnits
    <3>2. /\ ReturnInv' /\ IdsOf(pipe)' = {} /\ StreamsDue' = Streams
          /\ Waiting' = Waiting /\ Frames' = Frames
      BY <1>1, <2>2, <3>1, StopInv
    <3>3. app'.startFailed = TRUE
      BY <2>2, <2>4
    <3> QED BY <1>1, <1>2, <2>2, <3>1, <3>2, <3>3, FailsToStart
  <2> QED BY <2>3, <2>4
<1> QED BY <1>4, <1>5 DEF wait1stRequestDone, Wait1stReturns

\* stop() stops the units, when they run.
LEMMA StopUnitsStep ==
  ASSUME TypeOK, ReturnInv, RunInv, StopUnits
  PROVE  ReturnInv' /\ [Path!Next]_(Path!pathVars)
<1>1. /\ mActive' = mActive /\ rt' = rt /\ inbox' = inbox /\ mState' = "DEVICE_STOP"
      /\ mPendingRequests' = mPendingRequests /\ mFrameQueue' = mFrameQueue
  BY DEF StopUnits
<1>2. /\ app'.queued = app.queued /\ app'.pc # "clearFrames"
      /\ app'.startFailed = app.startFailed
  BY DEF StopUnits, TypeOK, Applications
<1>3. ~ mActive
  BY DEF StopUnits, AppAt, RunInv, Serving
<1>4. CASE mState = "DEVICE_START"
  <2>1. /\ ReturnInv' /\ IdsOf(pipe)' = {} /\ StreamsDue' = Streams
        /\ Waiting' = Waiting /\ Frames' = Frames
    BY <1>1, <1>2, <1>4, StopInv DEF StopUnits
  <2> QED BY <1>1, <1>2, <1>3, <1>4, <2>1, StopsProcessing
<1>5. CASE mState # "DEVICE_START"
  <2>1. pipe' = pipe /\ pipeStep' = pipeStep /\ StartedSame
    BY <1>1, <1>2, <1>5 DEF StopUnits, StartedSame
  <2>2. Waiting' = Waiting
    BY <1>1 DEF Waiting, Held, IdsIn
  <2> QED BY <1>1, <1>2, <2>1, <2>2, QuietStep
<1> QED BY <1>4, <1>5

\* clearRequests makes the camera inactive, ...
LEMMA ClearActiveStep ==
  ASSUME TypeOK, ReturnInv, StartedSame, NEW deinit \in BOOLEAN, ClearActive(deinit)
  PROVE  ReturnInv' /\ [Path!Next]_(Path!pathVars)
<1>1. /\ mActive' = FALSE /\ rt' = rt /\ inbox' = inbox /\ pipe' = pipe /\ pipeStep' = pipeStep
      /\ mPendingRequests' = mPendingRequests /\ mFrameQueue' = mFrameQueue
  BY DEF ClearActive
<1>2. app'.queued = app.queued
  BY DEF ClearActive, TypeOK, Applications
<1>3. PipeOrder' /\ DeliveryInv' /\ ClearInv'
  BY <1>1 DEF ReturnInv, PipeOrder, DeliveryInv, ClearInv
<1>4. /\ Waiting' = Waiting /\ StreamsDue' = StreamsDue /\ IdsOf(pipe)' = IdsOf(pipe)
      /\ Frames' = Frames
  BY <1>1, DueStays DEF Waiting, Held, IdsIn, IdsOf, Frames
<1>5. FrameOrder'
  BY <1>1, <1>4, FewerDue DEF ReturnInv
<1> QED BY <1>1, <1>2, <1>3, <1>4, <1>5, Deactivates DEF ReturnInv

\* ... drops the frames of one stream after the other, ...
LEMMA ClearFramesStep ==
  ASSUME TypeOK, ReturnInv, StartedSame, NEW s \in Streams, ClearFrames(s)
  PROVE  ReturnInv' /\ [Path!Next]_(Path!pathVars)
<1>1. /\ mActive' = mActive /\ rt' = rt /\ inbox' = inbox /\ pipe' = pipe /\ pipeStep' = pipeStep
      /\ mPendingRequests' = mPendingRequests
      /\ mFrameQueue' = [mFrameQueue EXCEPT ![s] = <<>>] /\ app.pc = "clearFrames"
  BY DEF ClearFrames, AppAt
<1>2. app'.queued = app.queued
  BY DEF ClearFrames, TypeOK, Applications
<1>3. ~ mActive
  BY <1>1 DEF ReturnInv, ClearInv
<1>4. PipeOrder' /\ DeliveryInv' /\ ClearInv'
  BY <1>1, <1>3 DEF ReturnInv, PipeOrder, DeliveryInv, ClearInv
<1>5. Waiting' = Waiting /\ StreamsDue' = StreamsDue /\ IdsOf(pipe)' = IdsOf(pipe)
  BY <1>1, DueStays DEF Waiting, Held, IdsIn, IdsOf
<1>6. mFrameQueue'[s] = <<>> /\ \A t \in Streams : t # s => mFrameQueue'[t] = mFrameQueue[t]
  BY <1>1 DEF TypeOK, DeviceType
<1>7. FrameOrder'
  <2> SUFFICES ASSUME NEW t \in Streams
               PROVE  /\ \A m, n \in DOMAIN mFrameQueue'[t] :
                            m < n => mFrameQueue'[t][m].id < mFrameQueue'[t][n].id
                      /\ \A n \in DOMAIN mFrameQueue'[t] :
                            /\ mFrameQueue'[t][n].id # 0 /\ mFrameQueue'[t][n].id <= rt.lastHanded
                            /\ \A i \in DOMAIN pipe : pipe[i].request.id # 0 =>
                                  /\ mFrameQueue'[t][n].id <= pipe[i].request.id
                                  /\ mFrameQueue'[t][n].id = pipe[i].request.id
                                     => i = 1 /\ t \notin StreamsDue
    BY <1>1, <1>5 DEF FrameOrder
  <2>1. CASE t = s
    BY <1>6, <2>1
  <2>2. CASE t # s
    BY <1>6, <2>2 DEF ReturnInv, FrameOrder
  <2> QED BY <2>1, <2>2
<1>8. Frames' = [Frames EXCEPT ![s] = {}]
  <2>1. Frames' = [t \in Streams |-> IdsIn(mFrameQueue'[t])]
    BY DEF Frames
  <2>2. IdsIn(mFrameQueue'[s]) = {}
    BY <1>6, NoIds
  <2> QED BY <1>6, <2>1, <2>2 DEF Frames
<1> QED BY <1>1, <1>2, <1>3, <1>4, <1>5, <1>7, <1>8, DropsFrames DEF ReturnInv

\* ... and then the queue of requests.
LEMMA ClearQueueStep ==
  ASSUME TypeOK, ReturnInv, StartedSame, ClearQueue
  PROVE  ReturnInv' /\ [Path!Next]_(Path!pathVars)
<1>1. /\ mActive' = mActive /\ rt' = rt /\ inbox' = inbox /\ pipe' = pipe /\ pipeStep' = pipeStep
      /\ mPendingRequests' = <<>> /\ mFrameQueue' = mFrameQueue /\ app.pc = "clearFrames"
  BY DEF ClearQueue, ResetQueue, AppAt
<1>2. app'.queued = app.queued
  BY DEF ClearQueue, TypeOK, Applications
<1>3. ~ mActive
  BY <1>1 DEF ReturnInv, ClearInv
<1>4. IdsIn(mPendingRequests)' = {}
  <2>1. IdsIn(mPendingRequests') = {}
    BY <1>1, NoIds
  <2> QED BY <2>1 DEF IdsIn
<1>5. Waiting' \subseteq Waiting
  BY <1>1, <1>4 DEF Waiting, Held
<1>6. ReturnInv' /\ StreamsDue' = StreamsDue /\ IdsOf(pipe)' = IdsOf(pipe) /\ Frames' = Frames
  BY <1>1, QuietInv
<1> QED BY <1>1, <1>2, <1>3, <1>5, <1>6, DropsWaiting

\* configure, and a dqbuf whose wait ends without a frame
LEMMA IdleSteps ==
  ASSUME TypeOK, ReturnInv, StartedSame, configure \/ \E s \in Streams : WaitFrameTimeout(s)
  PROVE  ReturnInv' /\ UNCHANGED Path!pathVars
<1>1. /\ mActive' = mActive /\ rt' = rt /\ inbox' = inbox /\ pipe' = pipe /\ pipeStep' = pipeStep
      /\ mPendingRequests' = mPendingRequests /\ mFrameQueue' = mFrameQueue /\ app' = app
  BY DEF configure, WaitFrameTimeout
<1>2. Waiting' = Waiting
  BY <1>1 DEF Waiting, Held, IdsIn
<1> QED BY <1>1, <1>2, QuietStep

\* The front of a stream's frames is the oldest of them, and is there once.
LEMMA OldestFrame ==
  ASSUME TypeOK, FrameOrder, NEW s \in Streams, mFrameQueue[s] # <<>>
  PROVE  /\ Head(mFrameQueue[s]).id \in Path!Oldest(Frames[s])
         /\ IdsIn(Tail(mFrameQueue[s])) = Frames[s] \ {Head(mFrameQueue[s]).id}
<1> DEFINE q == mFrameQueue[s]
<1>1. q \in Seq(Requests) /\ \A n \in DOMAIN q : q[n].id \in Nat /\ q[n].id # 0
  BY PathTypes DEF FrameOrder
<1>2. Head(q) = q[1] /\ 1 \in DOMAIN q
  BY <1>1, TailAt
<1>3. ASSUME NEW n \in DOMAIN q, n # 1 PROVE Head(q).id < q[n].id
  <2>1. 1 < n
    BY <1>1, <1>3
  <2> QED BY <1>2, <2>1 DEF FrameOrder
<1>4. Frames[s] = IdsIn(q)
  BY DEF Frames
<1>5. IdsIn(q) = {Head(q).id} \cup IdsIn(Tail(q))
  <2>1. IdsIn(q) = ({Head(q).id} \ {0}) \cup IdsIn(Tail(q))
    BY <1>1, IdsFront
  <2> QED BY <1>1, <1>2, <2>1
<1>6. ASSUME NEW other \in IdsIn(q) PROVE Head(q).id <= other
  <2>1. PICK n \in DOMAIN q : other = q[n].id /\ other # 0
    BY DEF IdsIn
  <2> QED BY <1>1, <1>2, <1>3, <2>1
<1>7. Head(q).id \notin IdsIn(Tail(q))
  <2> SUFFICES ASSUME NEW n \in DOMAIN Tail(q), Head(q).id = Tail(q)[n].id
               PROVE  FALSE
    BY DEF IdsIn
  <2>1. n + 1 \in DOMAIN q /\ n + 1 # 1 /\ Tail(q)[n] = q[n + 1]
    BY <1>1, TailAt
  <2> QED BY <1>1, <1>2, <1>3, <2>1
<1> QED BY <1>4, <1>5, <1>6, <1>7 DEF Path!Oldest

\* dqbuf
LEMMA TakeStep ==
  ASSUME TypeOK, ReturnInv, StartedSame, NEW s \in Streams, waitFrame(s)
  PROVE  ReturnInv' /\ [Path!Next]_(Path!pathVars)
<1>1. /\ mActive' = mActive /\ rt' = rt /\ inbox' = inbox /\ pipe' = pipe /\ pipeStep' = pipeStep
      /\ mPendingRequests' = mPendingRequests /\ app' = app
  BY DEF waitFrame
<1>2. Waiting' = Waiting
  BY <1>1 DEF Waiting, Held, IdsIn
<1>3. CASE mFrameQueue' = mFrameQueue
  BY <1>1, <1>2, <1>3, QuietStep
<1>4. CASE /\ mFrameQueue[s] # <<>>
           /\ mFrameQueue' = [mFrameQueue EXCEPT ![s] = Tail(@)]
  <2>1. PipeOrder' /\ DeliveryInv' /\ ClearInv'
    BY <1>1 DEF ReturnInv, PipeOrder, DeliveryInv, ClearInv
  <2>2. StreamsDue' = StreamsDue /\ IdsOf(pipe)' = IdsOf(pipe)
    BY <1>1, DueStays DEF IdsOf
  <2>3. /\ mFrameQueue'[s] = Tail(mFrameQueue[s])
        /\ \A t \in Streams : t # s => mFrameQueue'[t] = mFrameQueue[t]
    BY <1>4 DEF TypeOK, DeviceType
  <2>4. \A n \in DOMAIN mFrameQueue'[s] : /\ n + 1 \in DOMAIN mFrameQueue[s] /\ n \in Int
                                          /\ mFrameQueue'[s][n] = mFrameQueue[s][n + 1]
    <3> DEFINE q == mFrameQueue[s]
    <3>1. q \in Seq(Requests) /\ q # <<>>
      BY <1>4, PathTypes
    <3> HIDE DEF q
    <3>2. /\ DOMAIN Tail(q) = 1..(Len(q) - 1)
          /\ \A n \in 1..(Len(q) - 1) : n + 1 \in DOMAIN q /\ Tail(q)[n] = q[n + 1]
      BY <3>1, TailAt
    <3> QED BY <2>3, <3>2 DEF q
  <2>5. FrameOrder'
    <3> SUFFICES ASSUME NEW t \in Streams
                 PROVE  /\ \A m, n \in DOMAIN mFrameQueue'[t] :
                              m < n => mFrameQueue'[t][m].id < mFrameQueue'[t][n].id
                        /\ \A n \in DOMAIN mFrameQueue'[t] :
                              /\ mFrameQueue'[t][n].id # 0 /\ mFrameQueue'[t][n].id <= rt.lastHanded
                              /\ \A i \in DOMAIN pipe : pipe[i].request.id # 0 =>
                                    /\ mFrameQueue'[t][n].id <= pipe[i].request.id
                                    /\ mFrameQueue'[t][n].id = pipe[i].request.id
                                       => i = 1 /\ t \notin StreamsDue
      BY <1>1, <2>2 DEF FrameOrder
    <3>1. CASE t = s
      <4>1. ASSUME NEW m \in DOMAIN mFrameQueue'[s], NEW n \in DOMAIN mFrameQueue'[s], m < n
            PROVE  mFrameQueue'[s][m].id < mFrameQueue'[s][n].id
        <5>1. m + 1 < n + 1
          BY <2>4, <4>1
        <5> QED BY <2>4, <5>1 DEF ReturnInv, FrameOrder
      <4>2. \A n \in DOMAIN mFrameQueue'[s] :
               /\ mFrameQueue'[s][n].id # 0 /\ mFrameQueue'[s][n].id <= rt.lastHanded
               /\ \A i \in DOMAIN pipe : pipe[i].request.id # 0 =>
                     /\ mFrameQueue'[s][n].id <= pipe[i].request.id
                     /\ mFrameQueue'[s][n].id = pipe[i].request.id => i = 1 /\ s \notin StreamsDue
        BY <2>4 DEF ReturnInv, FrameOrder
      <4> QED BY <3>1, <4>1, <4>2
    <3>2. CASE t # s
      BY <2>3, <3>2 DEF ReturnInv, FrameOrder
    <3> QED BY <3>1, <3>2
  <2>6. /\ Head(mFrameQueue[s]).id \in Path!Oldest(Frames[s])
        /\ IdsIn(Tail(mFrameQueue[s])) = Frames[s] \ {Head(mFrameQueue[s]).id}
    BY <1>4, OldestFrame DEF ReturnInv
  <2>7. Frames' = [Frames EXCEPT ![s] = @ \ {Head(mFrameQueue[s]).id}]
    <3>1. Frames' = [t \in Streams |-> IdsIn(mFrameQueue'[t])]
      BY DEF Frames
    <3>2. IdsIn(mFrameQueue'[s]) = Frames[s] \ {Head(mFrameQueue[s]).id}
      BY <2>3, <2>6
    <3>3. \A t \in Streams : t # s => IdsIn(mFrameQueue'[t]) = Frames[t]
      BY <2>3 DEF Frames
    <3>4. DOMAIN Frames = Streams
      BY DEF Frames
    <3>5. Frames = [t \in Streams |-> Frames[t]]
      BY DEF Frames
    <3> QED BY <3>1, <3>2, <3>3, <3>4, <3>5
  <2> QED BY <1>1, <1>2, <2>1, <2>2, <2>5, <2>6, <2>7, Takes DEF ReturnInv
<1> QED BY <1>3, <1>4 DEF waitFrame

-----------------------------------------------------------------------------
(* The refinement.                                                         *)

\* Only start() and stop() change what RequestPath sees of the device.
LEMMA StartedStays ==
  ASSUME TypeOK, [Next]_vars, ~ wait1stRequestDone, ~ Wait1stReturns, ~ StopUnits
  PROVE  StartedSame
<1>1. CASE UNCHANGED vars
  BY <1>1 DEF vars, StartedSame
<1>2. CASE RequestThreadStep
  <2>1. mState' = mState
    BY <1>2 DEF RequestThreadStep, ThreadLoopAgain, LoopTop, LoopTimeout, LoopWoken,
       LoopCheckActive, fetchNextRequest, HandleBegin, HandleParams, HandleSave, HandleNotify,
       HandleFirst, LoopReset
  <2>2. app'.startFailed = app.startFailed
    <3>1. CASE HandleFirst
      BY <3>1 DEF HandleFirst, TypeOK, Applications
    <3>2. CASE ~ HandleFirst
      <4>1. app' = app
        BY <1>2, <3>2 DEF RequestThreadStep, ThreadLoopAgain, LoopTop, LoopTimeout, LoopWoken,
           LoopCheckActive, fetchNextRequest, HandleBegin, HandleParams, HandleSave,
           HandleNotify, LoopReset
      <4> QED BY <4>1
    <3> QED BY <3>1, <3>2
  <2> QED BY <2>1, <2>2 DEF StartedSame
<1>3. CASE EventStep \/ DqStep
  <2>1. mState' = mState /\ app' = app
    BY <1>3 DEF EventStep, DqStep, SofEvent, HandleSof, IsysFrameEvent, PsysStats, PsysFrame,
       PsysDone, HandleFrame, HandleStats, HandleFrameAvailable, HandleInsertFake, waitFrame,
       WaitFrameTimeout
  <2> QED BY <2>1 DEF StartedSame
<1>4. CASE Qbuf \/ configure
  <2>1. \/ mState' = mState
        \/ /\ mState # "DEVICE_START"
           /\ mState' \in {"DEVICE_BUFFER_READY", "DEVICE_CONFIGURE"}
    BY <1>4 DEF Qbuf, processRequest, configure
  <2>2. app'.startFailed = app.startFailed
    BY <1>4 DEF Qbuf, processRequest, configure, TypeOK, Applications
  <2> QED BY <2>1, <2>2 DEF StartedSame
<1>5. CASE \/ \E deinit \in BOOLEAN : ClearActive(deinit)
           \/ \E s \in Streams : ClearFrames(s)
           \/ ClearQueue \/ RequestExit
  <2>1. mState' = mState
    BY <1>5 DEF ClearActive, ClearFrames, ClearQueue, RequestExit
  <2>2. app'.startFailed = app.startFailed
    BY <1>5 DEF ClearActive, ClearFrames, ClearQueue, RequestExit, TypeOK, Applications
  <2> QED BY <2>1, <2>2 DEF StartedSame
<1> QED BY <1>1, <1>2, <1>3, <1>4, <1>5 DEF Next, AppStep

\* The device's state goes with mActive and with the thread that controls the device.
LEMMA RunStep ==
  ASSUME TypeOK, RunInv, [Next]_vars
  PROVE  RunInv'
<1> USE DEF Serving
<1>0. inbox \in [Sources -> EventTypes] /\ "psys" \in Sources
  BY DEF TypeOK, DeviceType, Sources
<1>1. CASE UNCHANGED vars
  BY <1>1 DEF vars, RunInv
<1>2. CASE RequestThreadStep
  <2>1. mState' = mState /\ mActive' = mActive /\ inbox' = inbox
    BY <1>2 DEF RequestThreadStep, ThreadLoopAgain, LoopTop, LoopTimeout, LoopWoken,
       LoopCheckActive, fetchNextRequest, HandleBegin, HandleParams, HandleSave, HandleNotify,
       HandleFirst, LoopReset
  <2>2. app'.pc = app.pc \/ (app.pc = "wait1st" /\ app'.pc = "woken1st")
    <3>1. CASE HandleFirst
      BY <3>1 DEF HandleFirst, TypeOK, Applications
    <3>2. CASE ~ HandleFirst
      <4>1. app' = app
        BY <1>2, <3>2 DEF RequestThreadStep, ThreadLoopAgain, LoopTop, LoopTimeout, LoopWoken,
           LoopCheckActive, fetchNextRequest, HandleBegin, HandleParams, HandleSave,
           HandleNotify, LoopReset
      <4> QED BY <4>1
    <3> QED BY <3>1, <3>2
  <2> QED BY <2>1, <2>2 DEF RunInv
<1>3. CASE EventStep \/ DqStep
  <2>1. mState' = mState /\ mActive' = mActive /\ app' = app
    BY <1>3 DEF EventStep, DqStep, SofEvent, HandleSof, IsysFrameEvent, PsysStats, PsysFrame,
       PsysDone, HandleFrame, HandleStats, HandleFrameAvailable, HandleInsertFake, waitFrame,
       WaitFrameTimeout
  <2>2. inbox'["psys"] # "NONE" => inbox["psys"] # "NONE" \/ mState = "DEVICE_START"
    <3>1. CASE PsysStats \/ PsysFrame \/ PsysDone
      BY <3>1 DEF PsysStats, PsysFrame, PsysDone, PsysTurn
    <3>2. CASE SofEvent \/ IsysFrameEvent
      BY <3>2 DEF SofEvent, IsysFrameEvent
    <3>3. CASE HandleSof \/ HandleFrame("isys") \/ HandleFrame("psys") \/ HandleStats
               \/ HandleFrameAvailable \/ HandleInsertFake
      BY <1>0, <3>3 DEF HandleSof, HandleFrame, HandleStats, HandleFrameAvailable,
         HandleInsertFake, Delivered
    <3>4. CASE DqStep
      BY <3>4 DEF DqStep, waitFrame, WaitFrameTimeout
    <3> QED BY <1>3, <3>1, <3>2, <3>3, <3>4 DEF EventStep
  <2> QED BY <2>1, <2>2 DEF RunInv
<1>4. CASE Qbuf \/ configure
  <2>1. /\ app.pc = "idle" /\ app'.pc = "idle" /\ inbox' = inbox
        /\ mState = "DEVICE_START" => mState' = "DEVICE_START"
        /\ mActive' \/ mState' = "DEVICE_CONFIGURE"
    BY <1>4 DEF Qbuf, processRequest, configure, AppAt, TypeOK, Applications
  <2> QED BY <2>1 DEF RunInv
<1>5. CASE \E deinit \in BOOLEAN : ClearActive(deinit)
  BY <1>5 DEF ClearActive, RunInv, TypeOK, Applications
<1>6. CASE (\E s \in Streams : ClearFrames(s)) \/ ClearQueue \/ RequestExit
  <2>1. mState' = mState /\ mActive' = mActive /\ inbox' = inbox
    BY <1>6 DEF ClearFrames, ClearQueue, RequestExit
  <2>2. app.pc \notin Serving /\ app'.pc \notin Serving
    BY <1>6 DEF ClearFrames, ClearQueue, RequestExit, AppAt, TypeOK, Applications
  <2> QED BY <2>1, <2>2 DEF RunInv
<1>7. CASE wait1stRequestDone \/ Wait1stReturns
  <2>1. mState = "DEVICE_BUFFER_READY" /\ mActive' = mActive /\ inbox' = inbox /\ mActive
    BY <1>7 DEF wait1stRequestDone, Wait1stReturns, AppAt, RunInv
  <2>2. \/ app'.pc = "wait1st" /\ mState' = mState
        \/ app'.pc = "idle"
    BY <1>7 DEF wait1stRequestDone, Wait1stReturns, StartReturns, TypeOK, Applications
  <2> QED BY <2>1, <2>2 DEF RunInv
<1>8. CASE StopUnits
  <2>1. app'.pc = "idle" /\ mState' = "DEVICE_STOP" /\ inbox' = inbox
    BY <1>8 DEF StopUnits, TypeOK, Applications
  <2>2. inbox["psys"] = "NONE"
    BY <1>8 DEF StopUnits, StopLocked, Idle, Sources, RunInv
  <2> QED BY <2>1, <2>2 DEF RunInv
<1> QED BY <1>1, <1>2, <1>3, <1>4, <1>5, <1>6, <1>7, <1>8 DEF Next, AppStep

\* Every step of the HAL is a step of RequestPath or none, and keeps the order of requests
\* and frames.
LEMMA RefinesStep ==
  ASSUME TypeOK, OrderInv, ReturnInv, RunInv, [Next]_vars
  PROVE  ReturnInv' /\ [Path!Next]_(Path!pathVars)
<1>0. StartedSame \/ wait1stRequestDone \/ Wait1stReturns \/ StopUnits
  BY StartedStays
<1>1. CASE UNCHANGED vars
  <2>1. /\ mActive' = mActive /\ rt' = rt /\ inbox' = inbox /\ pipe' = pipe /\ pipeStep' = pipeStep
        /\ mPendingRequests' = mPendingRequests /\ mFrameQueue' = mFrameQueue /\ app' = app
    BY <1>1 DEF vars
  <2>2. Waiting' = Waiting
    BY <2>1 DEF Waiting, Held, IdsIn
  <2>3. StartedSame
    BY <2>1, <1>1 DEF vars, StartedSame
  <2> QED BY <2>1, <2>2, <2>3, QuietStep
<1>2. CASE wait1stRequestDone \/ Wait1stReturns \/ StopUnits
  BY <1>2, StartStep, StopUnitsStep
<1>3. CASE StartedSame /\ RequestThreadStep
  BY <1>3, ThreadSteps, FetchStep, SaveStep, NotifyStep DEF RequestThreadStep
<1>4. CASE StartedSame /\ EventStep
  BY <1>4, EventSteps, StatsStep, FrameStep, DoneStep, AvailableStep DEF EventStep
<1>5. CASE StartedSame /\ AppStep /\ ~ wait1stRequestDone /\ ~ Wait1stReturns /\ ~ StopUnits
  <2>1. CASE Qbuf
    BY <1>5, <2>1, QbufStep
  <2>2. CASE \E deinit \in BOOLEAN : ClearActive(deinit)
    BY <1>5, <2>2, ClearActiveStep
  <2>3. CASE \E s \in Streams : ClearFrames(s)
    BY <1>5, <2>3, ClearFramesStep
  <2>4. CASE ClearQueue
    BY <1>5, <2>4, ClearQueueStep
  <2>5. CASE RequestExit
    BY <1>5, <2>5, EventSteps
  <2>6. CASE configure
    BY <1>5, <2>6, IdleSteps
  <2> QED BY <1>5, <2>1, <2>2, <2>3, <2>4, <2>5, <2>6 DEF AppStep
<1>6. CASE StartedSame /\ DqStep
  BY <1>6, TakeStep, IdleSteps DEF DqStep
<1> QED BY <1>0, <1>1, <1>2, <1>3, <1>4, <1>5, <1>6 DEF Next

\* At first nothing is anywhere.
LEMMA RefinesInit ==
  ASSUME Init
  PROVE  ReturnInv /\ RunInv /\ Path!Init
<1>1. /\ mActive = FALSE /\ mPendingRequests = <<>> /\ pipe = <<>> /\ pipeStep = NoFrameStep
      /\ app.pc = "idle" /\ app.queued = 0 /\ rt.pc = "loop"
      /\ \A s \in Streams : mFrameQueue[s] = <<>>
      /\ inbox["psys"] = "NONE" /\ mState = "DEVICE_CONFIGURE" /\ app.startFailed = FALSE
  BY DEF Init, Sources
<1>2. ReturnInv /\ RunInv
  BY <1>1 DEF ReturnInv, PipeOrder, FrameOrder, DeliveryInv, ClearInv, NoFrameStep, RunInv,
     Serving
<1>3. Waiting = {} /\ IdsOf(pipe) = {} /\ StreamsDue = Streams
  BY <1>1, NoIds DEF Waiting, Held, StreamsDue
<1>4. Frames = [s \in Streams |-> {}]
  BY <1>1, NoIds DEF Frames
<1>5. Path!Init
  BY <1>1, <1>3, <1>4 DEF Path!Init, Waiting, IdsOf, Frames
<1> QED BY <1>2, <1>5

\* Whatever the interleaving of the application, the request thread and the handlers, across
\* stops, failed starts and restarts: requests are handed over and their frames returned in
\* the order of qbuf, each once per stream.  A device in DEVICE_START loses no request before
\* it is stopped; what was handed over before is lost only by a start() that returns an error.
THEOREM Refines == Spec => ImplementsPath
<1>1. Init => OrderInv
  BY DEF Init, OrderInv, PendingOrder, HeldOrder, FakeRequest
<1>2. Init => ReturnInv /\ RunInv /\ Path!Init
  BY RefinesInit
<1>3. TypeOK /\ OrderInv /\ ReturnInv /\ RunInv /\ [Next]_vars
      => ReturnInv' /\ [Path!Next]_(Path!pathVars)
  BY RefinesStep
<1>4. TypeOK /\ RunInv /\ [Next]_vars => RunInv'
  BY RunStep
<1> QED BY <1>1, <1>2, <1>3, <1>4, OrderStep, TypeCorrect, PTL
        DEF Spec, ImplementsPath, Path!Spec

=============================================================================
