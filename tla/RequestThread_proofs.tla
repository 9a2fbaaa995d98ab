------------------------ MODULE RequestThread_proofs ------------------------
(***************************************************************************)
(* Proofs about RequestThread for every configuration, every set of streams *)
(* and every number of requests, SOF events and sessions.  Each section     *)
(* proves one property of the specification from an inductive invariant and *)
(* from TypeOK.                                                            *)
(***************************************************************************)
EXTENDS RequestThread, TLAPS

USE DEF reqVars, queueVars, seqVars, flagVars, ioVars, dqVars, pipeVars

\* A fake request is a request.
LEMMA FakeRequestType == \A n \in Nat : FakeRequest(n) \in Requests
  BY DEF FakeRequest, Requests

\* The numbers of a request.
LEMMA RequestFields ==
  \A r \in Requests : r.id \in Nat /\ r.session \in Nat /\ r.sequence \in Int
  BY DEF Requests

\* What processRequest() builds from a qbuf is a request.
LEMMA NewRequestType ==
  ASSUME NEW kind \in RequestKinds, NEW id \in Nat, NEW session \in Nat,
         NEW first \in BOOLEAN
  PROVE  [id |-> id, session |-> session, mIsFirstRequest |-> first,
          hasVideoBuffer |-> kind.hasVideoBuffer, sequence |-> kind.sequence] \in Requests
  BY ConfigAssumption DEF Requests

\* The front and the rest of a queue that is not empty.
LEMMA HeadTail ==
  ASSUME NEW S, NEW q \in Seq(S), q # <<>>
  PROVE  Head(q) \in S /\ Tail(q) \in Seq(S)
  OBVIOUS

\* The processors' idle step is of the right type.
LEMMA NoFrameStepType == NoFrameStep \in PipeSteps
  BY DEF NoFrameStep, PipeSteps

\* The empty sequence is a queue of anything.
LEMMA EmptySeqType == \A S : <<>> \in Seq(S)
  OBVIOUS

\* The count of requests in processing does not become negative.
LEMMA FrameDoneType == MembersType => FrameDoneCount \in Nat
  BY DEF MembersType, FrameDoneCount

\* The effect sequence that 3A returns is a number.
LEMMA run3AType ==
  ASSUME MembersType, NEW d \in Int, NEW e \in run3A(d)
  PROVE  e \in Int
  BY ConfigAssumption DEF MembersType, run3A

\* A signalled request thread is of the right type.
LEMMA SignalType == ASSUME rt \in RequestThreads PROVE Signal(rt) \in RequestThreads
<1>1. CASE rt.pc = "wait"
  BY <1>1 DEF RequestThreads, Signal, RtPoints
<1>2. CASE rt.pc # "wait"
  BY <1>2 DEF Signal
<1> QED BY <1>1, <1>2

\* The processors drop their requests only when no frame is being delivered.
LEMMA StopLockedType ==
  ASSUME StopLocked, inbox' = inbox
  PROVE  pipe' \in Seq(Jobs) /\ pipeStep' \in PipeSteps /\ PsysEventHasJob'
<1>1. pipe' \in Seq(Jobs) /\ pipeStep' \in PipeSteps
  BY NoFrameStepType, EmptySeqType DEF StopLocked
<1>2. inbox["psys"] = "NONE"
  BY DEF StopLocked, Idle, Sources
<1> QED  BY <1>1, <1>2 DEF PsysEventHasJob

\* What startLocked() leaves of the device's state, whether it fails or not.
LEMMA StartUnitsType ==
  ASSUME TypeOK, NEW fails \in BOOLEAN, StartUnits(fails), inbox' = inbox
  PROVE  /\ pipe' \in Seq(Jobs) /\ pipeStep' \in PipeSteps /\ PsysEventHasJob'
         /\ sofCount' \in Nat
         /\ mState' = mState \/ mState' = "DEVICE_START"
<1>1. CASE StopLocked /\ UNCHANGED <<mState, sofCount>>
  BY <1>1, StopLockedType DEF TypeOK, DeviceType
<1>2. CASE mState' = "DEVICE_START" /\ sofCount' = 0 /\ UNCHANGED <<pipe, pipeStep>>
  BY <1>2 DEF TypeOK, DeviceType, PsysEventHasJob
<1> QED  BY <1>1, <1>2 DEF StartUnits

\* The initial states are of the right type.
LEMMA TypeInit == Init => TypeOK
<1> SUFFICES ASSUME Init PROVE TypeOK
  OBVIOUS
<1>1. MembersType
  <2>1. mBlockRequest \in BOOLEAN
    BY ConfigAssumption DEF Init
  <2>2. mPendingRequests \in Seq(Requests) /\ mRequestTriggerEvent \subseteq Triggers
    BY EmptySeqType DEF Init
  <2>3. /\ mLastRequestId \in Int /\ mLastEffectSeq \in Int
        /\ mLastAppliedSeq \in Int /\ mLastSofSeq \in Int
        /\ mRequestsInProcessing \in Nat
    BY DEF Init
  <2>4. mActive \in BOOLEAN /\ mFirstRequest \in BOOLEAN
    BY DEF Init
  <2> QED  BY <2>1, <2>2, <2>3, <2>4 DEF MembersType
<1>2. DeviceType
  BY NoFrameStepType DEF Init, DeviceType, Sources, EventTypes
<1>3. FakeRequest(0) \in Requests
  BY FakeRequestType
<1>4. rt \in RequestThreads
  BY <1>3 DEF Init, RequestThreads, RtPoints
<1>5. app \in Applications
  BY DEF Init, Applications, AppPoints
<1> QED  BY <1>1, <1>2, <1>4, <1>5 DEF TypeOK, PsysEventHasJob, Init, Sources

\* Every step preserves the types.
LEMMA TypeStep == TypeOK /\ [Next]_vars => TypeOK'
<1> SUFFICES ASSUME TypeOK, [Next]_vars
             PROVE  TypeOK'
  OBVIOUS
<1>1. CASE ThreadLoopAgain
  <2>1. rt' \in RequestThreads
    BY <1>1 DEF ThreadLoopAgain, RtGoto, TypeOK, MembersType, RequestThreads,
       RtPoints
  <2>2. MembersType' /\ DeviceType' /\ app' \in Applications /\ PsysEventHasJob'
    BY <1>1 DEF ThreadLoopAgain, TypeOK, MembersType, DeviceType,
       PsysEventHasJob
  <2> QED  BY <2>1, <2>2 DEF TypeOK
<1>2. CASE LoopTop
  <2>1. MembersType'
    BY <1>2 DEF LoopTop, ChooseSequence, ApplyingSeqs, RtGoto, TypeOK,
       MembersType, Triggers
  <2>2. rt' \in RequestThreads
    BY <1>2 DEF LoopTop, ChooseSequence, ApplyingSeqs, RtGoto, TypeOK,
       MembersType, RequestThreads, RtPoints
  <2>3. DeviceType' /\ app' \in Applications /\ PsysEventHasJob'
    BY <1>2 DEF LoopTop, TypeOK, DeviceType, PsysEventHasJob
  <2> QED  BY <2>1, <2>2, <2>3 DEF TypeOK
<1>3. CASE LoopTimeout
  <2>1. rt' \in RequestThreads
    BY <1>3 DEF LoopTimeout, RtGoto, TypeOK, MembersType, RequestThreads,
       RtPoints
  <2>2. MembersType' /\ DeviceType' /\ app' \in Applications /\ PsysEventHasJob'
    BY <1>3 DEF LoopTimeout, TypeOK, MembersType, DeviceType, PsysEventHasJob
  <2> QED  BY <2>1, <2>2 DEF TypeOK
<1>4. CASE LoopWoken
  <2>1. MembersType'
    BY <1>4 DEF LoopWoken, ChooseSequence, ApplyingSeqs, RtGoto, TypeOK,
       MembersType, Triggers
  <2>2. rt' \in RequestThreads
    BY <1>4 DEF LoopWoken, ChooseSequence, ApplyingSeqs, RtGoto, TypeOK,
       MembersType, RequestThreads, RtPoints
  <2>3. DeviceType' /\ app' \in Applications /\ PsysEventHasJob'
    BY <1>4 DEF LoopWoken, TypeOK, DeviceType, PsysEventHasJob
  <2> QED  BY <2>1, <2>2, <2>3 DEF TypeOK
<1>5. CASE LoopCheckActive
  <2>1. rt' \in RequestThreads
    BY <1>5 DEF LoopCheckActive, RtGoto, TypeOK, MembersType, RequestThreads,
       RtPoints
  <2>2. MembersType' /\ DeviceType' /\ app' \in Applications /\ PsysEventHasJob'
    BY <1>5 DEF LoopCheckActive, TypeOK, MembersType, DeviceType,
       PsysEventHasJob
  <2> QED  BY <2>1, <2>2 DEF TypeOK
<1>6. CASE fetchNextRequest
  <2>1. MembersType'
    <3>1. CASE mPendingRequests = <<>>
      BY <1>6, <3>1 DEF fetchNextRequest, TypeOK, MembersType
    <3>2. CASE mPendingRequests # <<>>
      <4>1. Tail(mPendingRequests) \in Seq(Requests)
        BY <3>2, HeadTail DEF TypeOK, MembersType
      <4> QED  BY <1>6, <3>2, <4>1, SMTT(30) DEF fetchNextRequest, TypeOK, MembersType
    <3> QED  BY <3>1, <3>2
  <2>2. rt' \in RequestThreads
    <3>1. CASE mPendingRequests = <<>>
      BY <1>6, <3>1 DEF fetchNextRequest, RtGoto, TypeOK, RequestThreads,
         RtPoints
    <3>2. CASE mPendingRequests # <<>>
      <4>1. NextPending \in Requests
        BY <3>2, HeadTail DEF TypeOK, MembersType, NextPending
      <4> QED  BY <1>6, <3>2, <4>1 DEF fetchNextRequest, TypeOK,
      RequestThreads, RtPoints
    <3> QED  BY <3>1, <3>2
  <2>3. DeviceType' /\ app' \in Applications /\ PsysEventHasJob'
    BY <1>6 DEF fetchNextRequest, TypeOK, DeviceType, PsysEventHasJob
  <2> QED  BY <2>1, <2>2, <2>3 DEF TypeOK
<1>7. CASE HandleBegin
  <2>1. rt' \in RequestThreads
    <3>1. rt.request.sequence \in Int /\ mLastEffectSeq + 1 \in Int
      BY RequestFields DEF TypeOK, MembersType, RequestThreads
    <3>2. CASE IsReprocess(rt.request)
      BY <1>7, <3>1, <3>2 DEF HandleBegin, TypeOK, RequestThreads, RtPoints
    <3>3. CASE ~IsReprocess(rt.request)
      BY <1>7, <3>1, <3>3 DEF HandleBegin, TypeOK, RequestThreads, RtPoints
    <3> QED  BY <3>2, <3>3
  <2>2. MembersType' /\ DeviceType' /\ app' \in Applications /\ PsysEventHasJob'
    BY <1>7 DEF HandleBegin, TypeOK, MembersType, DeviceType, PsysEventHasJob
  <2> QED  BY <2>1, <2>2 DEF TypeOK
<1>8. CASE HandleParams
  <2>1. MembersType'
    <3>1. mLastRequestId' \in Int
      <4>1. CASE mActive
        <5>1. mLastRequestId' = mLastRequestId + 1
          BY <1>8, <4>1 DEF HandleParams
        <5> QED  BY <5>1 DEF TypeOK, MembersType
      <4>2. CASE ~mActive
        BY <1>8, <4>2 DEF HandleParams, TypeOK, MembersType
      <4> QED  BY <4>1, <4>2
    <3> QED  BY <1>8, <3>1 DEF HandleParams, TypeOK, MembersType
  <2>2. rt' \in RequestThreads
    <3>1. CASE mActive
      <4>1. PICK seq \in run3A(rt.effectSeq) :
               rt' = [rt EXCEPT !.pc = "save", !.effectSeq = seq]
        BY <1>8, <3>1 DEF HandleParams
      <4>2. seq \in Int
        BY <4>1, run3AType DEF TypeOK, RequestThreads
      <4> QED  BY <4>1, <4>2 DEF TypeOK, RequestThreads, RtPoints
    <3>2. CASE ~mActive
      BY <1>8, <3>2 DEF HandleParams, RtGoto, TypeOK, RequestThreads, RtPoints
    <3> QED  BY <3>1, <3>2
  <2>3. DeviceType' /\ app' \in Applications /\ PsysEventHasJob'
    BY <1>8 DEF HandleParams, TypeOK, DeviceType, PsysEventHasJob
  <2> QED  BY <2>1, <2>2, <2>3 DEF TypeOK
<1>9. CASE HandleSave
  <2>1. MembersType'
    BY <1>9 DEF HandleSave, TypeOK, MembersType, RequestThreads
  <2>2. rt' \in RequestThreads
    BY <1>9 DEF HandleSave, RtGoto, TypeOK, MembersType, RequestThreads,
       RtPoints
  <2>3. DeviceType' /\ app' \in Applications /\ PsysEventHasJob'
    BY <1>9 DEF HandleSave, TypeOK, DeviceType, PsysEventHasJob
  <2> QED  BY <2>1, <2>2, <2>3 DEF TypeOK
<1>10. CASE HandleNotify
  <2>1. DeviceType'
    <3>1. [request |-> rt.request, settingSeq |-> rt.effectSeq] \in Jobs
      BY DEF TypeOK, RequestThreads, Jobs
    <3> QED  BY <1>10, <3>1 DEF HandleNotify, TypeOK, DeviceType
  <2>2. rt' \in RequestThreads
    <3>1. rt.request.id \in Nat
      BY RequestFields DEF TypeOK, RequestThreads
    <3> QED  BY <1>10, <3>1 DEF HandleNotify, TypeOK, RequestThreads, RtPoints
  <2>3. PsysEventHasJob'
    BY <1>10 DEF HandleNotify, PsysEventHasJob, TypeOK, DeviceType, Sources,
       EventTypes
  <2>4. MembersType' /\ app' \in Applications
    BY <1>10 DEF HandleNotify, TypeOK, MembersType
  <2> QED  BY <2>1, <2>2, <2>3, <2>4 DEF TypeOK
<1>11. CASE HandleFirst
  <2>1. MembersType'
    BY <1>11 DEF HandleFirst, RtGoto, TypeOK, MembersType, Triggers
  <2>2. rt' \in RequestThreads
    BY <1>11 DEF HandleFirst, RtGoto, TypeOK, MembersType, RequestThreads,
       RtPoints
  <2>3. app' \in Applications
    BY <1>11 DEF HandleFirst, RtGoto, TypeOK, MembersType, Applications,
       AppPoints
  <2>4. DeviceType' /\ PsysEventHasJob'
    BY <1>11 DEF HandleFirst, TypeOK, DeviceType, PsysEventHasJob
  <2> QED  BY <2>1, <2>2, <2>3, <2>4 DEF TypeOK
<1>12. CASE LoopReset
  <2>1. MembersType'
    BY <1>12 DEF LoopReset, TypeOK, MembersType, Triggers
  <2>2. rt' \in RequestThreads
    <3>1. FakeRequest(0) \in Requests
      BY FakeRequestType
    <3> DEFINE none == FakeRequest(0)
    <3>2. rt' = [rt EXCEPT !.pc = "loop", !.request = none, !.effectSeq = 0]
      BY <1>12 DEF LoopReset
    <3> HIDE DEF none
    <3>3. none \in Requests
      BY <3>1 DEF none
    <3>4. rt' = [pc |-> "loop", exiting |-> rt.exiting, request |-> none,
                 effectSeq |-> 0, lastHanded |-> rt.lastHanded]
      BY <3>2 DEF TypeOK, RequestThreads
    <3> QED  BY <3>3, <3>4 DEF TypeOK, RequestThreads, RtPoints
  <2>3. DeviceType' /\ app' \in Applications /\ PsysEventHasJob'
    BY <1>12 DEF LoopReset, TypeOK, DeviceType, PsysEventHasJob
  <2> QED  BY <2>1, <2>2, <2>3 DEF TypeOK
<1>13. CASE SofEvent
  <2>1. DeviceType'
    BY <1>13 DEF SofEvent, Deliver, TypeOK, DeviceType, Sources, EventTypes
  <2>2. PsysEventHasJob'
    BY <1>13 DEF SofEvent, Deliver, PsysEventHasJob, TypeOK, DeviceType,
       Sources, EventTypes
  <2>3. MembersType' /\ rt' \in RequestThreads /\ app' \in Applications
    BY <1>13 DEF SofEvent, TypeOK, MembersType
  <2> QED  BY <2>1, <2>2, <2>3 DEF TypeOK
<1>14. CASE HandleSof
  <2>1. MembersType'
    <3>1. mLastSofSeq' \in Int
      BY <1>14 DEF HandleSof, TypeOK, DeviceType
    <3>2. mRequestTriggerEvent' \subseteq Triggers
      BY <1>14 DEF HandleSof, AddTrigger, Triggers, TypeOK, MembersType
    <3> QED  BY <1>14, <3>1, <3>2 DEF HandleSof, TypeOK, MembersType
  <2>2. DeviceType'
    BY <1>14 DEF HandleSof, AddTrigger, Delivered, TypeOK, DeviceType,
       Sources, EventTypes
  <2>3. rt' \in RequestThreads
    BY <1>14, SignalType DEF HandleSof, AddTrigger, Delivered, TypeOK,
       MembersType, RequestThreads, RtPoints
  <2>4. PsysEventHasJob'
    BY <1>14 DEF HandleSof, AddTrigger, Delivered, PsysEventHasJob, TypeOK,
       DeviceType, Sources, EventTypes
  <2>5. app' \in Applications
    BY <1>14 DEF HandleSof, TypeOK
  <2> QED  BY <2>1, <2>2, <2>3, <2>4, <2>5 DEF TypeOK
<1>15. CASE IsysFrameEvent
  <2>1. DeviceType'
    BY <1>15 DEF IsysFrameEvent, Deliver, TypeOK, DeviceType, Sources,
       EventTypes
  <2>2. PsysEventHasJob'
    BY <1>15 DEF IsysFrameEvent, Deliver, PsysEventHasJob, TypeOK, DeviceType,
       Sources, EventTypes
  <2>3. MembersType' /\ rt' \in RequestThreads /\ app' \in Applications
    BY <1>15 DEF IsysFrameEvent, TypeOK, MembersType
  <2> QED  BY <2>1, <2>2, <2>3 DEF TypeOK
<1>16. CASE PsysStats
  <2>1. DeviceType'
    <3>1. pipeStep' \in PipeSteps
      BY <1>16 DEF PsysStats, PipeSteps
    <3> QED  BY <1>16, <3>1 DEF PsysStats, Deliver, TypeOK, DeviceType,
    Sources, EventTypes
  <2>2. PsysEventHasJob'
    BY <1>16 DEF PsysStats, Deliver, PsysEventHasJob, TypeOK, DeviceType,
       Sources, EventTypes
  <2>3. MembersType' /\ rt' \in RequestThreads /\ app' \in Applications
    BY <1>16 DEF PsysStats, TypeOK, MembersType
  <2> QED  BY <2>1, <2>2, <2>3 DEF TypeOK
<1>17. CASE PsysFrame
  <2>1. DeviceType'
    <3>1. pipeStep' \in PipeSteps
      <4>1. PICK s \in pipeStep.left :
               pipeStep' = [pipeStep EXCEPT !.left = @ \ {s}, !.current = {s}]
        BY <1>17 DEF PsysFrame
      <4>2. s \in Streams /\ pipeStep.left \ {s} \in SUBSET Streams
        BY <4>1 DEF TypeOK, DeviceType, PipeSteps
      <4> QED  BY <4>1, <4>2 DEF TypeOK, DeviceType, PipeSteps
    <3> QED  BY <1>17, <3>1 DEF PsysFrame, Deliver, TypeOK, DeviceType,
    Sources, EventTypes
  <2>2. PsysEventHasJob'
    BY <1>17 DEF PsysFrame, PsysTurn, PsysEventHasJob
  <2>3. MembersType' /\ rt' \in RequestThreads /\ app' \in Applications
    BY <1>17 DEF PsysFrame, TypeOK, MembersType
  <2> QED  BY <2>1, <2>2, <2>3 DEF TypeOK
<1>18. CASE PsysDone
  <2>1. DeviceType'
    <3>1. pipe' \in Seq(Jobs)
      BY <1>18, HeadTail DEF PsysDone, PsysTurn, TypeOK, DeviceType
    <3> QED  BY <1>18, <3>1, NoFrameStepType DEF PsysDone, Deliver, TypeOK,
    DeviceType, Sources, EventTypes
  <2>2. PsysEventHasJob'
    BY <1>18 DEF PsysDone, PsysTurn, Idle, Deliver, PsysEventHasJob, TypeOK,
       DeviceType, Sources, EventTypes
  <2>3. MembersType' /\ rt' \in RequestThreads /\ app' \in Applications
    BY <1>18 DEF PsysDone, TypeOK, MembersType
  <2> QED  BY <2>1, <2>2, <2>3 DEF TypeOK
<1>19. CASE HandleFrame("isys")
  <2>1. MembersType'
    <3>1. mRequestsInProcessing' \in Nat
      BY <1>19, FrameDoneType DEF HandleFrame, TypeOK
    <3> QED  BY <1>19, <3>1 DEF HandleFrame, AddTrigger, TypeOK, MembersType,
    Triggers
  <2>2. DeviceType'
    BY <1>19 DEF HandleFrame, AddTrigger, Delivered, TypeOK, DeviceType,
       Sources, EventTypes
  <2>3. rt' \in RequestThreads
    BY <1>19, SignalType DEF HandleFrame, AddTrigger, Delivered, TypeOK,
       MembersType, RequestThreads, RtPoints
  <2>4. PsysEventHasJob'
    BY <1>19 DEF HandleFrame, AddTrigger, Delivered, PsysEventHasJob, TypeOK,
       DeviceType, Sources, EventTypes
  <2>5. app' \in Applications
    BY <1>19 DEF HandleFrame, TypeOK
  <2> QED  BY <2>1, <2>2, <2>3, <2>4, <2>5 DEF TypeOK
<1>20. CASE HandleFrame("psys")
  <2>1. MembersType'
    <3>1. mRequestsInProcessing' \in Nat
      BY <1>20, FrameDoneType DEF HandleFrame, TypeOK
    <3> QED  BY <1>20, <3>1 DEF HandleFrame, AddTrigger, TypeOK, MembersType,
    Triggers
  <2>2. DeviceType'
    BY <1>20 DEF HandleFrame, AddTrigger, Delivered, TypeOK, DeviceType,
       Sources, EventTypes
  <2>3. rt' \in RequestThreads
    BY <1>20, SignalType DEF HandleFrame, AddTrigger, Delivered, TypeOK,
       MembersType, RequestThreads, RtPoints
  <2>4. PsysEventHasJob'
    BY <1>20 DEF HandleFrame, AddTrigger, Delivered, PsysEventHasJob, TypeOK,
       DeviceType, Sources, EventTypes
  <2>5. app' \in Applications
    BY <1>20 DEF HandleFrame, TypeOK
  <2> QED  BY <2>1, <2>2, <2>3, <2>4, <2>5 DEF TypeOK
<1>21. CASE HandleStats
  <2>1. MembersType'
    BY <1>21 DEF HandleStats, AddTrigger, Delivered, TypeOK, MembersType,
       Triggers
  <2>2. DeviceType'
    BY <1>21 DEF HandleStats, AddTrigger, Delivered, TypeOK, DeviceType,
       Sources, EventTypes
  <2>3. rt' \in RequestThreads
    BY <1>21, SignalType DEF HandleStats, AddTrigger, Delivered, TypeOK,
       MembersType, RequestThreads, RtPoints
  <2>4. PsysEventHasJob'
    BY <1>21 DEF HandleStats, AddTrigger, Delivered, PsysEventHasJob, TypeOK,
       DeviceType, Sources, EventTypes
  <2>5. app' \in Applications
    BY <1>21 DEF HandleStats, TypeOK
  <2> QED  BY <2>1, <2>2, <2>3, <2>4, <2>5 DEF TypeOK
<1>22. CASE HandleFrameAvailable
  <2>1. DeviceType'
    <3>1. Head(pipe).request \in Requests
      <4>1. pipe \in Seq(Jobs) /\ pipe # <<>>
        BY <1>22 DEF HandleFrameAvailable, TypeOK, DeviceType, PsysEventHasJob
      <4>2. Head(pipe) \in Jobs
        BY <4>1, HeadTail
      <4> QED  BY <4>2 DEF Jobs
    <3>2. mFrameQueue' \in [Streams -> Seq(Requests)]
      <4>1. CASE mFrameQueue' = mFrameQueue
        BY <4>1 DEF TypeOK, DeviceType
      <4>2. CASE \E s \in pipeStep.current : mFrameQueue' =
                    [mFrameQueue EXCEPT ![s] = Append(@, Head(pipe).request)]
        BY <3>1, <4>2 DEF TypeOK, DeviceType, PipeSteps
      <4> QED  BY <1>22, <4>1, <4>2 DEF HandleFrameAvailable
    <3>3. dq' \in [Streams -> {"idle", "wait", "woken"}]
      BY <1>22 DEF HandleFrameAvailable, WakeDq, TypeOK, DeviceType
    <3> QED  BY <1>22, <3>2, <3>3 DEF HandleFrameAvailable, TypeOK,
    DeviceType, Sources, EventTypes
  <2>2. PsysEventHasJob'
    BY <1>22 DEF HandleFrameAvailable, WakeDq, PsysEventHasJob, TypeOK,
       DeviceType, Sources, EventTypes
  <2>3. MembersType' /\ rt' \in RequestThreads /\ app' \in Applications
    BY <1>22 DEF HandleFrameAvailable, TypeOK, MembersType
  <2> QED  BY <2>1, <2>2, <2>3 DEF TypeOK
<1>23. CASE HandleInsertFake
  <2>1. MembersType'
    <3>1. mPendingRequests' \in Seq(Requests)
      <4>1. FakeRequest(app.session) \in Requests
        BY FakeRequestType DEF TypeOK, Applications
      <4>2. <<FakeRequest(app.session)>> \in Seq(Requests)
        BY <4>1
      <4> QED  BY <1>23, <4>2 DEF HandleInsertFake, TypeOK, MembersType
    <3>2. mRequestTriggerEvent' \subseteq Triggers
      BY <1>23 DEF HandleInsertFake, AddTrigger, TypeOK, MembersType, Triggers
    <3> QED  BY <1>23, <3>1, <3>2 DEF HandleInsertFake, TypeOK, MembersType
  <2>2. DeviceType'
    BY <1>23 DEF HandleInsertFake, AddTrigger, Delivered, TypeOK, DeviceType,
       Sources, EventTypes
  <2>3. rt' \in RequestThreads
    BY <1>23, SignalType DEF HandleInsertFake, AddTrigger, Delivered, TypeOK,
       MembersType, RequestThreads, RtPoints
  <2>4. PsysEventHasJob'
    BY <1>23 DEF HandleInsertFake, AddTrigger, Delivered, PsysEventHasJob,
       TypeOK, DeviceType, Sources, EventTypes
  <2>5. app' \in Applications
    BY <1>23 DEF HandleInsertFake, TypeOK
  <2> QED  BY <2>1, <2>2, <2>3, <2>4, <2>5 DEF TypeOK
<1>24. CASE Qbuf
  <2>1. MembersType'
    <3>1. PICK kind \in RequestKinds : processRequest(kind)
      BY <1>24 DEF Qbuf
    <3> DEFINE session == IF mActive THEN app.session ELSE app.session + 1
    <3>2. app.queued + 1 \in Nat /\ session \in Nat /\ (~mActive) \in BOOLEAN
      BY DEF TypeOK, Applications
    <3>3. mPendingRequests' \in Seq(Requests)
      <4> DEFINE request == [id |-> app.queued + 1, session |-> session,
                             mIsFirstRequest |-> ~mActive,
                             hasVideoBuffer |-> kind.hasVideoBuffer,
                             sequence |-> kind.sequence]
      <4>1. mPendingRequests' = Append(mPendingRequests, request)
        BY <3>1 DEF processRequest
      <4>2. request \in Requests
        <5> HIDE DEF session
        <5> QED  BY <3>2, NewRequestType
      <4> HIDE DEF request
      <4> QED  BY <4>1, <4>2 DEF TypeOK, MembersType
    <3>4. mRequestTriggerEvent' \subseteq Triggers
      BY <3>1 DEF processRequest, AddTrigger, TypeOK, MembersType, Triggers
    <3> QED  BY <3>1, <3>3, <3>4 DEF processRequest, TypeOK, MembersType
  <2>2. DeviceType'
    BY <1>24 DEF Qbuf, processRequest, AddTrigger, TypeOK, DeviceType,
       Sources, EventTypes
  <2>3. rt' \in RequestThreads
    BY <1>24, SignalType DEF Qbuf, processRequest, AddTrigger, TypeOK,
       MembersType, RequestThreads, RtPoints
  <2>4. app' \in Applications
    <3>1. PICK kind \in RequestKinds : processRequest(kind)
      BY <1>24 DEF Qbuf
    <3> DEFINE session == IF mActive THEN app.session ELSE app.session + 1
    <3>2. app.queued + 1 \in Nat /\ session \in Nat
      BY DEF TypeOK, Applications
    <3>3. app' = [app EXCEPT !.queued = @ + 1, !.session = session,
                             !.firstDone = @ /\ mActive]
      BY <3>1 DEF processRequest
    <3> HIDE DEF session
    <3> QED  BY <3>2, <3>3 DEF TypeOK, Applications
  <2>5. PsysEventHasJob'
    BY <1>24 DEF Qbuf, processRequest, TypeOK, PsysEventHasJob
  <2> QED  BY <2>1, <2>2, <2>3, <2>4, <2>5 DEF TypeOK
<1>25. CASE wait1stRequestDone
  <2>1. DeviceType' /\ PsysEventHasJob'
    <3>1. CASE \E fails \in BOOLEAN : StartUnits(fails)
      BY <1>25, <3>1, StartUnitsType DEF wait1stRequestDone, TypeOK, DeviceType
    <3>2. CASE UNCHANGED <<mState, pipeVars>>
      BY <1>25, <3>2 DEF wait1stRequestDone, TypeOK, DeviceType, PsysEventHasJob
    <3> QED  BY <1>25, <3>1, <3>2 DEF wait1stRequestDone, StartReturns
  <2>2. app' \in Applications
    BY <1>25 DEF wait1stRequestDone, StartReturns, TypeOK, MembersType, Applications,
       AppPoints
  <2>3. MembersType' /\ rt' \in RequestThreads
    BY <1>25 DEF wait1stRequestDone, TypeOK, MembersType
  <2> QED  BY <2>1, <2>2, <2>3 DEF TypeOK
<1>26. CASE Wait1stReturns
  <2>1. DeviceType' /\ PsysEventHasJob'
    <3>1. CASE \E fails \in BOOLEAN : StartUnits(fails)
      BY <1>26, <3>1, StartUnitsType DEF Wait1stReturns, TypeOK, DeviceType
    <3>2. CASE UNCHANGED <<mState, pipeVars>>
      BY <1>26, <3>2 DEF Wait1stReturns, TypeOK, DeviceType, PsysEventHasJob
    <3> QED  BY <1>26, <3>1, <3>2 DEF Wait1stReturns, StartReturns
  <2>2. app' \in Applications
    BY <1>26 DEF Wait1stReturns, StartReturns, TypeOK, MembersType, Applications,
       AppPoints
  <2>3. MembersType' /\ rt' \in RequestThreads
    BY <1>26 DEF Wait1stReturns, TypeOK, MembersType
  <2> QED  BY <2>1, <2>2, <2>3 DEF TypeOK
<1>27. CASE \E deinit \in BOOLEAN : ClearActive(deinit)
  <2>1. MembersType'
    BY <1>27 DEF ClearActive, TypeOK, MembersType, Triggers
  <2>2. app' \in Applications
    BY <1>27 DEF ClearActive, TypeOK, MembersType, Applications, AppPoints
  <2>3. DeviceType' /\ rt' \in RequestThreads /\ PsysEventHasJob'
    BY <1>27 DEF ClearActive, TypeOK, DeviceType, PsysEventHasJob
  <2> QED  BY <2>1, <2>2, <2>3 DEF TypeOK
<1>28. CASE \E s \in Streams : ClearFrames(s)
  <2>1. DeviceType'
    BY <1>28 DEF ClearFrames, WakeDq, TypeOK, DeviceType, Sources, EventTypes
  <2>2. app' \in Applications
    BY <1>28 DEF ClearFrames, WakeDq, TypeOK, MembersType, Applications,
       AppPoints
  <2>3. MembersType' /\ rt' \in RequestThreads /\ PsysEventHasJob'
    BY <1>28 DEF ClearFrames, TypeOK, MembersType, PsysEventHasJob
  <2> QED  BY <2>1, <2>2, <2>3 DEF TypeOK
<1>29. CASE ClearQueue
  <2>1. MembersType'
    <3>1. mBlockRequest' \in BOOLEAN
      BY <1>29, ConfigAssumption DEF ClearQueue
    <3> QED  BY <1>29, <3>1 DEF ClearQueue, ResetQueue, TypeOK, MembersType
  <2>2. app' \in Applications
    BY <1>29 DEF ClearQueue, ResetQueue, TypeOK, MembersType, Applications,
       AppPoints
  <2>3. DeviceType' /\ rt' \in RequestThreads /\ PsysEventHasJob'
    BY <1>29 DEF ClearQueue, TypeOK, DeviceType, PsysEventHasJob
  <2> QED  BY <2>1, <2>2, <2>3 DEF TypeOK
<1>30. CASE StopUnits
  <2>1. DeviceType' /\ PsysEventHasJob'
    <3>1. CASE StopLocked
      BY <1>30, <3>1, StopLockedType DEF StopUnits, TypeOK, DeviceType
    <3>2. CASE UNCHANGED <<pipe, pipeStep>>
      BY <1>30, <3>2 DEF StopUnits, TypeOK, DeviceType, PsysEventHasJob
    <3> QED  BY <1>30, <3>1, <3>2 DEF StopUnits
  <2>2. app' \in Applications
    BY <1>30 DEF StopUnits, TypeOK, MembersType, Applications, AppPoints
  <2>3. MembersType' /\ rt' \in RequestThreads
    BY <1>30 DEF StopUnits, TypeOK, MembersType
  <2> QED  BY <2>1, <2>2, <2>3 DEF TypeOK
<1>31. CASE RequestExit
  <2>1. rt' \in RequestThreads
    BY <1>31, SignalType DEF RequestExit, TypeOK, MembersType, RequestThreads,
       RtPoints
  <2>2. app' \in Applications
    BY <1>31 DEF RequestExit, TypeOK, MembersType, Applications, AppPoints
  <2>3. MembersType' /\ DeviceType' /\ PsysEventHasJob'
    BY <1>31 DEF RequestExit, TypeOK, MembersType, DeviceType, PsysEventHasJob
  <2> QED  BY <2>1, <2>2, <2>3 DEF TypeOK
<1>32. CASE configure
  <2>1. MembersType'
    BY <1>32, ConfigAssumption DEF configure, TypeOK, MembersType, Triggers
  <2>2. DeviceType'
    BY <1>32 DEF configure, TypeOK, DeviceType, Sources, EventTypes
  <2>3. rt' \in RequestThreads /\ app' \in Applications /\ PsysEventHasJob'
    BY <1>32 DEF configure, TypeOK, PsysEventHasJob
  <2> QED  BY <2>1, <2>2, <2>3 DEF TypeOK
<1>33. CASE DqStep
  <2>1. DeviceType'
    <3>1. PICK s \in Streams : waitFrame(s) \/ WaitFrameTimeout(s)
      BY <1>33 DEF DqStep
    <3>2. mFrameQueue' \in [Streams -> Seq(Requests)]
      <4>1. CASE mFrameQueue' = mFrameQueue
        BY <4>1 DEF TypeOK, DeviceType
      <4>2. CASE /\ mFrameQueue[s] # <<>>
                 /\ mFrameQueue' = [mFrameQueue EXCEPT ![s] = Tail(@)]
        <5>1. Tail(mFrameQueue[s]) \in Seq(Requests)
          BY <4>2, HeadTail DEF TypeOK, DeviceType
        <5> QED  BY <4>2, <5>1 DEF TypeOK, DeviceType
      <4> QED  BY <3>1, <4>1, <4>2 DEF waitFrame, WaitFrameTimeout
    <3>3. dq' \in [Streams -> {"idle", "wait", "woken"}]
      BY <3>1 DEF waitFrame, WaitFrameTimeout, TypeOK, DeviceType
    <3> QED  BY <3>1, <3>2, <3>3 DEF waitFrame, WaitFrameTimeout, TypeOK,
    DeviceType
  <2>2. MembersType' /\ rt' \in RequestThreads /\ app' \in Applications /\ PsysEventHasJob'
    BY <1>33 DEF DqStep, waitFrame, WaitFrameTimeout, TypeOK, MembersType,
       PsysEventHasJob
  <2> QED  BY <2>1, <2>2 DEF TypeOK
<1>34. CASE UNCHANGED vars
  BY <1>34 DEF vars, TypeOK, MembersType, DeviceType, PsysEventHasJob
<1> QED
  BY <1>1, <1>2, <1>3, <1>4, <1>5, <1>6, <1>7, <1>8, <1>9, <1>10, <1>11,
     <1>12, <1>13, <1>14, <1>15, <1>16, <1>17, <1>18, <1>19, <1>20, <1>21,
     <1>22, <1>23, <1>24, <1>25, <1>26, <1>27, <1>28, <1>29, <1>30, <1>31,
     <1>32, <1>33, <1>34 DEF Next, RequestThreadStep, EventStep, AppStep

\* TypeOK holds in every reachable state, for every configuration.
THEOREM TypeCorrect == Spec => []TypeOK
  BY TypeInit, TypeStep, PTL DEF Spec

-----------------------------------------------------------------------------
(* The limit on the requests in processing.                                *)

\* Between blockRequest and fetchNextRequest only the request thread can raise
\* the count, so the room that blockRequest saw is still there.
InflightInv ==
    /\ InflightBound
    /\ rt.pc \in {"check", "fetch"} => mRequestsInProcessing < MaxRequestsInflight

\* A signal does not move the request thread into its unlocked section.
LEMMA SignalPoint ==
  ASSUME rt \in RequestThreads, Signal(rt).pc \in {"check", "fetch"}
  PROVE  rt.pc = Signal(rt).pc
  BY DEF Signal, RequestThreads

\* Leaving blockRequest's critical section for the unlocked one needs room.
LEMMA ChooseStep ==
  ASSUME TypeOK, InflightInv, LoopTop \/ LoopWoken
  PROVE  InflightInv'
<1>1. mRequestsInProcessing' = mRequestsInProcessing
  BY DEF LoopTop, LoopWoken
<1>2. CASE blockRequest
  <2>1. rt'.pc \in {"wait", "loop"}
    BY <1>2 DEF LoopTop, LoopWoken, RtGoto, TypeOK, RequestThreads
  <2> QED  BY <1>1, <2>1 DEF InflightInv, InflightBound
<1>3. CASE ~blockRequest
  <2>1. mRequestsInProcessing < MaxRequestsInflight
    BY <1>3, ConfigAssumption DEF blockRequest, TypeOK, MembersType
  <2> QED  BY <1>1, <2>1, ConfigAssumption DEF InflightInv, InflightBound, TypeOK, MembersType
<1> QED  BY <1>2, <1>3

\* Every step preserves the limit and the room seen by blockRequest.
LEMMA InflightStep == TypeOK /\ InflightInv /\ [Next]_vars => InflightInv'
<1> SUFFICES ASSUME TypeOK, InflightInv, [Next]_vars
             PROVE  InflightInv'
  OBVIOUS
<1> USE DEF InflightInv, InflightBound
<1>1. CASE LoopTop \/ LoopWoken
  BY <1>1, ChooseStep
<1>2. CASE ThreadLoopAgain \/ LoopTimeout \/ LoopReset
  BY <1>2 DEF ThreadLoopAgain, LoopTimeout, LoopReset, RtGoto, TypeOK, RequestThreads
<1>3. CASE LoopCheckActive
  BY <1>3 DEF LoopCheckActive, RtAt, RtGoto, TypeOK, RequestThreads
<1>4. CASE fetchNextRequest
  <2>1. rt'.pc \in {"loop", "begin"}
    BY <1>4 DEF fetchNextRequest, RtGoto, TypeOK, RequestThreads
  <2>2. mRequestsInProcessing' <= MaxRequestsInflight
    BY <1>4, ConfigAssumption DEF fetchNextRequest, RtAt, TypeOK, MembersType
  <2> QED  BY <2>1, <2>2
<1>5. CASE HandleBegin \/ HandleParams \/ HandleSave \/ HandleNotify \/ HandleFirst
  <2>1. rt'.pc \in {"notify", "params", "save", "reset", "first"}
    BY <1>5 DEF HandleBegin, HandleParams, HandleSave, HandleNotify, HandleFirst,
       RtGoto, TypeOK, RequestThreads
  <2>2. mRequestsInProcessing' = mRequestsInProcessing
    BY <1>5 DEF HandleBegin, HandleParams, HandleSave, HandleNotify, HandleFirst
  <2> QED  BY <2>1, <2>2
<1>6. CASE HandleFrame("isys") \/ HandleFrame("psys")
  <2>1. rt' \in {rt, Signal(rt)}
    BY <1>6 DEF HandleFrame, AddTrigger
  <2>2. mRequestsInProcessing' <= mRequestsInProcessing /\ mRequestsInProcessing' \in Nat
    BY <1>6 DEF HandleFrame, FrameDoneCount, TypeOK, MembersType
  <2> QED  BY <2>1, <2>2, SignalPoint, ConfigAssumption DEF TypeOK, MembersType
<1>7. CASE HandleSof \/ HandleStats \/ HandleInsertFake \/ Qbuf \/ RequestExit
  <2>1. rt' \in {rt, Signal(rt), [rt EXCEPT !.exiting = TRUE]}
    BY <1>7 DEF HandleSof, HandleStats, HandleInsertFake, Qbuf, processRequest,
       RequestExit, AddTrigger
  <2>2. mRequestsInProcessing' = mRequestsInProcessing
    BY <1>7 DEF HandleSof, HandleStats, HandleInsertFake, Qbuf, processRequest,
       RequestExit
  <2>3. rt'.pc \in {"check", "fetch"} => rt'.pc = rt.pc
    BY <2>1, SignalPoint DEF TypeOK, RequestThreads
  <2> QED  BY <2>2, <2>3
<1>8. CASE ClearQueue
  BY <1>8, ConfigAssumption DEF ClearQueue, ResetQueue
<1>9. CASE UNCHANGED <<mRequestsInProcessing, rt>>
  BY <1>9
<1> QED
  BY <1>1, <1>2, <1>3, <1>4, <1>5, <1>6, <1>7, <1>8, <1>9
  DEF Next, RequestThreadStep, EventStep, AppStep, DqStep, vars, SofEvent,
      IsysFrameEvent, PsysStats, PsysFrame, PsysDone, HandleFrameAvailable,
      wait1stRequestDone, Wait1stReturns, ClearActive, ClearFrames, StopUnits,
      configure, waitFrame, WaitFrameTimeout

\* At most MaxRequestsInflight requests are in processing, although blockRequest()
\* and fetchNextRequest() take mPendingReqLock one after the other.
THEOREM InflightBounded == Spec => []InflightBound
<1>1. Init => InflightInv
  BY ConfigAssumption DEF Init, InflightInv, InflightBound
<1>2. InflightInv => InflightBound
  BY DEF InflightInv
<1> QED  BY <1>1, <1>2, InflightStep, TypeCorrect, PTL DEF Spec

-----------------------------------------------------------------------------
(* dqbuf: no frame and no stop is missed by a thread in waitFrame.         *)

\* The steps that neither change a frame queue nor move a thread in waitFrame.
LEMMA DqUntouched ==
  ASSUME [Next]_vars
  PROVE  \/ UNCHANGED <<mFrameQueue, dq>>
         \/ HandleFrameAvailable
         \/ \E s \in Streams : ClearFrames(s) \/ waitFrame(s) \/ WaitFrameTimeout(s)
  BY DEF Next, RequestThreadStep, EventStep, AppStep, DqStep, vars,
     ThreadLoopAgain, LoopTop, LoopTimeout, LoopWoken, LoopCheckActive,
     fetchNextRequest, HandleBegin, HandleParams, HandleSave, HandleNotify,
     HandleFirst, LoopReset, SofEvent, HandleSof, IsysFrameEvent, PsysStats,
     PsysFrame, PsysDone, HandleFrame, HandleStats, HandleInsertFake, Qbuf,
     processRequest, wait1stRequestDone, Wait1stReturns, ClearActive, ClearQueue,
     StopUnits, RequestExit, configure

\* NoFrameWhileWaiting is inductive: the queue a thread sleeps on is empty, so
\* the next frame is signalled.
LEMMA WaitingStep ==
  ASSUME TypeOK, NoFrameWhileWaiting, [Next]_vars
  PROVE  NoFrameWhileWaiting'
<1> USE DEF NoFrameWhileWaiting, TypeOK, DeviceType
<1>1. CASE UNCHANGED <<mFrameQueue, dq>>
  BY <1>1
<1>2. CASE HandleFrameAvailable
  <2>1. CASE Head(pipe).request.id # 0
    <3>1. PICK s \in pipeStep.current :
            /\ mFrameQueue' = [mFrameQueue EXCEPT ![s] = Append(@, Head(pipe).request)]
            /\ dq' = [dq EXCEPT ![s] = IF NeedSignal(s) THEN WakeDq(@) ELSE @]
      BY <1>2, <2>1 DEF HandleFrameAvailable
    <3>2. dq'[s] # "wait"
      BY <3>1 DEF NeedSignal, WakeDq, PipeSteps
    <3> QED  BY <3>1, <3>2 DEF PipeSteps
  <2>2. CASE Head(pipe).request.id = 0
    BY <1>2, <2>2 DEF HandleFrameAvailable
  <2> QED  BY <2>1, <2>2
<1>3. ASSUME NEW s \in Streams, ClearFrames(s)
      PROVE  NoFrameWhileWaiting'
  BY <1>3 DEF ClearFrames
<1>4. ASSUME NEW s \in Streams, waitFrame(s)
      PROVE  NoFrameWhileWaiting'
  BY <1>4 DEF waitFrame
<1>5. ASSUME NEW s \in Streams, WaitFrameTimeout(s)
      PROVE  NoFrameWhileWaiting'
  BY <1>5 DEF WaitFrameTimeout
<1> QED  BY <1>1, <1>2, <1>3, <1>4, <1>5, DqUntouched

\* No thread sleeps in waitFrame() while a frame for it is in the queue.
THEOREM NoMissedFrame == Spec => []NoFrameWhileWaiting
<1>1. Init => NoFrameWhileWaiting
  BY DEF Init, NoFrameWhileWaiting
<1> QED  BY <1>1, WaitingStep, TypeCorrect, PTL DEF Spec

\* NoSleeperAfterClear is inductive: clearRequests() takes mActive away before it
\* wakes a stream's thread, and a thread checks mActive before it sleeps.
LEMMA SleeperStep ==
  ASSUME TypeOK, NoSleeperAfterClear, [Next]_vars
  PROVE  NoSleeperAfterClear'
<1> USE DEF NoSleeperAfterClear
<1>1. CASE HandleFrameAvailable
  <2>1. \A s \in Streams : dq'[s] = "wait" => dq[s] = "wait"
    BY <1>1 DEF HandleFrameAvailable, WakeDq, TypeOK, DeviceType
  <2> QED  BY <1>1, <2>1 DEF HandleFrameAvailable
<1>2. ASSUME NEW s \in Streams, ClearFrames(s)
      PROVE  NoSleeperAfterClear'
  <2>1. dq' = [dq EXCEPT ![s] = WakeDq(dq[s])] /\ dq'[s] # "wait"
    BY <1>2 DEF ClearFrames, WakeDq, TypeOK, DeviceType
  <2>2. app'.pc = app.pc /\ app'.cleared = app.cleared \cup {s} /\ mActive' = mActive
    BY <1>2 DEF ClearFrames, TypeOK, Applications
  <2> QED  BY <2>1, <2>2 DEF TypeOK, DeviceType
<1>3. ASSUME NEW s \in Streams, waitFrame(s) \/ WaitFrameTimeout(s)
      PROVE  NoSleeperAfterClear'
  <2>1. mActive' = mActive /\ app' = app
    BY <1>3 DEF waitFrame, WaitFrameTimeout
  <2>2. ~mActive => \A t \in Streams : dq'[t] = "wait" => dq[t] = "wait"
    BY <1>3 DEF waitFrame, WaitFrameTimeout, TypeOK, DeviceType
  <2> QED  BY <2>1, <2>2
<1>4. CASE UNCHANGED <<mFrameQueue, dq>>
  <2>1. CASE UNCHANGED <<mActive, app>>
    BY <1>4, <2>1
  <2>2. CASE HandleFirst
    <3>1. mActive' = mActive /\ app'.cleared = app.cleared
          /\ (app'.pc = "clearFrames" <=> app.pc = "clearFrames")
      BY <2>2 DEF HandleFirst, TypeOK, Applications
    <3> QED  BY <1>4, <3>1
  <2>3. CASE Qbuf
    BY <2>3 DEF Qbuf, processRequest
  <2>4. CASE wait1stRequestDone \/ Wait1stReturns \/ StopUnits \/ RequestExit
    <3>1. mActive' = mActive /\ app.pc # "clearFrames"
      BY <2>4 DEF wait1stRequestDone, Wait1stReturns, StopUnits, RequestExit, AppAt
    <3> QED  BY <1>4, <3>1
  <2>5. CASE \E deinit \in BOOLEAN : ClearActive(deinit)
    <3>1. app'.pc = "clearFrames" /\ app'.cleared = {}
      BY <2>5 DEF ClearActive, TypeOK, Applications
    <3> QED  BY <3>1
  <2>6. CASE ClearQueue
    <3>1. mActive' = mActive /\ app.cleared = Streams
      BY <2>6 DEF ClearQueue
    <3> QED  BY <1>4, <3>1
  <2> QED
    BY <1>4, <2>1, <2>2, <2>3, <2>4, <2>5, <2>6, <1>2
    DEF Next, RequestThreadStep, EventStep, AppStep, DqStep, vars,
        ThreadLoopAgain, LoopTop, LoopTimeout, LoopWoken, LoopCheckActive,
        fetchNextRequest, HandleBegin, HandleParams, HandleSave, HandleNotify,
        LoopReset, SofEvent, HandleSof, IsysFrameEvent, PsysStats, PsysFrame,
        PsysDone, HandleFrame, HandleStats, HandleFrameAvailable,
        HandleInsertFake, configure, waitFrame, WaitFrameTimeout
<1> QED  BY <1>1, <1>2, <1>3, <1>4, DqUntouched

\* No thread sleeps in waitFrame() on a stream that clearRequests() has passed.
THEOREM NoMissedStop == Spec => []NoSleeperAfterClear
<1>1. Init => NoSleeperAfterClear
  BY DEF Init, NoSleeperAfterClear
<1> QED  BY <1>1, SleeperStep, TypeCorrect, PTL DEF Spec

-----------------------------------------------------------------------------
(* clearRequests leaves nothing behind, without fake requests.             *)

\* ClearedStateIsClean is inductive when no fake request is inserted.
LEMMA ClearedStep ==
  ASSUME TypeOK, ~FakeRequests, ClearedStateIsClean, [Next]_vars
  PROVE  ClearedStateIsClean'
<1> USE DEF ClearedStateIsClean
<1>1. CASE UNCHANGED <<mActive, app, queueVars>>
  BY <1>1
<1>2. CASE fetchNextRequest
  <2>1. CASE mPendingRequests = <<>>
    BY <1>2, <2>1 DEF fetchNextRequest
  <2>2. CASE mPendingRequests # <<>>
    BY <1>2, <2>2 DEF fetchNextRequest
  <2> QED  BY <2>1, <2>2
<1>3. CASE HandleFrame("isys") \/ HandleFrame("psys")
  BY <1>3 DEF HandleFrame, FrameDoneCount
<1>4. CASE HandleFirst
  <2>1. UNCHANGED <<mActive, queueVars>>
        /\ (app'.pc = "clearFrames" <=> app.pc = "clearFrames")
    BY <1>4 DEF HandleFirst, TypeOK, Applications
  <2> QED  BY <2>1
<1>5. CASE Qbuf
  BY <1>5 DEF Qbuf, processRequest
<1>6. CASE wait1stRequestDone \/ Wait1stReturns \/ StopUnits \/ RequestExit
  <2>1. UNCHANGED <<mActive, queueVars>> /\ app.pc # "clearFrames"
    BY <1>6 DEF wait1stRequestDone, Wait1stReturns, StopUnits, RequestExit, AppAt
  <2> QED  BY <2>1
<1>7. CASE \E deinit \in BOOLEAN : ClearActive(deinit)
  BY <1>7 DEF ClearActive, TypeOK, Applications
<1>8. CASE \E s \in Streams : ClearFrames(s)
  BY <1>8 DEF ClearFrames, TypeOK, Applications
<1>9. CASE ClearQueue
  BY <1>9 DEF ClearQueue, ResetQueue
<1> QED
  BY <1>1, <1>2, <1>3, <1>4, <1>5, <1>6, <1>7, <1>8, <1>9
  DEF Next, RequestThreadStep, EventStep, AppStep, DqStep, vars,
      ThreadLoopAgain, LoopTop, LoopTimeout, LoopWoken, LoopCheckActive,
      HandleBegin, HandleParams, HandleSave, HandleNotify, LoopReset, SofEvent,
      HandleSof, IsysFrameEvent, PsysStats, PsysFrame, PsysDone, HandleStats,
      HandleFrameAvailable, HandleInsertFake, configure, waitFrame,
      WaitFrameTimeout

\* After clearRequests() and until the next qbuf no request is pending or counted,
\* when configure() left the fake requests off.
THEOREM ClearedIsClean == ~FakeRequests /\ Spec => []ClearedStateIsClean
<1>1. Init => ClearedStateIsClean
  BY DEF Init, ClearedStateIsClean
<1>2. CASE ~FakeRequests
  BY <1>1, <1>2, ClearedStep, TypeCorrect, PTL DEF Spec
<1>3. CASE FakeRequests
  BY <1>3
<1> QED  BY <1>2, <1>3

-----------------------------------------------------------------------------
(* The processors get the application's requests in the order of qbuf.      *)

\* Requests wait in the order of qbuf; one that waits is newer than the one the
\* request thread holds and than every one it has handed over.
PendingOrder ==
    /\ \A i, j \in 1..Len(mPendingRequests) :
          i < j => mPendingRequests[i].id < mPendingRequests[j].id
    /\ \A i \in 1..Len(mPendingRequests) : mPendingRequests[i].id <= app.queued
    /\ \A i \in 1..Len(mPendingRequests) :
          mPendingRequests[i].id # 0
          => /\ mPendingRequests[i].id > rt.lastHanded
             /\ mPendingRequests[i].id > rt.request.id

\* The request thread holds a request it has not handed over before.
HeldOrder ==
    /\ rt.lastHanded <= app.queued /\ rt.request.id <= app.queued
    /\ rt.pc \in {"begin", "params", "save", "notify"} /\ rt.request.id # 0
       => rt.request.id > rt.lastHanded

OrderInv == PendingOrder /\ HeldOrder

\* The numbers the order is about are natural numbers.
LEMMA OrderTypes ==
  ASSUME TypeOK
  PROVE  /\ app.queued \in Nat /\ rt.lastHanded \in Nat /\ rt.request.id \in Nat
         /\ mPendingRequests \in Seq(Requests) /\ Len(mPendingRequests) \in Nat
         /\ \A i \in 1..Len(mPendingRequests) : mPendingRequests[i].id \in Nat
<1>1. mPendingRequests \in Seq(Requests) /\ rt.request \in Requests
      /\ app.queued \in Nat /\ rt.lastHanded \in Nat
  BY DEF TypeOK, MembersType, RequestThreads, Applications
<1>2. \A i \in 1..Len(mPendingRequests) : mPendingRequests[i] \in Requests
  BY <1>1
<1> QED  BY <1>1, <1>2, RequestFields

\* What a step that only moves the threads leaves of the order.
LEMMA OrderUntouched ==
  ASSUME TypeOK, OrderInv, mPendingRequests' = mPendingRequests,
         app'.queued = app.queued, rt'.lastHanded = rt.lastHanded,
         rt'.request = rt.request,
         rt'.pc \in {"begin", "params", "save", "notify"}
         => rt.pc \in {"begin", "params", "save", "notify"}
  PROVE  OrderInv'
  BY DEF OrderInv, PendingOrder, HeldOrder

\* A signal changes nothing but the control point of a waiting thread.
LEMMA SignalFields ==
  ASSUME rt \in RequestThreads
  PROVE  /\ Signal(rt).lastHanded = rt.lastHanded /\ Signal(rt).request = rt.request
         /\ Signal(rt).pc # rt.pc => Signal(rt).pc = "woken"
  BY DEF Signal, RequestThreads

\* Every step preserves the order.
LEMMA OrderStep ==
  ASSUME TypeOK, OrderInv, [Next]_vars
  PROVE  OrderInv'
<1>1. CASE fetchNextRequest
  <2>1. CASE mPendingRequests = <<>>
    <3>1. rt' = [rt EXCEPT !.pc = "loop"] /\ UNCHANGED <<mPendingRequests, app>>
      BY <1>1, <2>1 DEF fetchNextRequest, RtGoto
    <3> QED  BY <3>1, OrderUntouched DEF TypeOK, RequestThreads
  <2>2. CASE mPendingRequests # <<>>
    <3>1. /\ rt'.pc = "begin" /\ rt'.request = mPendingRequests[1]
          /\ rt'.lastHanded = rt.lastHanded /\ app' = app
          /\ mPendingRequests' = Tail(mPendingRequests)
      <4>1. /\ rt' = [rt EXCEPT !.pc = "begin", !.request = NextPending]
            /\ mPendingRequests' = Tail(mPendingRequests) /\ app' = app
        BY <1>1, <2>2 DEF fetchNextRequest
      <4>2. NextPending = mPendingRequests[1]
        BY <2>2, OrderTypes DEF NextPending
      <4> QED  BY <4>1, <4>2 DEF TypeOK, RequestThreads
    <3>2. /\ Len(mPendingRequests') = Len(mPendingRequests) - 1
          /\ 1 \in 1..Len(mPendingRequests)
          /\ \A i \in 1..Len(mPendingRequests') :
                /\ i + 1 \in 1..Len(mPendingRequests) /\ 1 < i + 1
                /\ mPendingRequests'[i] = mPendingRequests[i + 1]
      BY <2>2, <3>1, OrderTypes
    <3>3. HeldOrder'
      BY <3>1, <3>2, OrderTypes DEF OrderInv, PendingOrder, HeldOrder
    <3>4. PendingOrder'
      BY <3>1, <3>2, OrderTypes DEF OrderInv, PendingOrder
    <3> QED  BY <3>3, <3>4 DEF OrderInv
  <2> QED  BY <2>1, <2>2
<1>2. CASE HandleNotify
  <2>1. /\ rt.pc = "notify" /\ rt'.pc = "first" /\ rt'.request = rt.request
        /\ rt'.lastHanded = IF rt.lastHanded < rt.request.id
                            THEN rt.request.id ELSE rt.lastHanded
        /\ UNCHANGED <<mPendingRequests, app>>
    BY <1>2 DEF HandleNotify, RtAt, TypeOK, RequestThreads
  <2> QED  BY <2>1, OrderTypes DEF OrderInv, PendingOrder, HeldOrder
<1>3. CASE LoopReset
  <2>1. /\ rt'.pc = "loop" /\ rt'.request = FakeRequest(0)
        /\ rt'.lastHanded = rt.lastHanded /\ UNCHANGED <<mPendingRequests, app>>
    BY <1>3 DEF LoopReset, TypeOK, RequestThreads
  <2>2. rt'.request.id = 0
    BY <2>1 DEF FakeRequest
  <2> QED  BY <2>1, <2>2, OrderTypes DEF OrderInv, PendingOrder, HeldOrder
<1>4. CASE HandleInsertFake
  <2>1. /\ rt' \in {rt, Signal(rt)} /\ app' = app
        /\ mPendingRequests' \in {mPendingRequests, <<FakeRequest(app.session)>>}
    BY <1>4 DEF HandleInsertFake, AddTrigger
  <2>2. CASE mPendingRequests' = mPendingRequests
    BY <2>1, <2>2, OrderUntouched, SignalFields DEF TypeOK
  <2>3. CASE mPendingRequests' = <<FakeRequest(app.session)>>
    <3>1. Len(mPendingRequests') = 1 /\ mPendingRequests'[1].id = 0
      BY <2>3 DEF FakeRequest
    <3>2. HeldOrder'
      BY <2>1, SignalFields DEF OrderInv, HeldOrder, TypeOK
    <3>3. PendingOrder'
      BY <2>1, <3>1, OrderTypes DEF PendingOrder
    <3> QED  BY <3>2, <3>3 DEF OrderInv
  <2> QED  BY <2>1, <2>2, <2>3
<1>5. CASE Qbuf
  <2>1. PICK kind \in RequestKinds : processRequest(kind)
    BY <1>5 DEF Qbuf
  <2>2. PICK request : /\ request.id = app.queued + 1
                       /\ mPendingRequests' = Append(mPendingRequests, request)
    BY <2>1 DEF processRequest
  <2>3. app'.queued = app.queued + 1
    BY <2>1 DEF processRequest, TypeOK, Applications
  <2>4. rt'.lastHanded = rt.lastHanded /\ rt'.request = rt.request
        /\ (rt'.pc # rt.pc => rt'.pc = "woken")
    BY <2>1, SignalFields DEF processRequest, AddTrigger, TypeOK
  <2>5. /\ Len(mPendingRequests') = Len(mPendingRequests) + 1
        /\ mPendingRequests'[Len(mPendingRequests) + 1].id = app.queued + 1
        /\ \A i \in 1..Len(mPendingRequests) : mPendingRequests'[i] = mPendingRequests[i]
    BY <2>2, OrderTypes
  <2>6. HeldOrder'
    BY <2>3, <2>4, OrderTypes DEF OrderInv, HeldOrder
  <2>7. PendingOrder'
    <3> DEFINE n == Len(mPendingRequests)
    <3>1. \A i \in 1..n + 1 : i \in 1..n \/ i = n + 1
      BY OrderTypes
    <3>2. \A i \in 1..n : /\ mPendingRequests'[i].id = mPendingRequests[i].id
                          /\ mPendingRequests[i].id \in Nat
                          /\ mPendingRequests[i].id < app.queued + 1
      BY <2>5, OrderTypes DEF OrderInv, PendingOrder
    <3>3. \A i, j \in 1..n + 1 :
            i < j => mPendingRequests'[i].id < mPendingRequests'[j].id
      BY <2>5, <3>1, <3>2, OrderTypes DEF OrderInv, PendingOrder
    <3>4. \A i \in 1..n + 1 : mPendingRequests'[i].id <= app'.queued
      BY <2>3, <2>5, <3>1, <3>2, OrderTypes
    <3>5. \A i \in 1..n + 1 :
            mPendingRequests'[i].id # 0
            => /\ mPendingRequests'[i].id > rt'.lastHanded
               /\ mPendingRequests'[i].id > rt'.request.id
      BY <2>4, <2>5, <3>1, <3>2, OrderTypes DEF OrderInv, PendingOrder, HeldOrder
    <3> QED  BY <2>5, <3>3, <3>4, <3>5 DEF PendingOrder
  <2> QED  BY <2>6, <2>7 DEF OrderInv
<1>6. CASE ClearQueue
  <2>1. /\ mPendingRequests' = <<>> /\ rt' = rt /\ app'.queued = app.queued
    BY <1>6 DEF ClearQueue, ResetQueue, TypeOK, Applications
  <2> QED  BY <2>1 DEF OrderInv, PendingOrder, HeldOrder
<1>7. CASE ThreadLoopAgain \/ LoopTop \/ LoopTimeout \/ LoopWoken \/ LoopCheckActive
           \/ HandleBegin \/ HandleParams \/ HandleSave \/ HandleFirst
  <2>1. mPendingRequests' = mPendingRequests /\ app'.queued = app.queued
    BY <1>7 DEF ThreadLoopAgain, LoopTop, LoopTimeout, LoopWoken, LoopCheckActive,
       HandleBegin, HandleParams, HandleSave, HandleFirst, TypeOK, Applications
  <2>2. rt'.lastHanded = rt.lastHanded /\ rt'.request = rt.request
    BY <1>7 DEF ThreadLoopAgain, LoopTop, LoopTimeout, LoopWoken, LoopCheckActive,
       HandleBegin, HandleParams, HandleSave, HandleFirst, ChooseSequence, RtGoto,
       TypeOK, RequestThreads
  <2>3. \/ rt'.pc \notin {"begin", "params", "save", "notify"}
        \/ rt.pc \in {"begin", "params", "save"}
    BY <1>7 DEF ThreadLoopAgain, LoopTop, LoopTimeout, LoopWoken, LoopCheckActive,
       HandleBegin, HandleParams, HandleSave, HandleFirst, ChooseSequence, RtGoto,
       RtAt, TypeOK, RequestThreads
  <2> QED  BY <2>1, <2>2, <2>3, OrderUntouched
<1>8. CASE HandleSof \/ HandleFrame("isys") \/ HandleFrame("psys") \/ HandleStats
           \/ RequestExit
  <2>1. /\ rt' \in {rt, Signal(rt), [rt EXCEPT !.exiting = TRUE]}
        /\ mPendingRequests' = mPendingRequests /\ app'.queued = app.queued
    BY <1>8 DEF HandleSof, HandleFrame, HandleStats, RequestExit, AddTrigger,
       TypeOK, Applications
  <2>2. rt'.lastHanded = rt.lastHanded /\ rt'.request = rt.request
        /\ (rt'.pc # rt.pc => rt'.pc = "woken")
    BY <2>1, SignalFields DEF TypeOK, RequestThreads
  <2> QED  BY <2>1, <2>2, OrderUntouched
<1>9. CASE UNCHANGED <<mPendingRequests, rt>> /\ app'.queued = app.queued
  BY <1>9, OrderUntouched
<1>10. CASE \/ wait1stRequestDone \/ Wait1stReturns \/ StopUnits
            \/ \E deinit \in BOOLEAN : ClearActive(deinit)
            \/ \E s \in Streams : ClearFrames(s)
  <2>1. UNCHANGED <<mPendingRequests, rt>> /\ app'.queued = app.queued
    BY <1>10 DEF wait1stRequestDone, Wait1stReturns, StartReturns, StopUnits,
       ClearActive, ClearFrames, TypeOK, Applications
  <2> QED  BY <2>1, <1>9
<1> QED
  BY <1>1, <1>2, <1>3, <1>4, <1>5, <1>6, <1>7, <1>8, <1>9, <1>10
  DEF Next, RequestThreadStep, EventStep, AppStep, DqStep, vars, SofEvent,
      IsysFrameEvent, PsysStats, PsysFrame, PsysDone, HandleFrameAvailable,
      configure, waitFrame, WaitFrameTimeout

\* Only HandleNotify makes the processors' queue longer, with the request held.
LEMMA NotifyInOrder ==
  ASSUME TypeOK, OrderInv, [Next]_vars
  PROVE  InOrderStep
<1>1. pipe \in Seq(Jobs)
  BY DEF TypeOK, DeviceType
<1>2. CASE HandleNotify
  <2>1. pipe' = Append(pipe, [request |-> rt.request, settingSeq |-> rt.effectSeq])
        /\ rt.pc = "notify"
    BY <1>2 DEF HandleNotify, RtAt
  <2>2. Len(pipe') = Len(pipe) + 1 /\ pipe'[Len(pipe')].request = rt.request
    BY <1>1, <2>1
  <2> QED  BY <2>1, <2>2 DEF OrderInv, HeldOrder, InOrderStep
<1>3. CASE PsysDone \/ wait1stRequestDone \/ Wait1stReturns \/ StopUnits
  <2>1. pipe' \in {pipe, <<>>} \/ (pipe # <<>> /\ pipe' = Tail(pipe))
    BY <1>3 DEF PsysDone, PsysTurn, wait1stRequestDone, Wait1stReturns, StartReturns,
       StartUnits, StopUnits, StopLocked
  <2>2. ~(Len(pipe') > Len(pipe))
    BY <1>1, <2>1
  <2> QED  BY <2>2 DEF InOrderStep
<1>4. CASE pipe' = pipe
  <2>1. ~(Len(pipe') > Len(pipe))
    BY <1>1, <1>4
  <2> QED  BY <2>1 DEF InOrderStep
<1> QED
  BY <1>2, <1>3, <1>4
  DEF Next, RequestThreadStep, EventStep, AppStep, DqStep, vars,
      ThreadLoopAgain, LoopTop, LoopTimeout, LoopWoken, LoopCheckActive,
      fetchNextRequest, HandleBegin, HandleParams, HandleSave, HandleFirst,
      LoopReset, SofEvent, HandleSof, IsysFrameEvent, PsysStats, PsysFrame,
      HandleFrame, HandleStats, HandleFrameAvailable, HandleInsertFake, Qbuf,
      processRequest, ClearActive,
      ClearFrames, ClearQueue, RequestExit, configure, waitFrame, WaitFrameTimeout

\* handleRequest() hands the application's requests over in the order of qbuf and
\* each at most once, in every session and with fake requests in between.
THEOREM HandedOver == Spec => HandedOverInOrder
<1>1. Init => OrderInv
  BY DEF Init, OrderInv, PendingOrder, HeldOrder, FakeRequest
<1>2. TypeOK /\ OrderInv /\ [Next]_vars => [InOrderStep]_vars
  BY NotifyInOrder
<1> QED  BY <1>1, <1>2, OrderStep, TypeCorrect, PTL DEF Spec, HandedOverInOrder

=============================================================================
