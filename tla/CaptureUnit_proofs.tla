------------------------- MODULE CaptureUnit_proofs -------------------------
(***************************************************************************)
(* Proofs about CaptureUnit for every number of devices, buffers, consumers *)
(* and sessions.  All four invariants of the runs follow from one inductive *)
(* invariant: which calls of the application's thread exclude the others    *)
(* (Control), that mBufferQueuing lets one thread at a time queue to a      *)
(* device (OneQueues), where each piece of memory is (OnePlace, Taken,      *)
(* Dequeued, Known), and how many threads have passed the check of the main *)
(* device (Room).                                                          *)
(***************************************************************************)
EXTENDS CaptureUnit, FiniteSetTheorems, SequenceTheorems, WellFoundedInduction, TLAPS

\* the points of queueBuffer between the critical sections
Queuing(t) == th[t].pc \in {"put", "move", "release"}
Taking(t)  == th[t].pc \in {"put", "move"}

\* no buffer is with a processor, and no thread of one is in qbuf
Quiet == /\ \A c \in Consumers : At(c, "idle")
         /\ \A d \in Devices : held[d] = {}

\* What each point of the application's thread excludes
Control ==
    /\ setup \in Setups
    /\ PollAt("none") <=> mPollThread \in {"NOT_STARTED", "EXITED"}
    /\ At("poll", "idle") \/ PollAt("deliver")
    /\ At("app", "idle") \/ AppAt("alloc")
    /\ app.pc \in {"alloc", "run", "setStart", "reset", "clearStop", "stopProcessors"}
         => mState # "CAPTURE_START"
    /\ app.pc \in {"clearExit", "requestExit", "streamOff", "exitAndWait"}
         => mState = "CAPTURE_START"
    /\ app.pc \in {"alloc", "run", "reset", "clearStop", "stopProcessors"} => PollAt("none")
    /\ AppAt("idle") /\ mState # "CAPTURE_START" => PollAt("none") /\ Quiet
    /\ AppAt("alloc") => Quiet
    /\ app.pc \in {"streamOff", "exitAndWait", "reset"} => app.next \in Devices
    /\ app.pc \in {"requestExit", "streamOff", "exitAndWait", "reset"} => app.stopped

\* mBufferQueuing: one thread at a time
OneQueues ==
    /\ \A t \in Threads : Queuing(t) => mBufferQueuing[th[t].dev]
    /\ \A t, u \in Threads : Queuing(t) /\ Queuing(u) /\ th[t].dev = th[u].dev => t = u

\* no other buffer with this memory is in the device or with a processor; now, and next
Alone(d, memory) ==
    /\ \A n \in DOMAIN mBuffersInDevice[d] : Memory(mBuffersInDevice[d][n]) # memory
    /\ \A buffer \in held[d] : Memory(buffer) # memory

AloneNext(d, memory) ==
    /\ \A n \in DOMAIN mBuffersInDevice'[d] : Memory(mBuffersInDevice'[d][n]) # memory
    /\ \A buffer \in held'[d] : Memory(buffer) # memory

\* A piece of memory is in one place
OnePlace == \A d \in Devices :
    /\ \A m, n \in DOMAIN mPendingBuffers[d] :
          Memory(mPendingBuffers[d][m]) = Memory(mPendingBuffers[d][n]) => m = n
    /\ \A m, n \in DOMAIN mBuffersInDevice[d] :
          Memory(mBuffersInDevice[d][m]) = Memory(mBuffersInDevice[d][n]) => m = n
    /\ \A n \in DOMAIN mPendingBuffers[d] : Alone(d, Memory(mPendingBuffers[d][n]))
    /\ \A n \in DOMAIN mBuffersInDevice[d] : \A buffer \in held[d] :
          Memory(buffer) # Memory(mBuffersInDevice[d][n])
    /\ \A a, b \in held[d] : Memory(a) = Memory(b) => a = b

\* The buffer that a thread queues is the front of mPendingBuffers, or in no list
Taken == \A t \in Threads : Taking(t) =>
    LET d == th[t].dev
        memory == Memory(th[t].buffer)
    IN  /\ Alone(d, memory)
        /\ \A n \in DOMAIN mPendingBuffers[d] :
              Memory(mPendingBuffers[d][n]) = memory => n = 1

\* The buffer that the poll thread dequeues is the front of mBuffersInDevice, and then,
\* unless it is skipped, in no list
Dequeued ==
    LET d == ReadyDevice
        memory == Memory(poll.buffer)
    IN  /\ poll.pc \in {"grab", "pop"} => memory = Memory(Head(mBuffersInDevice[d]))
        /\ PollAt("deliver") /\ ~ poll.skip =>
             /\ Alone(d, memory)
             /\ \A n \in DOMAIN mPendingBuffers[d] : Memory(mPendingBuffers[d][n]) # memory
             /\ \A t \in Threads : Taking(t) /\ th[t].dev = d => Memory(th[t].buffer) # memory

\* the memory was allocated, in this session before the next buffer; now, and next
Old(d, buffer) ==
    /\ buffer.session <= app.session
    /\ AppAt("alloc") /\ buffer.session = app.session =>
          (d - 1) * NumBuffers + buffer.memory < app.next
OldNext(d, buffer) ==
    /\ buffer.session <= app'.session
    /\ AppAt("alloc")' /\ buffer.session = app'.session =>
          (d - 1) * NumBuffers + buffer.memory < app'.next
Known ==
    /\ \A d \in Devices :
         /\ \A n \in DOMAIN mPendingBuffers[d] : Old(d, mPendingBuffers[d][n])
         /\ \A n \in DOMAIN mBuffersInDevice[d] : Old(d, mBuffersInDevice[d][n])
         /\ \A buffer \in held[d] : Old(d, buffer)
    /\ \A t \in Threads : Taking(t) => Old(th[t].dev, th[t].buffer)
    /\ poll.pc \in {"grab", "pop", "deliver"} => Old(ReadyDevice, poll.buffer)

\* a thread that has found room in the main device and not used it yet
HasFound(t) ==
    \/ th[t].pc \in {"pending", "queueAll"}
    \/ th[t].pc \in {"take", "put", "move"} /\ th[t].dev = 1
Room ==
    Len(mBuffersInDevice[1]) + Cardinality({t \in Threads : HasFound(t)})
       <= mMaxBuffersInDevice + Cardinality(Consumers)

\* The buffer that a thread queues is the front of mPendingBuffers until the first stop
FrontTaken == ~ app.stopped => \A t \in Threads : Taking(t) =>
    /\ mPendingBuffers[th[t].dev] # <<>>
    /\ th[t].buffer = Head(mPendingBuffers[th[t].dev])

IInv ==
    /\ TypeOK /\ Control /\ OneQueues /\ OnePlace /\ Taken /\ Dequeued /\ Known /\ Room
    /\ FrontTaken /\ DriverInStep

USE DEF ctlVars, devVars, pollVars

-----------------------------------------------------------------------------
(* Sets, records and sequences.                                            *)

\* The camera stays the same.
LEMMA SameSetup ==
  ASSUME UNCHANGED setup
  PROVE  /\ Devices' = Devices /\ NumDevices' = NumDevices /\ NumBuffers' = NumBuffers
         /\ Indices' = Indices /\ Buffers' = Buffers
         /\ Calls' = Calls /\ Nodes' = Nodes /\ PollCalls' = PollCalls
  BY DEF Devices, NumDevices, NumBuffers, Indices, Buffers, Calls, Nodes, PollCalls

\* What CaptureAssumption says of it.
LEMMA SetupFacts ==
  ASSUME setup \in Setups
  PROVE  /\ NumDevices \in Nat \ {0} /\ NumBuffers \in Nat \ {0}
         /\ 1 \in Devices /\ Devices \in SUBSET Nat /\ NumDevices \in Devices
         /\ Devices = 1..NumDevices /\ 0 \in Indices /\ NoBuffer \in Buffers
         /\ NoThread \in Calls /\ NewNode \in Nodes /\ NoPoll \in PollCalls
<1>1. setup \in [devices : Nat \ {0}, buffers : Nat \ {0}, errors : BOOLEAN,
                 startMayFail : BOOLEAN, sessions : Nat]
  BY CaptureAssumption
<1>2. NumDevices \in Nat \ {0} /\ NumBuffers \in Nat \ {0}
  BY <1>1 DEF NumDevices, NumBuffers
<1>3. /\ 1 \in Devices /\ Devices \in SUBSET Nat /\ NumDevices \in Devices
      /\ Devices = 1..NumDevices /\ 0 \in Indices
  BY <1>2 DEF Devices, Indices
<1>4. NoBuffer \in Buffers
  BY <1>3 DEF NoBuffer, Buffers
<1>5. NoThread \in Calls /\ NoPoll \in PollCalls
  BY <1>3, <1>4 DEF NoThread, Calls, Points, NoPoll, PollCalls, PollPoints
<1>6. NewNode \in Nodes
  BY DEF NewNode, Nodes
<1> QED BY <1>2, <1>3, <1>4, <1>5, <1>6

\* A set of natural numbers that is not empty has a least element.
LEMMA LeastExists ==
  ASSUME NEW S \in SUBSET Nat, S # {}
  PROVE  \E x \in S : \A y \in S : x <= y
<1>1. PICK x \in S : \A y \in S : ~ (<<y, x>> \in OpToRel(<, Nat))
  BY NatLessThanWellFounded, WFMin
<1>2. OpToRel(<, Nat) = {ss \in Nat \X Nat : ss[1] < ss[2]}
  BY Zenon DEF OpToRel
<1>3. \A y \in S : ~ (y < x)
  BY <1>1, <1>2
<1> QED BY <1>3

\* The ready device is one of the ready devices.
LEMMA ReadyIn ==
  ASSUME setup \in Setups, poll \in PollCalls, poll.ready # {}
  PROVE  ReadyDevice \in poll.ready /\ ReadyDevice \in Devices
<1>1. poll.ready \in SUBSET Nat /\ poll.ready \subseteq Devices
  BY SetupFacts DEF PollCalls
<1>2. \E x \in poll.ready : \A y \in poll.ready : x <= y
  BY <1>1, LeastExists
<1>3. ReadyDevice \in poll.ready
  BY <1>2 DEF ReadyDevice
<1> QED BY <1>1, <1>3

\* The fields of a call of processPendingBuffers when it moves on.
LEMMA CallPc ==
  ASSUME NEW r \in Calls, NEW pc \in Points
  PROVE  LET s == [r EXCEPT !.pc = pc]
         IN  s \in Calls /\ s.pc = pc /\ s.dev = r.dev /\ s.buffer = r.buffer
  BY DEF Calls

\* The same when it goes to a device.
LEMMA CallDev ==
  ASSUME NEW r \in Calls, NEW dev \in Devices
  PROVE  LET s == [r EXCEPT !.dev = dev] IN s \in Calls /\ s.pc = r.pc /\ s.dev = dev
  BY DEF Calls

\* The same when it takes a buffer.
LEMMA CallPcBuffer ==
  ASSUME NEW r \in Calls, NEW pc \in Points, NEW buffer \in Buffers
  PROVE  LET s == [r EXCEPT !.pc = pc, !.buffer = buffer]
         IN  s \in Calls /\ s.pc = pc /\ s.dev = r.dev /\ s.buffer = buffer
  BY DEF Calls

\* The same when the driver refuses.
LEMMA CallPcOk ==
  ASSUME NEW r \in Calls, NEW pc \in Points, NEW ok \in BOOLEAN
  PROVE  LET s == [r EXCEPT !.pc = pc, !.ok = ok] IN s \in Calls /\ s.pc = pc /\ s.dev = r.dev
  BY DEF Calls

\* The record of a thread that enters the loop.
LEMMA CallBegins ==
  ASSUME setup \in Setups
  PROVE  /\ [NoThread EXCEPT !.pc = "count"] \in Calls
         /\ [NoThread EXCEPT !.pc = "count"].pc = "count"
         /\ NoThread \in Calls /\ NoThread.pc = "idle"
  BY SetupFacts DEF NoThread, Calls, Points

\* one thread goes on to another record
Steps(t, r) == /\ th'[t] = r /\ DOMAIN th' = Threads
               /\ \A u \in Threads : u # t => th'[u] = th[u]

\* A thread moves in its own record.
LEMMA StepsType ==
  ASSUME th \in [Threads -> Calls], NEW t \in Threads, NEW r \in Calls,
         th' = [th EXCEPT ![t] = r]
  PROVE  th' \in [Threads -> Calls] /\ Steps(t, r)
  BY DEF Steps

\* The end of a list, and the front.
LEMMA Lists ==
  ASSUME NEW S, NEW s \in Seq(S), NEW x \in S
  PROVE  /\ Append(s, x) \in Seq(S) /\ Len(Append(s, x)) = Len(s) + 1 /\ Len(s) \in Nat
         /\ DOMAIN s = 1..Len(s) /\ DOMAIN Append(s, x) = 1..Len(s) + 1
         /\ \A n \in 1..Len(s) : Append(s, x)[n] = s[n]
         /\ Append(s, x)[Len(s) + 1] = x
  OBVIOUS

\* The list without its front.
LEMMA Fronts ==
  ASSUME NEW S, NEW s \in Seq(S), s # <<>>
  PROVE  /\ Head(s) = s[1] /\ Head(s) \in S /\ Tail(s) \in Seq(S)
         /\ Len(s) \in Nat /\ Len(s) >= 1 /\ 1 \in DOMAIN s /\ DOMAIN s = 1..Len(s)
         /\ Len(Tail(s)) = Len(s) - 1 /\ DOMAIN Tail(s) = 1..Len(s) - 1
         /\ \A n \in 1..Len(s) - 1 : Tail(s)[n] = s[n + 1]
  OBVIOUS

\* A list with one more at its end: what was there, and the new one.
LEMMA Longer ==
  ASSUME NEW S, NEW s \in Seq(S), NEW x \in S
  PROVE  /\ DOMAIN s = 1..Len(s) /\ Len(s) \in Nat /\ DOMAIN Append(s, x) = 1..Len(s) + 1
         /\ \A n \in DOMAIN s : Append(s, x)[n] = s[n]
         /\ Append(s, x)[Len(s) + 1] = x /\ Len(Append(s, x)) = Len(s) + 1
         /\ Append(s, x) # <<>>
         /\ \A n \in DOMAIN Append(s, x) : n \in DOMAIN s \/ n = Len(s) + 1
<1>1. /\ Append(s, x) \in Seq(S) /\ Len(Append(s, x)) = Len(s) + 1 /\ Len(s) \in Nat
      /\ DOMAIN s = 1..Len(s) /\ DOMAIN Append(s, x) = 1..Len(s) + 1
      /\ \A n \in 1..Len(s) : Append(s, x)[n] = s[n]
      /\ Append(s, x)[Len(s) + 1] = x
  BY Lists
<1>2. Append(s, x) # <<>>
  <2>1. Len(<<>>) = 0
    OBVIOUS
  <2> QED BY <1>1, <2>1
<1> QED BY <1>1, <1>2

\* The front leaves and another comes, in either order.
LEMMA TailAppend ==
  ASSUME NEW S, NEW s \in Seq(S), NEW x \in S, s # <<>>
  PROVE  Tail(Append(s, x)) = Append(Tail(s), x)
<1> DEFINE a == Append(s, x)
           r == Tail(s)
<1>1. /\ a \in Seq(S) /\ Len(a) = Len(s) + 1 /\ Len(s) \in Nat /\ a # <<>>
      /\ \A n \in 1..Len(s) : a[n] = s[n]
      /\ a[Len(s) + 1] = x
  BY Lists, Longer
<1>2. /\ r \in Seq(S) /\ Len(r) = Len(s) - 1 /\ Len(s) >= 1
      /\ \A n \in 1..Len(s) - 1 : r[n] = s[n + 1]
  BY Fronts
<1> HIDE DEF a, r
<1>3. /\ Tail(a) \in Seq(S) /\ Len(Tail(a)) = Len(s)
      /\ \A n \in 1..Len(s) : Tail(a)[n] = a[n + 1]
  BY <1>1, Fronts
<1>4. /\ Append(r, x) \in Seq(S) /\ Len(Append(r, x)) = Len(s)
      /\ \A n \in 1..Len(s) - 1 : Append(r, x)[n] = r[n]
      /\ Append(r, x)[Len(s)] = x
  <2>1. /\ Append(r, x) \in Seq(S) /\ Len(Append(r, x)) = Len(r) + 1
        /\ \A n \in 1..Len(r) : Append(r, x)[n] = r[n]
        /\ Append(r, x)[Len(r) + 1] = x
    BY <1>2, Lists
  <2>2. Len(r) + 1 = Len(s) /\ 1..Len(r) = 1..Len(s) - 1
    BY <1>1, <1>2
  <2> QED BY <2>1, <2>2
<1>5. ASSUME NEW n \in 1..Len(s) PROVE Tail(a)[n] = Append(r, x)[n]
  <2>1. CASE n = Len(s)
    BY <1>1, <1>3, <1>4, <2>1
  <2>2. CASE n # Len(s)
    <3>1. n \in 1..Len(s) - 1 /\ n + 1 \in 1..Len(s)
      BY <1>1, <2>2
    <3> QED BY <1>1, <1>2, <1>3, <1>4, <3>1
  <2> QED BY <2>1, <2>2
<1>6. Tail(a) = Append(r, x)
  BY <1>3, <1>4, <1>5, SeqEqual
<1> QED BY <1>6 DEF a, r

\* A list that gets longer keeps its front.
LEMMA HeadAppend ==
  ASSUME NEW S, NEW s \in Seq(S), NEW x \in S, s # <<>>
  PROVE  Append(s, x) # <<>> /\ Head(Append(s, x)) = Head(s)
<1>1. Append(s, x) \in Seq(S) /\ Append(s, x) # <<>> /\ Append(s, x)[1] = s[1]
  BY Lists, Longer, Fronts
<1> QED BY <1>1, Fronts

-----------------------------------------------------------------------------
(* What the steps of processPendingBuffers do.                             *)

\* what no step of processPendingBuffers changes
LoopFrame == UNCHANGED <<mState, mExitPending, mFlushFd, mFrameSkipNum, mPollThread, poll, app, held>>

\* The steps between the critical sections of the devices.
LEMMA LoopEffect ==
  ASSUME TypeOK, setup \in Setups, NEW t \in Threads,
         \/ CountBuffers(t) \/ CheckPending(t) \/ QueueAll(t) \/ NextDevice(t) \/ LoopAgain(t)
  PROVE  /\ LoopFrame /\ UNCHANGED <<mPendingBuffers, mBuffersInDevice, mBufferQueuing, node>>
         /\ th' \in [Threads -> Calls] /\ \A u \in Threads : u # t => th'[u] = th[u]
         /\ ~ At(t, "idle") /\ ~ Queuing(t) /\ ~ Queuing(t)'
         /\ HasFound(t)' => HasFound(t) \/ HasRoom
<1>1. th \in [Threads -> Calls] /\ th[t] \in Calls /\ th[t].dev \in Devices
  BY DEF TypeOK, Calls
<1>2. /\ {"idle", "count", "pending", "queueAll", "take", "next", "again"} \subseteq Points
      /\ 1 \in Devices
  BY SetupFacts DEF Points
<1>3. SUFFICES ASSUME NEW r \in Calls, th' = [th EXCEPT ![t] = r],
                      ~ At(t, "idle"), ~ Queuing(t), r.pc \notin {"put", "move", "release"},
                      LoopFrame, UNCHANGED <<mPendingBuffers, mBuffersInDevice, mBufferQueuing, node>>,
                      \/ r.pc \in {"pending", "queueAll"} \/ (r.pc = "take" /\ r.dev = 1)
                      => HasFound(t) \/ HasRoom
               PROVE  /\ th' \in [Threads -> Calls] /\ \A u \in Threads : u # t => th'[u] = th[u]
                      /\ ~ Queuing(t)' /\ HasFound(t)' => HasFound(t) \/ HasRoom
  <2>1. CASE CountBuffers(t)
    <3> DEFINE r == IF HasRoom THEN [th[t] EXCEPT !.pc = "pending", !.dev = 1] ELSE NoThread
    <3>1. th' = [th EXCEPT ![t] = r] /\ At(t, "count")
      BY <1>1, <2>1 DEF CountBuffers, Return
    <3>2. /\ r \in Calls /\ r.pc \in {"pending", "idle"}
          /\ r.pc = "pending" => HasRoom
      <4>1. CASE HasRoom
        BY <1>1, <1>2, <4>1 DEF Calls
      <4>2. CASE ~ HasRoom
        BY <4>2, CallBegins
      <4> QED BY <4>1, <4>2
    <3> HIDE DEF r
    <3> QED BY <1>3, <2>1, <3>1, <3>2 DEF CountBuffers, LoopFrame, At, Queuing
  <2>2. CASE CheckPending(t)
    <3> DEFINE r == IF mPendingBuffers[th[t].dev] = <<>> THEN NoThread
                    ELSE IF th[t].dev < NumDevices THEN [th[t] EXCEPT !.dev = th[t].dev + 1]
                    ELSE [th[t] EXCEPT !.pc = "queueAll"]
    <3>1. th' = [th EXCEPT ![t] = r] /\ At(t, "pending")
      BY <1>1, <2>2 DEF CheckPending, Return, Goto
    <3>2. th[t].dev < NumDevices => th[t].dev + 1 \in Devices
      BY <1>1, SetupFacts
    <3>3. r \in Calls /\ r.pc \in {"pending", "queueAll", "idle"}
      BY <1>1, <1>2, <3>1, <3>2, CallPc, CallDev, CallBegins DEF At
    <3> HIDE DEF r
    <3> QED BY <1>3, <2>2, <3>1, <3>3 DEF CheckPending, LoopFrame, At, Queuing, HasFound
  <2>3. CASE QueueAll(t)
    <3> DEFINE r == IF mExitPending THEN [th[t] EXCEPT !.pc = "again"]
                    ELSE [th[t] EXCEPT !.pc = "take", !.dev = 1]
    <3>1. th' = [th EXCEPT ![t] = r] /\ At(t, "queueAll")
      BY <1>1, <2>3 DEF QueueAll, Goto
    <3>2. r \in Calls /\ r.pc \in {"again", "take"}
      <4>1. CASE mExitPending
        BY <1>1, <1>2, <4>1, CallPc
      <4>2. CASE ~ mExitPending
        BY <1>1, <1>2, <4>2 DEF Calls
      <4> QED BY <4>1, <4>2
    <3> HIDE DEF r
    <3> QED BY <1>3, <2>3, <3>1, <3>2 DEF QueueAll, LoopFrame, At, Queuing, HasFound
  <2>4. CASE NextDevice(t)
    <3> DEFINE r == IF ~ mExitPending /\ ~ th[t].ok THEN NoThread
                    ELSE IF ~ mExitPending /\ th[t].dev < NumDevices
                    THEN [th[t] EXCEPT !.pc = "take", !.dev = th[t].dev + 1]
                    ELSE [th[t] EXCEPT !.pc = "again"]
    <3>1. th' = [th EXCEPT ![t] = r] /\ At(t, "next")
      BY <1>1, <2>4 DEF NextDevice, Return, Goto
    <3>2. th[t].dev < NumDevices => th[t].dev + 1 \in Devices /\ th[t].dev + 1 # 1
      BY <1>1, SetupFacts
    <3>3. /\ r \in Calls /\ r.pc \in {"idle", "take", "again"}
          /\ r.pc = "take" => r.dev # 1
      <4>1. CASE ~ mExitPending /\ ~ th[t].ok
        BY <4>1, CallBegins
      <4>2. CASE ~ mExitPending /\ th[t].ok /\ th[t].dev < NumDevices
        <5> DEFINE e == th[t].dev + 1
        <5>1. e \in Devices /\ e # 1 /\ r = [th[t] EXCEPT !.pc = "take", !.dev = e]
          BY <3>2, <4>2
        <5> HIDE DEF r, e
        <5> QED BY <1>1, <1>2, <5>1 DEF Calls
      <4>3. CASE mExitPending \/ (th[t].ok /\ ~ (th[t].dev < NumDevices))
        BY <1>1, <1>2, <4>3, CallPc
      <4> QED BY <4>1, <4>2, <4>3
    <3> HIDE DEF r
    <3> QED BY <1>3, <2>4, <3>1, <3>3 DEF NextDevice, LoopFrame, At, Queuing
  <2>5. CASE LoopAgain(t)
    <3> DEFINE r == IF mExitPending THEN NoThread ELSE [NoThread EXCEPT !.pc = "count"]
    <3>1. th' = [th EXCEPT ![t] = r] /\ At(t, "again")
      BY <1>1, <2>5 DEF LoopAgain, Return
    <3>2. r \in Calls /\ r.pc \in {"idle", "count"}
      BY CallBegins
    <3> HIDE DEF r
    <3> QED BY <1>3, <2>5, <3>1, <3>2 DEF LoopAgain, LoopFrame, At, Queuing
  <2> QED BY <2>1, <2>2, <2>3, <2>4, <2>5
<1>4. th' \in [Threads -> Calls] /\ th'[t] = r /\ \A u \in Threads : u # t => th'[u] = th[u]
  BY <1>1, <1>3
<1> QED BY <1>3, <1>4 DEF Queuing, HasFound

\* TakePending: gives up, or takes the front and mBufferQueuing.
LEMMA TakeEffect ==
  ASSUME TypeOK, setup \in Setups, NEW t \in Threads, TakePending(t)
  PROVE  LET d == th[t].dev IN
         /\ LoopFrame /\ UNCHANGED <<mPendingBuffers, mBuffersInDevice, node>>
         /\ th' \in [Threads -> Calls] /\ \A u \in Threads : u # t => th'[u] = th[u]
         /\ th[t].pc = "take" /\ d \in Devices
         /\ \/ ~ Queuing(t)' /\ ~ HasFound(t)' /\ UNCHANGED mBufferQueuing
            \/ /\ th'[t].pc = "put" /\ th'[t].dev = d
               /\ ~ mBufferQueuing[d] /\ mPendingBuffers[d] # <<>>
               /\ th'[t].buffer = Head(mPendingBuffers[d])
               /\ mBufferQueuing' = [mBufferQueuing EXCEPT ![d] = TRUE]
<1> DEFINE d == th[t].dev
<1>1. /\ th \in [Threads -> Calls] /\ th[t] \in Calls /\ d \in Devices /\ th[t].pc = "take"
      /\ mPendingBuffers[d] \in Seq(Buffers)
  BY DEF TypeOK, Calls, TakePending, At
<1>2. {"put", "next"} \subseteq Points
  BY DEF Points
<1>3. LoopFrame /\ UNCHANGED <<mPendingBuffers, mBuffersInDevice, node>>
  BY DEF TakePending, LoopFrame
<1>4. CASE mBufferQueuing[d] \/ mPendingBuffers[d] = <<>>
  <2> DEFINE r == [th[t] EXCEPT !.pc = "next"]
  <2>1. th' = [th EXCEPT ![t] = r] /\ UNCHANGED mBufferQueuing
    BY <1>1, <1>4 DEF TakePending, Goto
  <2>2. r \in Calls /\ r.pc = "next"
    BY <1>1, <1>2, CallPc
  <2> HIDE DEF r
  <2>3. th' \in [Threads -> Calls] /\ th'[t] = r /\ \A u \in Threads : u # t => th'[u] = th[u]
    BY <1>1, <2>1, <2>2
  <2> QED BY <1>1, <1>3, <2>1, <2>2, <2>3 DEF Queuing, HasFound
<1>5. CASE ~ (mBufferQueuing[d] \/ mPendingBuffers[d] = <<>>)
  <2> DEFINE b == Head(mPendingBuffers[d])
             r == [th[t] EXCEPT !.pc = "put", !.buffer = b]
  <2>1. th' = [th EXCEPT ![t] = r] /\ mBufferQueuing' = [mBufferQueuing EXCEPT ![d] = TRUE]
    BY <1>1, <1>5 DEF TakePending
  <2>2. b \in Buffers
    BY <1>1, <1>5, Fronts
  <2>3. r \in Calls /\ r.pc = "put" /\ r.dev = d /\ r.buffer = b
    <3> HIDE DEF b
    <3> QED BY <1>1, <1>2, <2>2 DEF Calls
  <2> HIDE DEF r
  <2>4. th' \in [Threads -> Calls] /\ th'[t] = r /\ \A u \in Threads : u # t => th'[u] = th[u]
    BY <1>1, <2>1, <2>3
  <2> QED BY <1>1, <1>3, <1>5, <2>1, <2>3, <2>4
<1> QED BY <1>4, <1>5

\* PutFrame: the index is queued already, or it is put behind the others.
LEMMA PutEffect ==
  ASSUME TypeOK, setup \in Setups, NEW t \in Threads, PutFrame(t)
  PROVE  LET d == th[t].dev IN
         /\ LoopFrame /\ UNCHANGED <<mPendingBuffers, mBuffersInDevice, mBufferQueuing>>
         /\ th' \in [Threads -> Calls] /\ \A u \in Threads : u # t => th'[u] = th[u]
         /\ th[t].pc = "put" /\ d \in Devices /\ th'[t].dev = d
         /\ \/ th'[t].pc = "release" /\ UNCHANGED node
            \/ /\ th'[t].pc = "move" /\ th'[t].buffer = th[t].buffer
               /\ node' \in [Devices -> Nodes]
               /\ \A e \in Devices : e # d => node'[e] = node[e]
               /\ node'[d].queue = Append(node[d].queue, th[t].buffer.index)
<1> DEFINE d == th[t].dev
           i == th[t].buffer.index
<1>1. /\ th \in [Threads -> Calls] /\ th[t] \in Calls /\ d \in Devices /\ th[t].pc = "put"
      /\ node \in [Devices -> Nodes] /\ node[d] \in Nodes /\ i \in Indices
  BY DEF TypeOK, Calls, PutFrame, At, Buffers
<1>2. {"release", "move"} \subseteq Points
  BY DEF Points
<1>3. LoopFrame /\ UNCHANGED <<mPendingBuffers, mBuffersInDevice, mBufferQueuing>>
  BY DEF PutFrame, LoopFrame
<1>4. CASE i \in Contents(node[d].queue)
  <2> DEFINE r == [th[t] EXCEPT !.pc = "release", !.ok = FALSE]
  <2>1. th' = [th EXCEPT ![t] = r] /\ UNCHANGED node
    BY <1>1, <1>4 DEF PutFrame
  <2>2. r \in Calls /\ r.pc = "release" /\ r.dev = d
    BY <1>1, <1>2, CallPcOk
  <2> HIDE DEF r
  <2>3. th' \in [Threads -> Calls] /\ th'[t] = r /\ \A u \in Threads : u # t => th'[u] = th[u]
    BY <1>1, <2>1, <2>2
  <2> QED BY <1>1, <1>3, <2>1, <2>2, <2>3
<1>5. CASE i \notin Contents(node[d].queue)
  <2> DEFINE r == [th[t] EXCEPT !.pc = "move"]
             q == Append(node[d].queue, i)
             m == [node[d] EXCEPT !.queue = q]
  <2>1. th' = [th EXCEPT ![t] = r] /\ node' = [node EXCEPT ![d] = m]
    BY <1>1, <1>5 DEF PutFrame, Goto
  <2>2. r \in Calls /\ r.pc = "move" /\ r.dev = d /\ r.buffer = th[t].buffer
    BY <1>1, <1>2, CallPc
  <2>3. q \in Seq(Indices)
    BY <1>1 DEF Nodes
  <2>4. m \in Nodes /\ m.queue = q
    <3> HIDE DEF q
    <3> QED BY <1>1, <2>3 DEF Nodes
  <2> HIDE DEF r, m
  <2>5. th' \in [Threads -> Calls] /\ th'[t] = r /\ \A u \in Threads : u # t => th'[u] = th[u]
    BY <1>1, <2>1, <2>2
  <2>6. /\ node' \in [Devices -> Nodes] /\ node'[d] = m
        /\ \A e \in Devices : e # d => node'[e] = node[e]
    BY <1>1, <2>1, <2>4
  <2> QED BY <1>1, <1>3, <2>2, <2>4, <2>5, <2>6
<1> QED BY <1>4, <1>5

\* MoveToDevice: the front of the pending list, if there is one, is dropped, and the
\* thread's buffer put behind the ones in the device.
LEMMA MoveEffect ==
  ASSUME TypeOK, setup \in Setups, NEW t \in Threads, MoveToDevice(t)
  PROVE  LET d == th[t].dev IN
         /\ LoopFrame /\ UNCHANGED <<mBufferQueuing, node>>
         /\ th' \in [Threads -> Calls] /\ \A u \in Threads : u # t => th'[u] = th[u]
         /\ th[t].pc = "move" /\ d \in Devices /\ th'[t].dev = d /\ th'[t].pc = "release"
         /\ th[t].buffer \in Buffers
         /\ mPendingBuffers' \in [Devices -> Seq(Buffers)]
         /\ mBuffersInDevice' \in [Devices -> Seq(Buffers)]
         /\ \A e \in Devices : e # d => /\ mPendingBuffers'[e] = mPendingBuffers[e]
                                        /\ mBuffersInDevice'[e] = mBuffersInDevice[e]
         /\ \/ /\ mPendingBuffers[d] = <<>>
               /\ UNCHANGED <<mPendingBuffers, mBuffersInDevice>>
            \/ /\ mPendingBuffers[d] # <<>>
               /\ mPendingBuffers'[d] = Tail(mPendingBuffers[d])
               /\ mBuffersInDevice'[d] = Append(mBuffersInDevice[d], th[t].buffer)
<1> DEFINE d == th[t].dev
           b == th[t].buffer
           r == [th[t] EXCEPT !.pc = "release"]
<1>1. /\ th \in [Threads -> Calls] /\ th[t] \in Calls /\ d \in Devices /\ th[t].pc = "move"
      /\ mPendingBuffers \in [Devices -> Seq(Buffers)] /\ b \in Buffers
      /\ mBuffersInDevice \in [Devices -> Seq(Buffers)]
  BY DEF TypeOK, Calls, MoveToDevice, At
<1>2. LoopFrame /\ UNCHANGED <<mBufferQueuing, node>> /\ th' = [th EXCEPT ![t] = r]
  BY <1>1 DEF MoveToDevice, LoopFrame, Goto
<1>3. r \in Calls /\ r.pc = "release" /\ r.dev = d
  BY <1>1, CallPc DEF Points
<1> HIDE DEF r
<1>4. th' \in [Threads -> Calls] /\ th'[t] = r /\ \A u \in Threads : u # t => th'[u] = th[u]
  BY <1>1, <1>2, <1>3
<1>5. CASE mPendingBuffers[d] = <<>>
  <2>1. UNCHANGED <<mPendingBuffers, mBuffersInDevice>>
    BY <1>5 DEF MoveToDevice
  <2> QED BY <1>1, <1>2, <1>3, <1>4, <1>5, <2>1
<1>6. CASE mPendingBuffers[d] # <<>>
  <2>1. /\ mPendingBuffers' = [mPendingBuffers EXCEPT ![d] = Tail(mPendingBuffers[d])]
        /\ mBuffersInDevice' = [mBuffersInDevice EXCEPT ![d] = Append(mBuffersInDevice[d], b)]
    BY <1>6 DEF MoveToDevice
  <2>2. Tail(mPendingBuffers[d]) \in Seq(Buffers) /\ Append(mBuffersInDevice[d], b) \in Seq(Buffers)
    <3> HIDE DEF d, b
    <3> QED BY <1>1, <1>6, Fronts, Lists
  <2>3. /\ mPendingBuffers' \in [Devices -> Seq(Buffers)]
        /\ mBuffersInDevice' \in [Devices -> Seq(Buffers)]
        /\ \A e \in Devices : e # d => /\ mPendingBuffers'[e] = mPendingBuffers[e]
                                       /\ mBuffersInDevice'[e] = mBuffersInDevice[e]
        /\ mPendingBuffers'[d] = Tail(mPendingBuffers[d])
        /\ mBuffersInDevice'[d] = Append(mBuffersInDevice[d], b)
    <3> HIDE DEF d, b
    <3> QED BY <1>1, <2>1, <2>2
  <2> QED BY <1>1, <1>2, <1>3, <1>4, <1>6, <2>3
<1> QED BY <1>5, <1>6

\* ReleaseQueuing.
LEMMA ReleaseEffect ==
  ASSUME TypeOK, setup \in Setups, NEW t \in Threads, ReleaseQueuing(t)
  PROVE  /\ LoopFrame /\ UNCHANGED <<mPendingBuffers, mBuffersInDevice, node>>
         /\ th' \in [Threads -> Calls] /\ \A u \in Threads : u # t => th'[u] = th[u]
         /\ th[t].pc = "release" /\ th'[t].pc = "next" /\ th[t].dev \in Devices
         /\ mBufferQueuing' = [mBufferQueuing EXCEPT ![th[t].dev] = FALSE]
<1> DEFINE r == [th[t] EXCEPT !.pc = "next", !.buffer = NoBuffer]
<1>1. th \in [Threads -> Calls] /\ th[t] \in Calls /\ th[t].dev \in Devices /\ th[t].pc = "release"
  BY DEF TypeOK, Calls, ReleaseQueuing, At
<1>2. /\ LoopFrame /\ UNCHANGED <<mPendingBuffers, mBuffersInDevice, node>>
      /\ th' = [th EXCEPT ![t] = r]
      /\ mBufferQueuing' = [mBufferQueuing EXCEPT ![th[t].dev] = FALSE]
  BY <1>1 DEF ReleaseQueuing, LoopFrame
<1>3. r \in Calls /\ r.pc = "next"
  BY <1>1, SetupFacts, CallPcBuffer, ZenonT(60) DEF Points
<1> HIDE DEF r
<1> QED BY <1>1, <1>2, <1>3

-----------------------------------------------------------------------------
(* What keeps each part of the invariant.                                  *)

\* the parts of the invariant that are about memory, in the next state
OnePlaceNext(d) ==
    /\ \A m, n \in DOMAIN mPendingBuffers'[d] :
          Memory(mPendingBuffers'[d][m]) = Memory(mPendingBuffers'[d][n]) => m = n
    /\ \A m, n \in DOMAIN mBuffersInDevice'[d] :
          Memory(mBuffersInDevice'[d][m]) = Memory(mBuffersInDevice'[d][n]) => m = n
    /\ \A n \in DOMAIN mPendingBuffers'[d] : AloneNext(d, Memory(mPendingBuffers'[d][n]))
    /\ \A n \in DOMAIN mBuffersInDevice'[d] : \A buffer \in held'[d] :
          Memory(buffer) # Memory(mBuffersInDevice'[d][n])
    /\ \A a, b \in held'[d] : Memory(a) = Memory(b) => a = b

\* OnePlace in the next state.
LEMMA OnePlacePrimed ==
  ASSUME UNCHANGED setup, \A d \in Devices : OnePlaceNext(d)
  PROVE  OnePlace'
<1>1. Devices' = Devices
  BY SameSetup
<1> QED BY <1>1 DEF OnePlace, OnePlaceNext, Alone, AloneNext, Memory

\* Taken in the next state.
LEMMA TakenPrimed ==
  ASSUME \A t \in Threads : Taking(t)' =>
            /\ AloneNext(th'[t].dev, Memory(th'[t].buffer))
            /\ \A n \in DOMAIN mPendingBuffers'[th'[t].dev] :
                  Memory(mPendingBuffers'[th'[t].dev][n]) = Memory(th'[t].buffer) => n = 1
  PROVE  Taken'
  BY DEF Taken, Alone, AloneNext, Memory

\* Dequeued in the next state.
LEMMA DequeuedPrimed ==
  ASSUME poll'.pc \in {"grab", "pop"} =>
            Memory(poll'.buffer) = Memory(Head(mBuffersInDevice'[ReadyDevice'])),
         poll'.pc = "deliver" /\ ~ poll'.skip =>
            /\ AloneNext(ReadyDevice', Memory(poll'.buffer))
            /\ \A n \in DOMAIN mPendingBuffers'[ReadyDevice'] :
                  Memory(mPendingBuffers'[ReadyDevice'][n]) # Memory(poll'.buffer)
            /\ \A t \in Threads : Taking(t)' /\ th'[t].dev = ReadyDevice' =>
                  Memory(th'[t].buffer) # Memory(poll'.buffer)
  PROVE  Dequeued'
  BY DEF Dequeued, Alone, AloneNext, Memory, PollAt

\* Known in the next state.
LEMMA KnownPrimed ==
  ASSUME UNCHANGED setup,
         \A d \in Devices :
            /\ \A n \in DOMAIN mPendingBuffers'[d] : OldNext(d, mPendingBuffers'[d][n])
            /\ \A n \in DOMAIN mBuffersInDevice'[d] : OldNext(d, mBuffersInDevice'[d][n])
            /\ \A buffer \in held'[d] : OldNext(d, buffer),
         \A t \in Threads : Taking(t)' => OldNext(th'[t].dev, th'[t].buffer),
         poll'.pc \in {"grab", "pop", "deliver"} => OldNext(ReadyDevice', poll'.buffer)
  PROVE  Known'
<1>1. Devices' = Devices /\ NumBuffers' = NumBuffers
  BY SameSetup
<1> QED BY <1>1 DEF Known, Old, OldNext

\* Buffers only leave lists, threads only let go of them.
LEMMA KeepsMemoryNow ==
  ASSUME TypeOK, OnePlace, Taken, Dequeued, Known, setup \in Setups, UNCHANGED setup,
         \A d \in Devices : mPendingBuffers'[d] \in {mPendingBuffers[d], <<>>},
         \A d \in Devices : mBuffersInDevice'[d] \in {mBuffersInDevice[d], <<>>},
         \A d \in Devices : held'[d] \in {held[d], {}},
         \A u \in Threads : Taking(u)' =>
            /\ Taking(u) /\ th'[u].dev = th[u].dev /\ th'[u].buffer = th[u].buffer,
         poll'.pc \in {"grab", "pop", "deliver"} =>
            poll' = poll /\ mBuffersInDevice' = mBuffersInDevice,
         \A d \in Devices : \A b \in Buffers : Old(d, b) => OldNext(d, b)
  PROVE  OnePlace' /\ Taken' /\ Dequeued' /\ Known'
<1>1. Devices' = Devices /\ NumBuffers' = NumBuffers
  BY SameSetup
<1>2. \A u \in Threads : th[u].dev \in Devices
  BY DEF TypeOK, Calls
<1>3. /\ \A d \in Devices : \A n \in DOMAIN mPendingBuffers'[d] :
           n \in DOMAIN mPendingBuffers[d] /\ mPendingBuffers'[d][n] = mPendingBuffers[d][n]
      /\ \A d \in Devices : \A n \in DOMAIN mBuffersInDevice'[d] :
           n \in DOMAIN mBuffersInDevice[d] /\ mBuffersInDevice'[d][n] = mBuffersInDevice[d][n]
      /\ \A d \in Devices : held'[d] \subseteq held[d]
  <2>1. DOMAIN <<>> = {}
    OBVIOUS
  <2> QED BY <2>1
<1>4. \A d \in Devices : \A m : Alone(d, m) => AloneNext(d, m)
  BY <1>3 DEF Alone, AloneNext
<1>5. OnePlace'
  <2>1. SUFFICES ASSUME NEW d \in Devices
                 PROVE  OnePlaceNext(d)
    BY OnePlacePrimed
  <2>2. ASSUME NEW n \in DOMAIN mPendingBuffers'[d]
        PROVE  AloneNext(d, Memory(mPendingBuffers'[d][n]))
    <3>1. Alone(d, Memory(mPendingBuffers[d][n]))
      BY <1>3, <2>2 DEF OnePlace
    <3> QED BY <1>3, <1>4, <3>1
  <2> QED BY <1>3, <2>2 DEF OnePlace, OnePlaceNext
<1>6. Taken'
  <2>1. SUFFICES ASSUME NEW t \in Threads, Taking(t)'
                 PROVE  /\ AloneNext(th'[t].dev, Memory(th'[t].buffer))
                        /\ \A n \in DOMAIN mPendingBuffers'[th'[t].dev] :
                             Memory(mPendingBuffers'[th'[t].dev][n]) = Memory(th'[t].buffer) => n = 1
    BY TakenPrimed
  <2>2. Taking(t) /\ th[t].dev \in Devices /\ th'[t].dev = th[t].dev /\ th'[t].buffer = th[t].buffer
    BY <1>2, <2>1
  <2> QED BY <1>3, <1>4, <2>2 DEF Taken
<1>7. Dequeued'
  <2>1. CASE poll'.pc \notin {"grab", "pop", "deliver"}
    BY <2>1, DequeuedPrimed DEF PollAt
  <2>2. CASE poll'.pc \in {"grab", "pop", "deliver"}
    <3>1. poll' = poll /\ mBuffersInDevice' = mBuffersInDevice /\ ReadyDevice' = ReadyDevice
      BY <2>2 DEF ReadyDevice
    <3>2. poll.pc \in {"grab", "pop"} => Memory(poll.buffer) = Memory(Head(mBuffersInDevice[ReadyDevice]))
      BY DEF Dequeued
    <3>3. ASSUME PollAt("deliver"), ~ poll.skip
          PROVE  /\ AloneNext(ReadyDevice, Memory(poll.buffer))
                 /\ \A n \in DOMAIN mPendingBuffers'[ReadyDevice] :
                      Memory(mPendingBuffers'[ReadyDevice][n]) # Memory(poll.buffer)
                 /\ \A t \in Threads : Taking(t)' /\ th'[t].dev = ReadyDevice =>
                      Memory(th'[t].buffer) # Memory(poll.buffer)
      <4>1. ReadyDevice \in Devices
        BY <3>3, ReadyIn DEF TypeOK, PollAt
      <4>2. /\ Alone(ReadyDevice, Memory(poll.buffer))
            /\ \A n \in DOMAIN mPendingBuffers[ReadyDevice] :
                 Memory(mPendingBuffers[ReadyDevice][n]) # Memory(poll.buffer)
            /\ \A t \in Threads : Taking(t) /\ th[t].dev = ReadyDevice =>
                 Memory(th[t].buffer) # Memory(poll.buffer)
        BY <3>3 DEF Dequeued
      <4> QED BY <1>3, <1>4, <4>1, <4>2
    <3> QED BY <3>1, <3>2, <3>3, DequeuedPrimed DEF PollAt
  <2> QED BY <2>1, <2>2
<1>8. Known'
  <2>1. /\ \A d \in Devices : \A n \in DOMAIN mPendingBuffers[d] : mPendingBuffers[d][n] \in Buffers
        /\ \A d \in Devices : \A n \in DOMAIN mBuffersInDevice[d] : mBuffersInDevice[d][n] \in Buffers
        /\ \A d \in Devices : \A buffer \in held[d] : buffer \in Buffers
        /\ \A t \in Threads : th[t].buffer \in Buffers
        /\ poll.buffer \in Buffers
    BY DEF TypeOK, Calls, PollCalls
  <2>2. \A d \in Devices :
           /\ \A n \in DOMAIN mPendingBuffers'[d] : OldNext(d, mPendingBuffers'[d][n])
           /\ \A n \in DOMAIN mBuffersInDevice'[d] : OldNext(d, mBuffersInDevice'[d][n])
           /\ \A buffer \in held'[d] : OldNext(d, buffer)
    BY <1>3, <2>1 DEF Known
  <2>3. \A t \in Threads : Taking(t)' => OldNext(th'[t].dev, th'[t].buffer)
    BY <1>2, <2>1 DEF Known
  <2>4. poll'.pc \in {"grab", "pop", "deliver"} => OldNext(ReadyDevice', poll'.buffer)
    <3>1. SUFFICES ASSUME poll'.pc \in {"grab", "pop", "deliver"}
                   PROVE  OldNext(ReadyDevice', poll'.buffer)
      OBVIOUS
    <3>2. poll' = poll /\ ReadyDevice' = ReadyDevice
      BY <3>1 DEF ReadyDevice
    <3>3. ReadyDevice \in Devices
      BY <3>1, <3>2, ReadyIn DEF TypeOK
    <3> QED BY <2>1, <3>1, <3>2, <3>3 DEF Known
  <2> QED BY <2>2, <2>3, <2>4, KnownPrimed
<1> QED BY <1>5, <1>6, <1>7, <1>8

\* The same when no buffer is allocated and no session begins.
LEMMA KeepsMemory ==
  ASSUME TypeOK, OnePlace, Taken, Dequeued, Known, setup \in Setups, UNCHANGED setup,
         \A d \in Devices : mPendingBuffers'[d] \in {mPendingBuffers[d], <<>>},
         \A d \in Devices : mBuffersInDevice'[d] \in {mBuffersInDevice[d], <<>>},
         \A d \in Devices : held'[d] \in {held[d], {}},
         \A u \in Threads : Taking(u)' =>
            /\ Taking(u) /\ th'[u].dev = th[u].dev /\ th'[u].buffer = th[u].buffer,
         poll'.pc \in {"grab", "pop", "deliver"} =>
            poll' = poll /\ mBuffersInDevice' = mBuffersInDevice,
         app'.session = app.session, AppAt("alloc")' => app' = app
  PROVE  OnePlace' /\ Taken' /\ Dequeued' /\ Known'
<1>1. \A d \in Devices : \A b \in Buffers : Old(d, b) => OldNext(d, b)
  BY DEF Old, OldNext, AppAt
<1> QED BY <1>1, KeepsMemoryNow

\* Threads only leave queueBuffer.
LEMMA KeepsQueues ==
  ASSUME OneQueues, UNCHANGED mBufferQueuing,
         \A u \in Threads : Queuing(u)' => Queuing(u) /\ th'[u].dev = th[u].dev
  PROVE  OneQueues'
  BY DEF OneQueues, Queuing

\* The numbers in Room.
LEMMA RoomFacts ==
  ASSUME TypeOK, setup \in Setups
  PROVE  /\ Len(mBuffersInDevice[1]) \in Nat /\ mMaxBuffersInDevice \in Nat
         /\ Cardinality(Consumers) \in Nat /\ IsFiniteSet(Threads)
         /\ IsFiniteSet({t \in Threads : HasFound(t)})
         /\ Cardinality({t \in Threads : HasFound(t)}) \in Nat
<1>1. Len(mBuffersInDevice[1]) \in Nat /\ mMaxBuffersInDevice \in Nat
  BY SetupFacts, CaptureAssumption DEF TypeOK, mMaxBuffersInDevice
<1>2. Cardinality(Consumers) \in Nat
  BY CaptureAssumption, FS_CardinalityType
<1>3. IsFiniteSet(Threads)
  <2>1. IsFiniteSet({"app", "poll"})
    <3>1. IsFiniteSet({"app"}) /\ {"app", "poll"} = {"app"} \cup {"poll"}
      BY FS_Singleton
    <3> QED BY <3>1, FS_AddElement
  <2> QED BY <2>1, CaptureAssumption, FS_Union DEF Threads
<1>4. IsFiniteSet({t \in Threads : HasFound(t)})
  BY <1>3, FS_Subset
<1> QED BY <1>1, <1>2, <1>3, <1>4, FS_CardinalityType

\* No buffer comes into the main device, and no thread finds room.
LEMMA KeepsRoom ==
  ASSUME TypeOK, setup \in Setups, Room, Len(mBuffersInDevice'[1]) \in Nat,
         Len(mBuffersInDevice'[1]) <= Len(mBuffersInDevice[1]),
         \A u \in Threads : HasFound(u)' => HasFound(u)
  PROVE  Room'
<1> DEFINE F == {t \in Threads : HasFound(t)}
           G == {t \in Threads : HasFound(t)'}
<1>1. G \subseteq F /\ IsFiniteSet(F) /\ Cardinality(F) \in Nat
  BY RoomFacts
<1>2. Cardinality(G) <= Cardinality(F) /\ Cardinality(G) \in Nat
  <2> HIDE DEF F, G
  <2> QED BY <1>1, FS_Subset, FS_CardinalityType
<1>3. Len(mBuffersInDevice[1]) + Cardinality(F) <= mMaxBuffersInDevice + Cardinality(Consumers)
  BY DEF Room
<1>4. Len(mBuffersInDevice'[1]) + Cardinality(G) <= mMaxBuffersInDevice + Cardinality(Consumers)
  <2> HIDE DEF F, G
  <2> QED BY <1>1, <1>2, <1>3, RoomFacts
<1> QED BY <1>4 DEF Room

\* what the driver holds of one device does not change
LEMMA SameInDriver ==
  ASSUME NEW d, mBuffersInDevice' = mBuffersInDevice,
         \A u \in Threads : At(u, "move")' <=> At(u, "move"),
         \A u \in Threads : At(u, "move") => th'[u].dev = th[u].dev /\ th'[u].buffer = th[u].buffer,
         PollAt("pop")' <=> PollAt("pop"), PollAt("pop") => poll' = poll
  PROVE  InDriver(d)' = InDriver(d)
<1> DEFINE moving == {t \in Threads : At(t, "move") /\ th[t].dev = d}
<1>1. {t \in Threads : At(t, "move")' /\ th'[t].dev = d} = moving
  OBVIOUS
<1>2. (PollAt("pop") /\ ReadyDevice = d)' <=> (PollAt("pop") /\ ReadyDevice = d)
  BY DEF ReadyDevice
<1>3. moving # {} => th'[Any(moving)].buffer = th[Any(moving)].buffer
  <2>1. moving # {} => Any(moving) \in moving
    BY DEF Any
  <2> QED BY <2>1
<1> DEFINE q == IF PollAt("pop") /\ ReadyDevice = d THEN Tail(mBuffersInDevice[d])
                ELSE mBuffersInDevice[d]
<1>4. InDriver(d) = IF moving = {} THEN q ELSE Append(q, th[Any(moving)].buffer)
  BY DEF InDriver
<1>5. InDriver(d)' = IF moving = {} THEN q ELSE Append(q, th'[Any(moving)].buffer)
  BY <1>1, <1>2 DEF InDriver
<1> QED BY <1>3, <1>4, <1>5

\* The lists of the device and of the driver stay as they are.
LEMMA KeepsDriver ==
  ASSUME TypeOK, FrontTaken, DriverInStep, UNCHANGED setup, ~ app'.stopped => ~ app.stopped,
         mBuffersInDevice' = mBuffersInDevice,
         ~ app'.stopped => \A d \in Devices :
            /\ node'[d].queue = node[d].queue
            /\ mPendingBuffers[d] # <<>> =>
                 mPendingBuffers'[d] # <<>> /\ Head(mPendingBuffers'[d]) = Head(mPendingBuffers[d]),
         \A u \in Threads : Taking(u)' =>
            /\ Taking(u) /\ th'[u].dev = th[u].dev /\ th'[u].buffer = th[u].buffer,
         \A u \in Threads : At(u, "move")' <=> At(u, "move"),
         PollAt("pop")' <=> PollAt("pop"), PollAt("pop") => poll' = poll
  PROVE  FrontTaken' /\ DriverInStep'
<1>1. Devices' = Devices
  BY SameSetup
<1>2. \A u \in Threads : th[u].dev \in Devices
  BY DEF TypeOK, Calls
<1>3. FrontTaken'
  BY <1>1, <1>2 DEF FrontTaken
<1>4. ASSUME NEW d \in Devices, ~ app'.stopped PROVE InDriver(d)' = InDriver(d)
  <2>1. \A u \in Threads : At(u, "move") => th'[u].dev = th[u].dev /\ th'[u].buffer = th[u].buffer
    BY DEF At, Taking
  <2> QED BY <2>1, SameInDriver
<1>5. DriverInStep'
  <2>1. SUFFICES ASSUME NEW d \in Devices, ~ app'.stopped
                 PROVE  /\ Len(node'[d].queue) = Len(InDriver(d)')
                        /\ \A n \in DOMAIN node'[d].queue : node'[d].queue[n] = InDriver(d)'[n].index
    BY <1>1 DEF DriverInStep
  <2>2. InDriver(d)' = InDriver(d) /\ node'[d].queue = node[d].queue
    BY <1>4, <2>1
  <2> QED BY <2>1, <2>2 DEF DriverInStep
<1> QED BY <1>3, <1>5

-----------------------------------------------------------------------------
(* processPendingBuffers keeps the invariant.                              *)

\* A thread that is in processPendingBuffers goes on.
LEMMA ThreadControl ==
  ASSUME Control, LoopFrame, UNCHANGED setup, NEW t \in Threads, ~ At(t, "idle"),
         \A u \in Threads : u # t => th'[u] = th[u]
  PROVE  Control'
<1>1. Devices' = Devices
  BY SameSetup
<1>2. "poll" \in Threads /\ "app" \in Threads /\ Consumers \subseteq Threads
  BY DEF Threads
<1>3. At("poll", "idle")' \/ PollAt("deliver")'
  BY <1>2 DEF Control, LoopFrame, At, PollAt
<1>4. At("app", "idle")' \/ AppAt("alloc")'
  BY <1>2 DEF Control, LoopFrame, At, AppAt
<1>5. Quiet => Quiet'
  <2>1. SUFFICES ASSUME Quiet PROVE Quiet'
    OBVIOUS
  <2>2. t \notin Consumers
    BY <2>1 DEF Quiet
  <2>3. \A c \in Consumers : th'[c] = th[c]
    BY <1>2, <2>2
  <2> QED BY <1>1, <2>1, <2>3 DEF Quiet, At, LoopFrame
<1> QED BY <1>1, <1>3, <1>4, <1>5 DEF Control, LoopFrame, PollAt, AppAt

\* The types, when no list becomes empty.
LEMMA ThreadType ==
  ASSUME TypeOK, setup \in Setups, LoopFrame, UNCHANGED setup, th' \in [Threads -> Calls],
         mPendingBuffers' \in [Devices -> Seq(Buffers)],
         mBuffersInDevice' \in [Devices -> Seq(Buffers)],
         mBufferQueuing' \in [Devices -> BOOLEAN], node' \in [Devices -> Nodes],
         \A d \in Devices : mBuffersInDevice[d] # <<>> => mBuffersInDevice'[d] # <<>>
  PROVE  TypeOK'
<1>1. /\ Devices' = Devices /\ Buffers' = Buffers /\ Calls' = Calls /\ Nodes' = Nodes
      /\ PollCalls' = PollCalls
  BY SameSetup
<1>2. ReadyDevice' = ReadyDevice
  BY DEF LoopFrame, ReadyDevice
<1>3. poll'.pc \in {"grab", "pop"} => mBuffersInDevice'[ReadyDevice'] # <<>>
  <2>1. SUFFICES ASSUME poll.pc \in {"grab", "pop"} PROVE mBuffersInDevice'[ReadyDevice] # <<>>
    BY <1>2 DEF LoopFrame
  <2>2. ReadyDevice \in Devices
    BY <2>1, ReadyIn DEF TypeOK
  <2> QED BY <2>1, <2>2 DEF TypeOK
<1>4. poll'.pc \in {"first", "grab", "pop", "deliver"} => poll'.ready # {}
  BY DEF LoopFrame, TypeOK
<1> QED BY <1>1, <1>3, <1>4 DEF TypeOK, LoopFrame

\* A thread that found room is one that the last check let pass.
LEMMA LoopRoom ==
  ASSUME TypeOK, Control, Room, NEW t \in Threads, UNCHANGED <<mBuffersInDevice, poll, app>>,
         Control', \A u \in Threads : u # t => th'[u] = th[u],
         HasFound(t)' => HasFound(t) \/ HasRoom
  PROVE  Room'
<1>1. CASE HasFound(t)' => HasFound(t)
  <2>1. \A u \in Threads : HasFound(u)' => HasFound(u)
    BY <1>1 DEF HasFound
  <2>2. Len(mBuffersInDevice'[1]) = Len(mBuffersInDevice[1]) /\ Len(mBuffersInDevice[1]) \in Nat
    BY RoomFacts DEF Control
  <2> QED BY <2>1, <2>2, KeepsRoom DEF Control
<1>2. CASE HasRoom
  <2> DEFINE G == {u \in Threads : HasFound(u)'}
  <2>1. PICK x \in {"app", "poll"} : ~ HasFound(x)'
    <3>1. At("poll", "idle")' \/ PollAt("deliver")'
      BY DEF Control
    <3>2. At("app", "idle")' \/ AppAt("alloc")'
      BY DEF Control
    <3>3. AppAt("alloc")' => PollAt("none")'
      BY DEF Control, AppAt
    <3>4. AppAt("alloc")' <=> AppAt("alloc")
      BY DEF AppAt
    <3> QED BY <3>1, <3>2, <3>3, <3>4 DEF HasFound, At, PollAt
  <2>2. G \subseteq Threads \ {x}
    BY <2>1 DEF HasFound
  <2>3. IsFiniteSet(Threads \ {x}) /\ Cardinality(Threads \ {x}) = Cardinality(Consumers) + 1
    <3> DEFINE y == IF x = "poll" THEN "app" ELSE "poll"
    <3>1. Threads \ {x} = Consumers \cup {y} /\ y \notin Consumers
      BY CaptureAssumption DEF Threads
    <3> HIDE DEF y
    <3> QED BY <3>1, CaptureAssumption, FS_AddElement
  <2>4. Cardinality(G) <= Cardinality(Consumers) + 1 /\ Cardinality(G) \in Nat
    <3> HIDE DEF G
    <3> QED BY <2>2, <2>3, FS_Subset, FS_CardinalityType
  <2>5. Len(mBuffersInDevice'[1]) < mMaxBuffersInDevice
    BY <1>2 DEF HasRoom
  <2>6. Len(mBuffersInDevice'[1]) + Cardinality(G) <= mMaxBuffersInDevice + Cardinality(Consumers)
    <3>1. Len(mBuffersInDevice'[1]) \in Nat /\ mMaxBuffersInDevice \in Nat /\ Cardinality(Consumers) \in Nat
      BY RoomFacts DEF Control
    <3> HIDE DEF G
    <3> QED BY <2>4, <2>5, <3>1
  <2> QED BY <2>6 DEF Room
<1> QED BY <1>1, <1>2

\* The steps between the critical sections.
LEMMA LoopKeeps ==
  ASSUME IInv, UNCHANGED setup, NEW t \in Threads,
         \/ CountBuffers(t) \/ CheckPending(t) \/ QueueAll(t) \/ NextDevice(t) \/ LoopAgain(t)
  PROVE  IInv'
<1>0. TypeOK /\ Control /\ setup \in Setups
  BY DEF IInv, Control
<1>1. /\ LoopFrame /\ UNCHANGED <<mPendingBuffers, mBuffersInDevice, mBufferQueuing, node>>
      /\ th' \in [Threads -> Calls] /\ \A u \in Threads : u # t => th'[u] = th[u]
      /\ ~ At(t, "idle") /\ ~ Queuing(t) /\ ~ Queuing(t)'
      /\ HasFound(t)' => HasFound(t) \/ HasRoom
  BY <1>0, LoopEffect
<1>2. \A u \in Threads : /\ Queuing(u)' => Queuing(u) /\ th'[u] = th[u]
                         /\ Taking(u)' => Taking(u) /\ th'[u] = th[u]
                         /\ At(u, "move")' <=> At(u, "move")
  BY <1>1 DEF Queuing, Taking, At
<1>3. TypeOK'
  BY <1>0, <1>1, ThreadType DEF TypeOK
<1>4. Control'
  BY <1>0, <1>1, ThreadControl
<1>5. OneQueues'
  BY <1>1, <1>2, KeepsQueues DEF IInv
<1>6. OnePlace' /\ Taken' /\ Dequeued' /\ Known'
  BY <1>0, <1>1, <1>2, KeepsMemory DEF IInv, LoopFrame, AppAt
<1>7. Room'
  BY <1>0, <1>1, <1>4, LoopRoom DEF IInv, LoopFrame
<1>8. FrontTaken' /\ DriverInStep'
  BY <1>0, <1>1, <1>2, KeepsDriver DEF IInv, LoopFrame, PollAt
<1> QED BY <1>3, <1>4, <1>5, <1>6, <1>7, <1>8 DEF IInv

\* TakePending: mBufferQueuing makes the buffer this thread's.
LEMMA TakeKeeps ==
  ASSUME IInv, UNCHANGED setup, NEW t \in Threads, TakePending(t)
  PROVE  IInv'
<1> DEFINE d == th[t].dev
<1>0. TypeOK /\ Control /\ setup \in Setups
  BY DEF IInv, Control
<1>1. /\ LoopFrame /\ UNCHANGED <<mPendingBuffers, mBuffersInDevice, node>>
      /\ th' \in [Threads -> Calls] /\ \A u \in Threads : u # t => th'[u] = th[u]
      /\ th[t].pc = "take" /\ d \in Devices
      /\ \/ ~ Queuing(t)' /\ ~ HasFound(t)' /\ UNCHANGED mBufferQueuing
         \/ /\ th'[t].pc = "put" /\ th'[t].dev = d
            /\ ~ mBufferQueuing[d] /\ mPendingBuffers[d] # <<>>
            /\ th'[t].buffer = Head(mPendingBuffers[d])
            /\ mBufferQueuing' = [mBufferQueuing EXCEPT ![d] = TRUE]
  BY <1>0, TakeEffect
<1>2. ~ At(t, "idle") /\ ~ Queuing(t) /\ \A u \in Threads : At(u, "move")' <=> At(u, "move")
  BY <1>1 DEF Queuing, At
<1>3. TypeOK'
  BY <1>0, <1>1, ThreadType DEF TypeOK
<1>4. Control'
  BY <1>0, <1>1, <1>2, ThreadControl
<1>5. Room'
  <2>1. HasFound(t)' => HasFound(t)
    BY <1>1 DEF HasFound
  <2> QED BY <1>0, <1>1, <1>4, <2>1, LoopRoom DEF IInv, LoopFrame
<1>6. CASE ~ Queuing(t)' /\ UNCHANGED mBufferQueuing
  <2>1. \A u \in Threads : /\ Queuing(u)' => Queuing(u) /\ th'[u] = th[u]
                           /\ Taking(u)' => Taking(u) /\ th'[u] = th[u]
    BY <1>1, <1>6 DEF Queuing, Taking
  <2>2. OneQueues'
    BY <1>6, <2>1, KeepsQueues DEF IInv
  <2>3. OnePlace' /\ Taken' /\ Dequeued' /\ Known'
    BY <1>0, <1>1, <2>1, KeepsMemory DEF IInv, LoopFrame, AppAt
  <2>4. FrontTaken' /\ DriverInStep'
    BY <1>0, <1>1, <1>2, <2>1, KeepsDriver DEF IInv, LoopFrame, PollAt
  <2> QED BY <1>3, <1>4, <1>5, <2>2, <2>3, <2>4 DEF IInv
<1>7. CASE /\ th'[t].pc = "put" /\ th'[t].dev = d
           /\ ~ mBufferQueuing[d] /\ mPendingBuffers[d] # <<>>
           /\ th'[t].buffer = Head(mPendingBuffers[d])
           /\ mBufferQueuing' = [mBufferQueuing EXCEPT ![d] = TRUE]
  <2> DEFINE b == Head(mPendingBuffers[d])
  <2>1. b = mPendingBuffers[d][1] /\ 1 \in DOMAIN mPendingBuffers[d]
    BY <1>0, <1>1, <1>7, Fronts DEF TypeOK
  <2>2. \A u \in Threads : u # t => /\ Taking(u)' <=> Taking(u)
                                    /\ Queuing(u)' <=> Queuing(u)
    BY <1>1 DEF Taking, Queuing
  <2>3. \A u \in Threads : u # t /\ Queuing(u) => th[u].dev # d
    BY <1>7 DEF IInv, OneQueues
  <2>4. OneQueues'
    <3>1. \A u \in Threads : Queuing(u)' => mBufferQueuing'[th'[u].dev]
      BY <1>0, <1>1, <1>7, <2>2 DEF IInv, OneQueues, TypeOK, Calls
    <3>2. \A u, v \in Threads : Queuing(u)' /\ Queuing(v)' /\ th'[u].dev = th'[v].dev => u = v
      BY <1>1, <1>7, <2>2, <2>3 DEF IInv, OneQueues
    <3> QED BY <3>1, <3>2 DEF OneQueues
  <2>5. \A e, m : AloneNext(e, m) <=> Alone(e, m)
    BY <1>1 DEF AloneNext, Alone, LoopFrame
  <2>6. OnePlace'
    <3>1. ASSUME NEW e \in Devices PROVE OnePlaceNext(e)
      BY <1>1, <2>5 DEF IInv, OnePlace, OnePlaceNext, LoopFrame
    <3> QED BY <3>1, OnePlacePrimed
  <2>7. Taken'
    <3>1. SUFFICES ASSUME NEW u \in Threads, Taking(u)'
                   PROVE  /\ AloneNext(th'[u].dev, Memory(th'[u].buffer))
                          /\ \A n \in DOMAIN mPendingBuffers'[th'[u].dev] :
                               Memory(mPendingBuffers'[th'[u].dev][n]) = Memory(th'[u].buffer) => n = 1
      BY TakenPrimed
    <3>2. CASE u # t
      BY <1>1, <2>2, <2>5, <3>1, <3>2 DEF IInv, Taken
    <3>3. CASE u = t
      BY <1>1, <1>7, <2>1, <2>5, <3>3 DEF IInv, OnePlace
    <3> QED BY <3>2, <3>3
  <2>8. Dequeued'
    <3>1. poll' = poll /\ ReadyDevice' = ReadyDevice
      BY <1>1 DEF LoopFrame, ReadyDevice
    <3>2. poll'.pc \in {"grab", "pop"} =>
            Memory(poll'.buffer) = Memory(Head(mBuffersInDevice'[ReadyDevice']))
      BY <1>1, <3>1 DEF IInv, Dequeued
    <3>3. poll'.pc = "deliver" /\ ~ poll'.skip =>
            /\ AloneNext(ReadyDevice', Memory(poll'.buffer))
            /\ \A n \in DOMAIN mPendingBuffers'[ReadyDevice'] :
                  Memory(mPendingBuffers'[ReadyDevice'][n]) # Memory(poll'.buffer)
            /\ \A u \in Threads : Taking(u)' /\ th'[u].dev = ReadyDevice' =>
                  Memory(th'[u].buffer) # Memory(poll'.buffer)
      BY <1>1, <1>7, <2>1, <2>2, <2>5, <3>1 DEF IInv, Dequeued, PollAt
    <3> QED BY <3>2, <3>3, DequeuedPrimed
  <2>9. Known'
    <3>1. \A e, m : OldNext(e, m) <=> Old(e, m)
      BY <1>1 DEF OldNext, Old, LoopFrame, AppAt
    <3>2. \A e \in Devices :
            /\ \A n \in DOMAIN mPendingBuffers'[e] : OldNext(e, mPendingBuffers'[e][n])
            /\ \A n \in DOMAIN mBuffersInDevice'[e] : OldNext(e, mBuffersInDevice'[e][n])
            /\ \A buffer \in held'[e] : OldNext(e, buffer)
      BY <1>1, <3>1 DEF IInv, Known, LoopFrame
    <3>3. \A u \in Threads : Taking(u)' => OldNext(th'[u].dev, th'[u].buffer)
      BY <1>1, <1>7, <2>1, <2>2, <3>1 DEF IInv, Known
    <3>4. poll'.pc \in {"grab", "pop", "deliver"} => OldNext(ReadyDevice', poll'.buffer)
      BY <1>1, <3>1 DEF IInv, Known, LoopFrame, ReadyDevice
    <3> QED BY <3>2, <3>3, <3>4, KnownPrimed
  <2>10. FrontTaken'
    BY <1>1, <1>7, <2>2 DEF IInv, FrontTaken, LoopFrame
  <2>11. DriverInStep'
    <3>1. ASSUME NEW e PROVE InDriver(e)' = InDriver(e)
      <4>1. \A u \in Threads : At(u, "move") => th'[u] = th[u]
        BY <1>1 DEF At
      <4> QED BY <1>1, <1>2, <4>1, SameInDriver DEF LoopFrame, PollAt
    <3>2. Devices' = Devices
      BY SameSetup
    <3> QED BY <1>1, <3>1, <3>2 DEF IInv, DriverInStep, LoopFrame
  <2> QED BY <1>3, <1>4, <1>5, <2>4, <2>6, <2>7, <2>8, <2>9, <2>10, <2>11 DEF IInv
<1> QED BY <1>1, <1>6, <1>7

\* the list of a device without the buffer that was just taken out
QueuedIn(d) == IF PollAt("pop") /\ ReadyDevice = d THEN Tail(mBuffersInDevice[d])
               ELSE mBuffersInDevice[d]

\* Nobody is between VIDIOC_QBUF and the list.
LEMMA NotMoving ==
  ASSUME NEW d
  PROVE  /\ (\A u \in Threads : ~ (At(u, "move") /\ th[u].dev = d)) => InDriver(d) = QueuedIn(d)
         /\ (\A u \in Threads : ~ (At(u, "move")' /\ th'[u].dev = d)) =>
               InDriver(d)' = QueuedIn(d)'
<1>1. ASSUME \A u \in Threads : ~ (At(u, "move") /\ th[u].dev = d) PROVE InDriver(d) = QueuedIn(d)
  <2>1. {t \in Threads : At(t, "move") /\ th[t].dev = d} = {}
    BY <1>1
  <2> QED BY <2>1 DEF InDriver, QueuedIn
<1>2. ASSUME \A u \in Threads : ~ (At(u, "move")' /\ th'[u].dev = d)
      PROVE  InDriver(d)' = QueuedIn(d)'
  <2>1. {t \in Threads : At(t, "move")' /\ th'[t].dev = d} = {}
    BY <1>2
  <2> QED BY <2>1 DEF InDriver, QueuedIn
<1> QED BY <1>1, <1>2

\* One thread is.
LEMMA IsMoving ==
  ASSUME NEW d, NEW t \in Threads
  PROVE  /\ (\A u \in Threads : At(u, "move") /\ th[u].dev = d <=> u = t) =>
               InDriver(d) = Append(QueuedIn(d), th[t].buffer)
         /\ (\A u \in Threads : At(u, "move")' /\ th'[u].dev = d <=> u = t) =>
               InDriver(d)' = Append(QueuedIn(d)', th'[t].buffer)
<1>0. Any({t}) = t
  BY DEF Any
<1>1. ASSUME \A u \in Threads : At(u, "move") /\ th[u].dev = d <=> u = t
      PROVE  InDriver(d) = Append(QueuedIn(d), th[t].buffer)
  <2>1. {u \in Threads : At(u, "move") /\ th[u].dev = d} = {t}
    BY <1>1
  <2> QED BY <1>0, <2>1 DEF InDriver, QueuedIn
<1>2. ASSUME \A u \in Threads : At(u, "move")' /\ th'[u].dev = d <=> u = t
      PROVE  InDriver(d)' = Append(QueuedIn(d)', th'[t].buffer)
  <2>1. {u \in Threads : At(u, "move")' /\ th'[u].dev = d} = {t}
    BY <1>2
  <2> QED BY <1>0, <2>1 DEF InDriver, QueuedIn
<1> QED BY <1>1, <1>2

\* The same threads are.
LEMMA SameMoving ==
  ASSUME NEW d, QueuedIn(d)' = QueuedIn(d),
         \A u \in Threads : /\ At(u, "move")' /\ th'[u].dev = d <=> At(u, "move") /\ th[u].dev = d
                            /\ At(u, "move") /\ th[u].dev = d => th'[u].buffer = th[u].buffer
  PROVE  InDriver(d)' = InDriver(d)
<1> DEFINE moving == {u \in Threads : At(u, "move") /\ th[u].dev = d}
<1>1. {u \in Threads : At(u, "move")' /\ th'[u].dev = d} = moving
  OBVIOUS
<1>2. moving # {} => th'[Any(moving)].buffer = th[Any(moving)].buffer
  <2>1. moving # {} => Any(moving) \in moving
    BY DEF Any
  <2> QED BY <2>1
<1>3. InDriver(d) = IF moving = {} THEN QueuedIn(d) ELSE Append(QueuedIn(d), th[Any(moving)].buffer)
  BY DEF InDriver, QueuedIn
<1>4. InDriver(d)' = IF moving = {} THEN QueuedIn(d)' ELSE Append(QueuedIn(d)', th'[Any(moving)].buffer)
  BY <1>1 DEF InDriver, QueuedIn
<1> QED BY <1>2, <1>3, <1>4

\* the driver holds what the device thinks
InStep(d) == /\ Len(node[d].queue) = Len(InDriver(d))
             /\ \A n \in DOMAIN node[d].queue : node[d].queue[n] = InDriver(d)[n].index

\* DriverInStep in the next state.
LEMMA DriverPrimed ==
  ASSUME UNCHANGED setup, ~ app'.stopped => \A d \in Devices : InStep(d)'
  PROVE  DriverInStep'
<1>1. Devices' = Devices
  BY SameSetup
<1> QED BY <1>1 DEF DriverInStep, InStep

\* InDriver is a list of buffers.
LEMMA InDriverType ==
  ASSUME TypeOK, setup \in Setups, NEW d \in Devices
  PROVE  QueuedIn(d) \in Seq(Buffers) /\ InDriver(d) \in Seq(Buffers)
<1>1. mBuffersInDevice[d] \in Seq(Buffers) /\ \A t \in Threads : th[t].buffer \in Buffers
  BY DEF TypeOK, Calls
<1>2. QueuedIn(d) \in Seq(Buffers)
  <2>1. CASE PollAt("pop") /\ ReadyDevice = d
    BY <1>1, <2>1, Fronts DEF QueuedIn, TypeOK, PollAt
  <2> QED BY <1>1, <2>1 DEF QueuedIn
<1> DEFINE moving == {u \in Threads : At(u, "move") /\ th[u].dev = d}
<1>3. InDriver(d) = IF moving = {} THEN QueuedIn(d) ELSE Append(QueuedIn(d), th[Any(moving)].buffer)
  BY DEF InDriver, QueuedIn
<1>4. moving # {} => Any(moving) \in moving
  BY DEF Any
<1> QED BY <1>1, <1>2, <1>3, <1>4

\* VIDIOC_QBUF, in step with the device.
LEMMA PutKeeps ==
  ASSUME IInv, UNCHANGED setup, NEW t \in Threads, PutFrame(t)
  PROVE  IInv'
<1> DEFINE d == th[t].dev
<1>0. TypeOK /\ Control /\ setup \in Setups
  BY DEF IInv, Control
<1>1. /\ LoopFrame /\ UNCHANGED <<mPendingBuffers, mBuffersInDevice, mBufferQueuing>>
      /\ th' \in [Threads -> Calls] /\ \A u \in Threads : u # t => th'[u] = th[u]
      /\ th[t].pc = "put" /\ d \in Devices /\ th'[t].dev = d
      /\ \/ th'[t].pc = "release" /\ UNCHANGED node
         \/ /\ th'[t].pc = "move" /\ th'[t].buffer = th[t].buffer
            /\ node' \in [Devices -> Nodes]
            /\ \A e \in Devices : e # d => node'[e] = node[e]
            /\ node'[d].queue = Append(node[d].queue, th[t].buffer.index)
  BY <1>0, PutEffect
<1>2. ~ At(t, "idle") /\ Queuing(t) /\ Taking(t)
  BY <1>1 DEF Queuing, Taking, At
<1>3. /\ \A u \in Threads : Queuing(u)' => Queuing(u) /\ th'[u].dev = th[u].dev
      /\ \A u \in Threads : Taking(u)' =>
           Taking(u) /\ th'[u].dev = th[u].dev /\ th'[u].buffer = th[u].buffer
  BY <1>1, <1>2 DEF Queuing, Taking
<1>4. TypeOK'
  BY <1>0, <1>1, ThreadType DEF TypeOK
<1>5. Control'
  BY <1>0, <1>1, <1>2, ThreadControl
<1>6. Room'
  <2>1. HasFound(t)' => HasFound(t)
    BY <1>1 DEF HasFound
  <2> QED BY <1>0, <1>1, <1>5, <2>1, LoopRoom DEF IInv, LoopFrame
<1>7. OneQueues'
  BY <1>1, <1>3, KeepsQueues DEF IInv
<1>8. OnePlace' /\ Taken' /\ Dequeued' /\ Known'
  BY <1>0, <1>1, <1>3, KeepsMemory DEF IInv, LoopFrame, AppAt
<1>9. FrontTaken' /\ DriverInStep'
  <2>1. CASE th'[t].pc = "release" /\ UNCHANGED node
    <3>1. \A u \in Threads : At(u, "move")' <=> At(u, "move")
      BY <1>1, <2>1 DEF At
    <3> QED BY <1>0, <1>1, <1>3, <2>1, <3>1, KeepsDriver DEF IInv, LoopFrame, PollAt
  <2>2. CASE /\ th'[t].pc = "move" /\ th'[t].buffer = th[t].buffer
             /\ node' \in [Devices -> Nodes]
             /\ \A e \in Devices : e # d => node'[e] = node[e]
             /\ node'[d].queue = Append(node[d].queue, th[t].buffer.index)
    <3>1. FrontTaken'
      BY <1>1, <1>3 DEF IInv, FrontTaken, LoopFrame
    <3>2. ASSUME NEW e PROVE QueuedIn(e)' = QueuedIn(e)
      BY <1>1 DEF QueuedIn, LoopFrame, PollAt, ReadyDevice
    <3>3. \A u \in Threads : u # t /\ At(u, "move") => th[u].dev # d
      BY <1>2 DEF IInv, OneQueues, Queuing, At
    <3>4. SUFFICES ASSUME ~ app.stopped, NEW e \in Devices PROVE InStep(e)'
      BY <1>1, <3>1, DriverPrimed DEF LoopFrame
    <3>5. InStep(e)
      BY <3>4 DEF IInv, DriverInStep, InStep
    <3>6. CASE e # d
      <4>1. InDriver(e)' = InDriver(e)
        BY <1>1, <3>2, <3>6, SameMoving DEF At
      <4> QED BY <2>2, <3>5, <3>6, <4>1 DEF InStep
    <3>7. CASE e = d
      <4> DEFINE q == node[e].queue
                 b == th[t].buffer
                 l == QueuedIn(e)
      <4>1. InDriver(e) = l
        <5>1. \A u \in Threads : ~ (At(u, "move") /\ th[u].dev = e)
          BY <1>1, <3>3, <3>7 DEF At
        <5> QED BY <5>1, NotMoving
      <4>2. InDriver(e)' = Append(l, b)
        <5>1. \A u \in Threads : At(u, "move")' /\ th'[u].dev = e <=> u = t
          BY <1>1, <2>2, <3>3, <3>7 DEF At
        <5>2. InDriver(e)' = Append(QueuedIn(e)', th'[t].buffer)
          BY <5>1, IsMoving
        <5> QED BY <2>2, <3>2, <5>2
      <4>3. q \in Seq(Indices) /\ b \in Buffers /\ b.index \in Indices /\ l \in Seq(Buffers)
        BY <1>0, <1>1, InDriverType DEF TypeOK, Calls, Nodes, Buffers
      <4>4. node'[e].queue = Append(q, b.index)
        BY <2>2, <3>7
      <4>5. Len(q) = Len(l) /\ \A n \in DOMAIN q : q[n] = l[n].index
        BY <3>5, <4>1 DEF InStep
      <4> HIDE DEF q, b, l
      <4>6. /\ Len(Append(q, b.index)) = Len(Append(l, b))
            /\ \A n \in DOMAIN Append(q, b.index) : Append(q, b.index)[n] = Append(l, b)[n].index
        BY <4>3, <4>5
      <4> QED BY <4>2, <4>4, <4>6 DEF InStep
    <3> QED BY <3>6, <3>7
  <2> QED BY <1>1, <2>1, <2>2
<1> QED BY <1>4, <1>5, <1>6, <1>7, <1>8, <1>9 DEF IInv

\* The end of queueBuffer.
LEMMA ReleaseKeeps ==
  ASSUME IInv, UNCHANGED setup, NEW t \in Threads, ReleaseQueuing(t)
  PROVE  IInv'
<1>0. TypeOK /\ Control /\ setup \in Setups
  BY DEF IInv, Control
<1>1. /\ LoopFrame /\ UNCHANGED <<mPendingBuffers, mBuffersInDevice, node>>
      /\ th' \in [Threads -> Calls] /\ \A u \in Threads : u # t => th'[u] = th[u]
      /\ th[t].pc = "release" /\ th'[t].pc = "next" /\ th[t].dev \in Devices
      /\ mBufferQueuing' = [mBufferQueuing EXCEPT ![th[t].dev] = FALSE]
  BY <1>0, ReleaseEffect
<1>2. ~ At(t, "idle") /\ Queuing(t)
  BY <1>1 DEF Queuing, At
<1>3. \A u \in Threads : /\ Queuing(u)' => u # t /\ Queuing(u) /\ th'[u] = th[u]
                         /\ Taking(u)' => Taking(u) /\ th'[u] = th[u]
                         /\ At(u, "move")' <=> At(u, "move")
  BY <1>1 DEF Queuing, Taking, At
<1>4. TypeOK'
  BY <1>0, <1>1, ThreadType DEF TypeOK
<1>5. Control'
  BY <1>0, <1>1, <1>2, ThreadControl
<1>6. Room'
  <2>1. HasFound(t)' => HasFound(t)
    BY <1>1 DEF HasFound
  <2> QED BY <1>0, <1>1, <1>5, <2>1, LoopRoom DEF IInv, LoopFrame
<1>7. OneQueues'
  <2>1. \A u \in Threads : Queuing(u)' => th[u].dev # th[t].dev /\ th[u].dev \in Devices
    BY <1>0, <1>2, <1>3 DEF IInv, OneQueues, TypeOK, Calls
  <2>2. \A u \in Threads : Queuing(u)' => mBufferQueuing'[th'[u].dev]
    BY <1>0, <1>1, <1>3, <2>1 DEF IInv, OneQueues, TypeOK
  <2>3. \A u, v \in Threads : Queuing(u)' /\ Queuing(v)' /\ th'[u].dev = th'[v].dev => u = v
    BY <1>3 DEF IInv, OneQueues
  <2> QED BY <2>2, <2>3 DEF OneQueues
<1>8. OnePlace' /\ Taken' /\ Dequeued' /\ Known'
  BY <1>0, <1>1, <1>3, KeepsMemory DEF IInv, LoopFrame, AppAt
<1>9. FrontTaken' /\ DriverInStep'
  BY <1>0, <1>1, <1>3, KeepsDriver DEF IInv, LoopFrame, PollAt
<1> QED BY <1>4, <1>5, <1>6, <1>7, <1>8, <1>9 DEF IInv

\* The front of the pending list comes behind the buffers in the device.
LEMMA MoveKeeps ==
  ASSUME IInv, UNCHANGED setup, NEW t \in Threads, MoveToDevice(t)
  PROVE  IInv'
<1> DEFINE d == th[t].dev
           b == th[t].buffer
           p == mPendingBuffers[d]
           l == mBuffersInDevice[d]
<1>0. TypeOK /\ Control /\ setup \in Setups
  BY DEF IInv, Control
<1>1. /\ LoopFrame /\ UNCHANGED <<mBufferQueuing, node>>
      /\ th' \in [Threads -> Calls] /\ \A u \in Threads : u # t => th'[u] = th[u]
      /\ th[t].pc = "move" /\ d \in Devices /\ th'[t].dev = d /\ th'[t].pc = "release"
      /\ b \in Buffers
      /\ mPendingBuffers' \in [Devices -> Seq(Buffers)]
      /\ mBuffersInDevice' \in [Devices -> Seq(Buffers)]
      /\ \A e \in Devices : e # d => /\ mPendingBuffers'[e] = mPendingBuffers[e]
                                     /\ mBuffersInDevice'[e] = mBuffersInDevice[e]
      /\ \/ p = <<>> /\ UNCHANGED <<mPendingBuffers, mBuffersInDevice>>
         \/ p # <<>> /\ mPendingBuffers'[d] = Tail(p) /\ mBuffersInDevice'[d] = Append(l, b)
  BY <1>0, MoveEffect
<1>2. ~ At(t, "idle") /\ Queuing(t) /\ Taking(t) /\ ~ Taking(t)'
  BY <1>1 DEF Queuing, Taking, At
<1>3. /\ \A u \in Threads : Queuing(u)' => Queuing(u) /\ th'[u].dev = th[u].dev
      /\ \A u \in Threads : Taking(u)' => u # t /\ Taking(u) /\ th'[u] = th[u]
  BY <1>1, <1>2 DEF Queuing, Taking
<1>4. \A u \in Threads : u # t /\ (Taking(u) \/ At(u, "move")) => th[u].dev # d
  BY <1>2 DEF IInv, OneQueues, Queuing, Taking, At
<1>5. p \in Seq(Buffers) /\ l \in Seq(Buffers) /\ b \in Buffers
  BY <1>0, <1>1 DEF TypeOK
<1>6. Control'
  BY <1>0, <1>1, <1>2, ThreadControl
<1>7. OneQueues'
  BY <1>1, <1>3, KeepsQueues DEF IInv
<1>8. CASE p = <<>> /\ UNCHANGED <<mPendingBuffers, mBuffersInDevice>>
  <2>1. TypeOK'
    BY <1>0, <1>1, <1>8, ThreadType DEF TypeOK
  <2>2. Room'
    <3>1. HasFound(t)' => HasFound(t)
      BY <1>1 DEF HasFound
    <3> QED BY <1>0, <1>1, <1>6, <1>8, <3>1, LoopRoom DEF IInv, LoopFrame
  <2>3. OnePlace' /\ Taken' /\ Dequeued' /\ Known'
    BY <1>0, <1>1, <1>3, <1>8, KeepsMemory DEF IInv, LoopFrame, AppAt
  <2>4. app.stopped
    BY <1>2, <1>8 DEF IInv, FrontTaken
  <2>5. FrontTaken' /\ DriverInStep'
    BY <1>1, <2>4 DEF FrontTaken, DriverInStep, LoopFrame
  <2> QED BY <1>6, <1>7, <2>1, <2>2, <2>3, <2>5 DEF IInv
<1>9. CASE p # <<>> /\ mPendingBuffers'[d] = Tail(p) /\ mBuffersInDevice'[d] = Append(l, b)
  <2> DEFINE m == Memory(b)
  <2>1. /\ DOMAIN p = 1..Len(p) /\ Len(p) \in Nat /\ DOMAIN mPendingBuffers'[d] = 1..Len(p) - 1
        /\ \A n \in 1..Len(p) - 1 : mPendingBuffers'[d][n] = p[n + 1]
    <3> HIDE DEF p
    <3> QED BY <1>5, <1>9, Fronts
  <2>2. /\ DOMAIN l = 1..Len(l) /\ Len(l) \in Nat /\ DOMAIN mBuffersInDevice'[d] = 1..Len(l) + 1
        /\ \A n \in DOMAIN l : mBuffersInDevice'[d][n] = l[n]
        /\ mBuffersInDevice'[d][Len(l) + 1] = b
        /\ mBuffersInDevice'[d] # <<>> /\ Len(mBuffersInDevice'[d]) = Len(l) + 1
    <3>1. /\ DOMAIN l = 1..Len(l) /\ Len(l) \in Nat /\ DOMAIN Append(l, b) = 1..Len(l) + 1
          /\ \A n \in DOMAIN l : Append(l, b)[n] = l[n]
          /\ Append(l, b)[Len(l) + 1] = b /\ Len(Append(l, b)) = Len(l) + 1
          /\ Append(l, b) # <<>>
      <4> HIDE DEF l, b
      <4> QED BY <1>5, Longer
    <3>2. mBuffersInDevice'[d] = Append(l, b)
      BY <1>9
    <3> HIDE DEF l, b, d
    <3> QED BY <3>1, <3>2
  <2>3. TypeOK'
    BY <1>0, <1>1, <2>2, ThreadType DEF TypeOK
  <2>4. /\ \A n \in DOMAIN l : Memory(l[n]) # m /\ l[n] = mBuffersInDevice[d][n]
        /\ \A buffer \in held[d] : Memory(buffer) # m
        /\ \A n \in DOMAIN p : Memory(p[n]) = m => n = 1
    BY <1>2 DEF IInv, Taken, Alone
  <2>5. \A n \in DOMAIN mBuffersInDevice'[d] : n \in DOMAIN l \/ n = Len(l) + 1
    BY <2>2
  <2>6. \A n \in DOMAIN mPendingBuffers'[d] :
          /\ n + 1 \in DOMAIN p /\ mPendingBuffers'[d][n] = p[n + 1]
          /\ Memory(p[n + 1]) # m /\ n \in Int
    BY <2>1, <2>4
  <2> HIDE DEF m
  <2>7. \A x : x # m => (AloneNext(d, x) <=> Alone(d, x))
    <3>1. held' = held /\ m = Memory(b)
      BY <1>1 DEF LoopFrame, m
    <3>2. ASSUME NEW x, x # m, Alone(d, x) PROVE AloneNext(d, x)
      BY <2>2, <2>5, <3>1, <3>2 DEF AloneNext, Alone
    <3>3. ASSUME NEW x, x # m, AloneNext(d, x) PROVE Alone(d, x)
      BY <2>2, <3>1, <3>3 DEF AloneNext, Alone
    <3> QED BY <3>2, <3>3
  <2>8. \A e \in Devices : e # d => \A x : AloneNext(e, x) <=> Alone(e, x)
    BY <1>1 DEF AloneNext, Alone, LoopFrame
  <2>9. OnePlace'
    <3>1. ASSUME NEW e \in Devices, e # d PROVE OnePlaceNext(e)
      BY <1>1, <2>8, <3>1 DEF IInv, OnePlace, OnePlaceNext, LoopFrame
    <3>2. OnePlaceNext(d)
      <4>1. \A i, n \in DOMAIN mPendingBuffers'[d] :
              Memory(mPendingBuffers'[d][i]) = Memory(mPendingBuffers'[d][n]) => i = n
        <5>1. \A i, n \in DOMAIN p : Memory(p[i]) = Memory(p[n]) => i = n
          BY <1>1 DEF IInv, OnePlace
        <5>2. \A i, n \in DOMAIN mPendingBuffers'[d] : i + 1 = n + 1 => i = n
          BY <2>6
        <5> QED BY <2>6, <5>1, <5>2
      <4>2. \A i, n \in DOMAIN mBuffersInDevice'[d] :
              Memory(mBuffersInDevice'[d][i]) = Memory(mBuffersInDevice'[d][n]) => i = n
        <5>1. \A i, n \in DOMAIN l : Memory(l[i]) = Memory(l[n]) => i = n
          BY <1>1 DEF IInv, OnePlace
        <5> QED BY <2>2, <2>4, <2>5, <5>1 DEF m
      <4>3. \A n \in DOMAIN mPendingBuffers'[d] : AloneNext(d, Memory(mPendingBuffers'[d][n]))
        <5>1. \A n \in DOMAIN p : Alone(d, Memory(p[n]))
          BY <1>1 DEF IInv, OnePlace
        <5> QED BY <2>6, <2>7, <5>1
      <4>4. \A n \in DOMAIN mBuffersInDevice'[d] : \A buffer \in held[d] :
              Memory(buffer) # Memory(mBuffersInDevice'[d][n])
        <5>1. \A n \in DOMAIN l : \A buffer \in held[d] : Memory(buffer) # Memory(l[n])
          BY <1>1 DEF IInv, OnePlace
        <5>2. SUFFICES ASSUME NEW n \in DOMAIN mBuffersInDevice'[d], NEW buffer \in held[d]
                       PROVE  Memory(buffer) # Memory(mBuffersInDevice'[d][n])
          OBVIOUS
        <5>3. CASE n \in DOMAIN l
          <6>1. mBuffersInDevice'[d][n] = l[n]
            BY <2>2, <5>3
          <6> QED BY <5>1, <5>3, <6>1
        <5>4. CASE n = Len(l) + 1
          <6>1. mBuffersInDevice'[d][n] = b
            BY <2>2, <5>4
          <6> QED BY <2>4, <6>1 DEF m
        <5> QED BY <2>5, <5>3, <5>4
      <4> QED BY <1>1, <4>1, <4>2, <4>3, <4>4 DEF IInv, OnePlace, OnePlaceNext, LoopFrame
    <3> QED BY <3>1, <3>2, OnePlacePrimed
  <2>10. Taken'
    <3>1. SUFFICES ASSUME NEW u \in Threads, Taking(u)'
                   PROVE  /\ AloneNext(th'[u].dev, Memory(th'[u].buffer))
                          /\ \A n \in DOMAIN mPendingBuffers'[th'[u].dev] :
                               Memory(mPendingBuffers'[th'[u].dev][n]) = Memory(th'[u].buffer) => n = 1
      BY TakenPrimed
    <3>2. Taking(u) /\ th'[u] = th[u] /\ th[u].dev # d /\ th[u].dev \in Devices
      BY <1>0, <1>3, <1>4, <3>1 DEF TypeOK, Calls
    <3>3. mPendingBuffers'[th[u].dev] = mPendingBuffers[th[u].dev]
      BY <1>1, <3>2
    <3>4. /\ Alone(th[u].dev, Memory(th[u].buffer))
          /\ \A n \in DOMAIN mPendingBuffers[th[u].dev] :
               Memory(mPendingBuffers[th[u].dev][n]) = Memory(th[u].buffer) => n = 1
      BY <3>2 DEF IInv, Taken
    <3>5. AloneNext(th[u].dev, Memory(th[u].buffer))
      BY <2>8, <3>2, <3>4
    <3> QED BY <3>2, <3>3, <3>4, <3>5
  <2>11. poll' = poll /\ ReadyDevice' = ReadyDevice
    BY <1>1 DEF LoopFrame, ReadyDevice
  <2>12. poll.pc \in {"grab", "pop", "deliver"} => ReadyDevice \in Devices
    BY <1>0, ReadyIn DEF TypeOK
  <2>13. Dequeued'
    <3>1. poll.pc \in {"grab", "pop"} =>
            Memory(poll.buffer) = Memory(Head(mBuffersInDevice'[ReadyDevice]))
      <4>1. SUFFICES ASSUME poll.pc \in {"grab", "pop"}, ReadyDevice = d
                     PROVE  Head(mBuffersInDevice'[d]) = Head(mBuffersInDevice[d])
        BY <1>1, <2>12 DEF IInv, Dequeued
      <4>2. l # <<>>
        BY <1>0, <4>1 DEF TypeOK
      <4> HIDE DEF l, b
      <4>3. Head(Append(l, b)) = Head(l)
        BY <1>1, <1>5, <4>2
      <4> QED BY <1>9, <4>3 DEF l
    <3>2. ASSUME poll.pc = "deliver", ~ poll.skip
          PROVE  /\ AloneNext(ReadyDevice, Memory(poll.buffer))
                 /\ \A n \in DOMAIN mPendingBuffers'[ReadyDevice] :
                      Memory(mPendingBuffers'[ReadyDevice][n]) # Memory(poll.buffer)
                 /\ \A u \in Threads : Taking(u)' /\ th'[u].dev = ReadyDevice =>
                      Memory(th'[u].buffer) # Memory(poll.buffer)
      <4>1. /\ Alone(ReadyDevice, Memory(poll.buffer))
            /\ \A n \in DOMAIN mPendingBuffers[ReadyDevice] :
                 Memory(mPendingBuffers[ReadyDevice][n]) # Memory(poll.buffer)
            /\ \A u \in Threads : Taking(u) /\ th[u].dev = ReadyDevice =>
                 Memory(th[u].buffer) # Memory(poll.buffer)
        BY <3>2 DEF IInv, Dequeued, PollAt
      <4>2. CASE ReadyDevice = d
        <5>1. Memory(poll.buffer) # m
          BY <1>2, <4>1, <4>2 DEF m
        <5> QED BY <1>3, <2>6, <2>7, <4>1, <4>2, <5>1
      <4>3. CASE ReadyDevice # d
        BY <1>1, <1>3, <2>8, <2>12, <3>2, <4>1, <4>3, SMTT(30)
      <4> QED BY <4>2, <4>3
    <3> QED BY <2>11, <3>1, <3>2, DequeuedPrimed
  <2>14. Known'
    <3>1. \A e, x : OldNext(e, x) <=> Old(e, x)
      BY <1>1 DEF OldNext, Old, LoopFrame, AppAt
    <3>2. \A e \in Devices :
            /\ \A n \in DOMAIN mPendingBuffers[e] : Old(e, mPendingBuffers[e][n])
            /\ \A n \in DOMAIN mBuffersInDevice[e] : Old(e, mBuffersInDevice[e][n])
            /\ \A buffer \in held[e] : Old(e, buffer)
      BY DEF IInv, Known
    <3>3. Old(d, b)
      BY <1>2 DEF IInv, Known
    <3>4. ASSUME NEW e \in Devices
          PROVE  /\ \A n \in DOMAIN mPendingBuffers'[e] : OldNext(e, mPendingBuffers'[e][n])
                 /\ \A n \in DOMAIN mBuffersInDevice'[e] : OldNext(e, mBuffersInDevice'[e][n])
                 /\ \A buffer \in held'[e] : OldNext(e, buffer)
      <4>1. CASE e # d
        BY <1>1, <3>1, <3>2, <4>1 DEF LoopFrame
      <4>2. CASE e = d
        BY <1>1, <2>2, <2>5, <2>6, <3>1, <3>2, <3>3, <4>2, ZenonT(60) DEF LoopFrame
      <4> QED BY <4>1, <4>2
    <3>5. \A u \in Threads : Taking(u)' => OldNext(th'[u].dev, th'[u].buffer)
      BY <1>3, <3>1 DEF IInv, Known
    <3>6. poll'.pc \in {"grab", "pop", "deliver"} => OldNext(ReadyDevice', poll'.buffer)
      BY <2>11, <3>1 DEF IInv, Known
    <3> QED BY <3>4, <3>5, <3>6, KnownPrimed
  <2>15. Room'
    <3> DEFINE F == {u \in Threads : HasFound(u)}
               G == {u \in Threads : HasFound(u)'}
    <3>1. 1 \in Devices /\ Len(mBuffersInDevice[1]) \in Nat
      BY <1>0, RoomFacts, SetupFacts
    <3>2. \A u \in Threads : HasFound(u)' => HasFound(u) /\ u # t
      BY <1>1 DEF HasFound
    <3>3. CASE d # 1
      <4>1. Len(mBuffersInDevice'[1]) = Len(mBuffersInDevice[1])
        BY <1>1, <3>1, <3>3
      <4> QED BY <1>0, <3>1, <3>2, <4>1, KeepsRoom DEF IInv
    <3>4. CASE d = 1
      <4>1. Len(mBuffersInDevice'[1]) = Len(mBuffersInDevice[1]) + 1
        BY <2>2, <3>4
      <4>2. t \in F /\ IsFiniteSet(F)
        BY <1>0, <1>1, <3>4, RoomFacts DEF HasFound
      <4>3. G \subseteq F \ {t}
        BY <3>2
      <4>4. /\ IsFiniteSet(F \ {t}) /\ Cardinality(F \ {t}) = Cardinality(F) - 1
            /\ Cardinality(F) \in Nat
        <5> HIDE DEF F
        <5> QED BY <4>2, FS_RemoveElement, FS_CardinalityType
      <4>5. Cardinality(G) <= Cardinality(F) - 1 /\ Cardinality(G) \in Nat
        <5> HIDE DEF F, G
        <5> QED BY <4>3, <4>4, FS_Subset, FS_CardinalityType
      <4>6. Len(mBuffersInDevice[1]) + Cardinality(F) <= mMaxBuffersInDevice + Cardinality(Consumers)
        BY DEF IInv, Room
      <4>7. Len(mBuffersInDevice'[1]) + Cardinality(G) <= mMaxBuffersInDevice + Cardinality(Consumers)
        <5> HIDE DEF F, G
        <5> QED BY <1>0, <3>1, <4>1, <4>4, <4>5, <4>6, RoomFacts
      <4> QED BY <4>7 DEF Room
    <3> QED BY <3>3, <3>4
  <2>16. FrontTaken'
    <3>1. \A u \in Threads : Taking(u)' =>
            /\ Taking(u) /\ th'[u] = th[u] /\ mPendingBuffers'[th[u].dev] = mPendingBuffers[th[u].dev]
      BY <1>0, <1>1, <1>3, <1>4 DEF TypeOK, Calls
    <3> QED BY <1>1, <3>1, SMTT(30) DEF IInv, FrontTaken, LoopFrame
  <2>17. DriverInStep'
    <3>1. SUFFICES ASSUME ~ app.stopped, NEW e \in Devices PROVE InStep(e)'
      BY <1>1, DriverPrimed DEF LoopFrame
    <3>2. InStep(e) /\ node' = node
      BY <1>1, <3>1 DEF IInv, DriverInStep, InStep
    <3>3. CASE e # d
      <4>1. QueuedIn(e)' = QueuedIn(e)
        BY <1>1, <2>11, <3>3 DEF QueuedIn, PollAt
      <4>2. InDriver(e)' = InDriver(e)
        BY <1>1, <3>3, <4>1, SameMoving DEF At
      <4> QED BY <3>2, <4>2 DEF InStep
    <3>4. CASE e = d
      <4>1. InDriver(e) = Append(QueuedIn(e), b)
        <5>1. \A u \in Threads : At(u, "move") /\ th[u].dev = e <=> u = t
          BY <1>1, <1>4, <3>4 DEF At
        <5> QED BY <5>1, IsMoving
      <4>2. InDriver(e)' = QueuedIn(e)'
        <5>1. \A u \in Threads : ~ (At(u, "move")' /\ th'[u].dev = e)
          BY <1>1, <1>4, <3>4, ZenonT(60) DEF At
        <5> QED BY <5>1, NotMoving
      <4>3. QueuedIn(e)' = Append(QueuedIn(e), b)
        <5>1. CASE PollAt("pop") /\ ReadyDevice = d
          <6>1. l # <<>> /\ QueuedIn(e) = Tail(l) /\ QueuedIn(e)' = Tail(Append(l, b))
            BY <1>0, <1>9, <2>11, <3>4, <5>1 DEF TypeOK, QueuedIn, PollAt
          <6> HIDE DEF l, b
          <6>2. Tail(Append(l, b)) = Append(Tail(l), b)
            BY <1>5, <6>1, TailAppend
          <6> QED BY <6>1, <6>2
        <5>2. CASE ~ (PollAt("pop") /\ ReadyDevice = d)
          BY <1>9, <2>11, <3>4, <5>2 DEF QueuedIn, PollAt
        <5> QED BY <5>1, <5>2
      <4> QED BY <3>2, <4>1, <4>2, <4>3 DEF InStep
    <3> QED BY <3>3, <3>4
  <2> QED BY <1>6, <1>7, <2>3, <2>9, <2>10, <2>13, <2>14, <2>15, <2>16, <2>17 DEF IInv
<1> QED BY <1>1, <1>8, <1>9

\* processPendingBuffers in any thread.
LEMMA ProcessKeeps ==
  ASSUME IInv, UNCHANGED setup, NEW t \in Threads, ProcessPending(t)
  PROVE  IInv'
  BY LoopKeeps, TakeKeeps, PutKeeps, MoveKeeps, ReleaseKeeps DEF ProcessPending

-----------------------------------------------------------------------------
(* Buffers that come back to the pending lists.                            *)

\* A buffer that is nowhere else becomes pending.
LEMMA PendingGrows ==
  ASSUME UNCHANGED setup, TypeOK, OnePlace, Taken, setup \in Setups,
         NEW d \in Devices, NEW b \in Buffers,
         mPendingBuffers'[d] = Append(mPendingBuffers[d], b),
         \A e \in Devices : e # d => mPendingBuffers'[e] = mPendingBuffers[e],
         \A e \in Devices : \A x : Alone(e, x) => AloneNext(e, x),
         \A e \in Devices : \A m, n \in DOMAIN mBuffersInDevice'[e] :
            Memory(mBuffersInDevice'[e][m]) = Memory(mBuffersInDevice'[e][n]) => m = n,
         \A e \in Devices : \A n \in DOMAIN mBuffersInDevice'[e] : \A buffer \in held'[e] :
            Memory(buffer) # Memory(mBuffersInDevice'[e][n]),
         \A e \in Devices : \A x, y \in held'[e] : Memory(x) = Memory(y) => x = y,
         \A n \in DOMAIN mPendingBuffers[d] : Memory(mPendingBuffers[d][n]) # Memory(b),
         AloneNext(d, Memory(b)),
         \A u \in Threads : Taking(u)' => Taking(u) /\ th'[u] = th[u],
         \A u \in Threads : Taking(u) /\ th[u].dev = d => Memory(th[u].buffer) # Memory(b)
  PROVE  OnePlace' /\ Taken'
<1> DEFINE p == mPendingBuffers[d]
           m == Memory(b)
<1>1. p \in Seq(Buffers)
  BY DEF TypeOK
<1>2. /\ DOMAIN p = 1..Len(p) /\ Len(p) \in Nat
      /\ \A n \in DOMAIN p : mPendingBuffers'[d][n] = p[n]
      /\ mPendingBuffers'[d][Len(p) + 1] = b
      /\ \A n \in DOMAIN mPendingBuffers'[d] : n \in DOMAIN p \/ n = Len(p) + 1
  <2>1. mPendingBuffers'[d] = Append(p, b)
    OBVIOUS
  <2> HIDE DEF p
  <2> QED BY <1>1, <2>1, Longer
<1>3. /\ \A n \in DOMAIN p : Memory(p[n]) # m
      /\ \A n \in DOMAIN p : Alone(d, Memory(p[n]))
      /\ \A i, n \in DOMAIN p : Memory(p[i]) = Memory(p[n]) => i = n
  BY DEF OnePlace
<1>4. OnePlace'
  <2>1. ASSUME NEW e \in Devices, e # d PROVE OnePlaceNext(e)
    BY <2>1 DEF OnePlace, OnePlaceNext
  <2>2. OnePlaceNext(d)
    <3> HIDE DEF p, m
    <3>1. \A i, n \in DOMAIN mPendingBuffers'[d] :
            Memory(mPendingBuffers'[d][i]) = Memory(mPendingBuffers'[d][n]) => i = n
      BY <1>2, <1>3 DEF m
    <3>2. \A n \in DOMAIN mPendingBuffers'[d] : AloneNext(d, Memory(mPendingBuffers'[d][n]))
      BY <1>2, <1>3
    <3> QED BY <3>1, <3>2 DEF OnePlaceNext
  <2> QED BY <2>1, <2>2, OnePlacePrimed
<1>5. Taken'
  <2>1. SUFFICES ASSUME NEW u \in Threads, Taking(u)'
                 PROVE  /\ AloneNext(th'[u].dev, Memory(th'[u].buffer))
                        /\ \A n \in DOMAIN mPendingBuffers'[th'[u].dev] :
                             Memory(mPendingBuffers'[th'[u].dev][n]) = Memory(th'[u].buffer) => n = 1
    BY TakenPrimed
  <2>2. Taking(u) /\ th'[u] = th[u] /\ th[u].dev \in Devices
    BY <2>1 DEF TypeOK, Calls
  <2>3. /\ Alone(th[u].dev, Memory(th[u].buffer))
        /\ \A n \in DOMAIN mPendingBuffers[th[u].dev] :
             Memory(mPendingBuffers[th[u].dev][n]) = Memory(th[u].buffer) => n = 1
    BY <2>2 DEF Taken
  <2>4. CASE th[u].dev = d
    <3>1. Memory(th[u].buffer) # m
      BY <2>2, <2>4
    <3>2. \A n \in DOMAIN p : Memory(p[n]) = Memory(th[u].buffer) => n = 1
      BY <2>3, <2>4
    <3>3. AloneNext(th[u].dev, Memory(th[u].buffer))
      BY <2>2, <2>3
    <3> HIDE DEF p
    <3>4. \A n \in DOMAIN mPendingBuffers'[d] :
            Memory(mPendingBuffers'[d][n]) = Memory(th[u].buffer) => n = 1
      BY <1>2, <3>1, <3>2
    <3> QED BY <2>2, <2>4, <3>3, <3>4
  <2>5. CASE th[u].dev # d
    BY <2>2, <2>3, <2>5
  <2> QED BY <2>4, <2>5
<1> QED BY <1>4, <1>5

\* The poll thread keeps its buffer to itself while it delivers it.
LEMMA DequeuedKeeps ==
  ASSUME Dequeued, TypeOK, setup \in Setups, UNCHANGED <<poll, mBuffersInDevice>>,
         \A e \in Devices : \A x : Alone(e, x) => AloneNext(e, x),
         \A u \in Threads : Taking(u)' => Taking(u) /\ th'[u] = th[u],
         PollAt("deliver") /\ ~ poll.skip =>
            \A n \in DOMAIN mPendingBuffers'[ReadyDevice] :
               Memory(mPendingBuffers'[ReadyDevice][n]) # Memory(poll.buffer)
  PROVE  Dequeued'
<1>1. ReadyDevice' = ReadyDevice
  BY DEF ReadyDevice
<1>2. poll.pc \in {"grab", "pop"} => Memory(poll.buffer) = Memory(Head(mBuffersInDevice[ReadyDevice]))
  BY DEF Dequeued
<1>3. ASSUME PollAt("deliver"), ~ poll.skip
      PROVE  /\ AloneNext(ReadyDevice, Memory(poll.buffer))
             /\ \A t \in Threads : Taking(t)' /\ th'[t].dev = ReadyDevice =>
                  Memory(th'[t].buffer) # Memory(poll.buffer)
  <2>1. ReadyDevice \in Devices
    BY <1>3, ReadyIn DEF TypeOK, PollAt
  <2>2. /\ Alone(ReadyDevice, Memory(poll.buffer))
        /\ \A t \in Threads : Taking(t) /\ th[t].dev = ReadyDevice =>
             Memory(th[t].buffer) # Memory(poll.buffer)
    BY <1>3 DEF Dequeued
  <2> QED BY <2>1, <2>2
<1> QED BY <1>1, <1>2, <1>3, DequeuedPrimed DEF PollAt

\* Known, when one more buffer is pending.
LEMMA KnownGrows ==
  ASSUME Known, TypeOK, setup \in Setups, UNCHANGED setup, UNCHANGED poll,
         NEW d \in Devices, NEW b \in Buffers,
         mPendingBuffers'[d] = Append(mPendingBuffers[d], b),
         \A e \in Devices : e # d => mPendingBuffers'[e] = mPendingBuffers[e],
         mBuffersInDevice' = mBuffersInDevice, \A e \in Devices : held'[e] \subseteq held[e],
         \A u \in Threads : Taking(u)' => Taking(u) /\ th'[u] = th[u],
         \A e \in Devices : \A x \in Buffers : Old(e, x) => OldNext(e, x),
         OldNext(d, b)
  PROVE  Known'
<1> DEFINE p == mPendingBuffers[d]
<1>1. p \in Seq(Buffers) /\ ReadyDevice' = ReadyDevice
  BY DEF TypeOK, ReadyDevice
<1>2. /\ \A n \in DOMAIN p : mPendingBuffers'[d][n] = p[n]
      /\ mPendingBuffers'[d][Len(p) + 1] = b
      /\ \A n \in DOMAIN mPendingBuffers'[d] : n \in DOMAIN p \/ n = Len(p) + 1
  <2>1. mPendingBuffers'[d] = Append(p, b)
    OBVIOUS
  <2> HIDE DEF p
  <2> QED BY <1>1, <2>1, Longer
<1>3. /\ \A e \in Devices : \A n \in DOMAIN mPendingBuffers[e] : mPendingBuffers[e][n] \in Buffers
      /\ \A e \in Devices : \A n \in DOMAIN mBuffersInDevice[e] : mBuffersInDevice[e][n] \in Buffers
      /\ \A e \in Devices : \A buffer \in held[e] : buffer \in Buffers
      /\ \A t \in Threads : th[t].buffer \in Buffers /\ th[t].dev \in Devices
      /\ poll.buffer \in Buffers
  BY DEF TypeOK, Calls, PollCalls
<1>4. ASSUME NEW e \in Devices
      PROVE  /\ \A n \in DOMAIN mPendingBuffers'[e] : OldNext(e, mPendingBuffers'[e][n])
             /\ \A n \in DOMAIN mBuffersInDevice'[e] : OldNext(e, mBuffersInDevice'[e][n])
             /\ \A buffer \in held'[e] : OldNext(e, buffer)
  <2>1. /\ \A n \in DOMAIN mPendingBuffers[e] : OldNext(e, mPendingBuffers[e][n])
        /\ \A n \in DOMAIN mBuffersInDevice[e] : OldNext(e, mBuffersInDevice[e][n])
        /\ \A buffer \in held[e] : OldNext(e, buffer)
    BY <1>3 DEF Known
  <2>2. CASE e # d
    BY <2>1, <2>2
  <2>3. CASE e = d
    BY <1>2, <2>1, <2>3
  <2> QED BY <2>2, <2>3
<1>5. \A t \in Threads : Taking(t)' => OldNext(th'[t].dev, th'[t].buffer)
  BY <1>3 DEF Known
<1>6. poll'.pc \in {"grab", "pop", "deliver"} => OldNext(ReadyDevice', poll'.buffer)
  <2>1. poll.pc \in {"grab", "pop", "deliver"} => ReadyDevice \in Devices
    BY ReadyIn DEF TypeOK
  <2> QED BY <1>1, <1>3, <2>1 DEF Known
<1> QED BY <1>4, <1>5, <1>6, KnownPrimed

\* A consumer returns a buffer.
LEMMA ReturnKeeps ==
  ASSUME IInv, UNCHANGED setup, NEW c \in Consumers, ReturnBuffer(c)
  PROVE  IInv'
<1>0. TypeOK /\ Control /\ setup \in Setups /\ c \in Threads
  BY DEF IInv, Control, Threads
<1>01. PICK d \in Devices : \E b \in held[d] :
         /\ mPendingBuffers' = [mPendingBuffers EXCEPT ![d] = Append(mPendingBuffers[d], b)]
         /\ th' = [th EXCEPT ![c] = [NoThread EXCEPT !.pc = "count"]]
         /\ held' = [held EXCEPT ![d] = held[d] \ {b}]
  BY DEF ReturnBuffer, qbuf
<1>1. PICK b \in held[d] :
         /\ mPendingBuffers' = [mPendingBuffers EXCEPT ![d] = Append(mPendingBuffers[d], b)]
         /\ th' = [th EXCEPT ![c] = [NoThread EXCEPT !.pc = "count"]]
         /\ held' = [held EXCEPT ![d] = held[d] \ {b}]
  BY <1>01
<1>2. /\ UNCHANGED <<mState, mExitPending, mFlushFd, mBuffersInDevice, mBufferQueuing,
                     mFrameSkipNum, node, mPollThread, poll, app>>
      /\ At(c, "idle")
  BY DEF ReturnBuffer
<1>3. b \in Buffers /\ mPendingBuffers[d] \in Seq(Buffers)
  BY <1>0 DEF TypeOK
<1>4. /\ mPendingBuffers' \in [Devices -> Seq(Buffers)]
      /\ mPendingBuffers'[d] = Append(mPendingBuffers[d], b)
      /\ \A e \in Devices : e # d => mPendingBuffers'[e] = mPendingBuffers[e]
  BY <1>0, <1>1, <1>3 DEF TypeOK
<1>5. /\ held' \in [Devices -> SUBSET Buffers] /\ \A e \in Devices : held'[e] \subseteq held[e]
      /\ b \notin held'[d]
  BY <1>0, <1>1 DEF TypeOK
<1>6. /\ th' \in [Threads -> Calls] /\ th'[c].pc = "count"
      /\ \A u \in Threads : u # c => th'[u] = th[u]
  <2>1. [NoThread EXCEPT !.pc = "count"] \in Calls /\ [NoThread EXCEPT !.pc = "count"].pc = "count"
    BY <1>0, CallBegins
  <2> QED BY <1>0, <1>1, <2>1, StepsType DEF TypeOK, Steps
<1>7. /\ \A u \in Threads : Queuing(u)' => Queuing(u) /\ th'[u] = th[u]
      /\ \A u \in Threads : Taking(u)' => Taking(u) /\ th'[u] = th[u]
      /\ \A u \in Threads : At(u, "move")' <=> At(u, "move")
      /\ \A u \in Threads : HasFound(u)' => HasFound(u)
  BY <1>2, <1>6 DEF Queuing, Taking, At, HasFound
<1>8. TypeOK'
  <2>1. /\ Devices' = Devices /\ Buffers' = Buffers /\ Calls' = Calls /\ Nodes' = Nodes
        /\ PollCalls' = PollCalls /\ ReadyDevice' = ReadyDevice
    BY <1>2, SameSetup DEF ReadyDevice
  <2> QED BY <1>0, <1>2, <1>4, <1>5, <1>6, <2>1 DEF TypeOK
<1>9. Control'
  <2>1. ~ Quiet /\ Devices' = Devices
    BY <1>1, SameSetup DEF Quiet
  <2>2. th'["app"] = th["app"] /\ th'["poll"] = th["poll"]
    BY <1>6, CaptureAssumption DEF Threads
  <2> QED BY <1>0, <1>2, <2>1, <2>2 DEF Control, PollAt, AppAt, At
<1>10. OneQueues'
  BY <1>2, <1>7, KeepsQueues DEF IInv
<1>11. \A e \in Devices : \A x : Alone(e, x) => AloneNext(e, x)
  BY <1>2, <1>5 DEF Alone, AloneNext
<1>12. OnePlace' /\ Taken'
  <2>1. \A e \in Devices : \A m, n \in DOMAIN mBuffersInDevice'[e] :
            Memory(mBuffersInDevice'[e][m]) = Memory(mBuffersInDevice'[e][n]) => m = n
    BY <1>2 DEF IInv, OnePlace
  <2>2. \A e \in Devices : \A n \in DOMAIN mBuffersInDevice'[e] : \A buffer \in held'[e] :
            Memory(buffer) # Memory(mBuffersInDevice'[e][n])
    BY <1>2, <1>5 DEF IInv, OnePlace
  <2>3. \A e \in Devices : \A x, y \in held'[e] : Memory(x) = Memory(y) => x = y
    BY <1>5 DEF IInv, OnePlace
  <2>4. \A n \in DOMAIN mPendingBuffers[d] : Memory(mPendingBuffers[d][n]) # Memory(b)
    BY <1>1 DEF IInv, OnePlace, Alone
  <2>5. AloneNext(d, Memory(b))
    <3>1. \A n \in DOMAIN mBuffersInDevice[d] : Memory(mBuffersInDevice[d][n]) # Memory(b)
      BY <1>1 DEF IInv, OnePlace
    <3>2. \A x \in held'[d] : Memory(x) # Memory(b)
      BY <1>1, <1>5 DEF IInv, OnePlace
    <3> QED BY <1>2, <3>1, <3>2 DEF AloneNext
  <2>6. \A u \in Threads : Taking(u) /\ th[u].dev = d => Memory(th[u].buffer) # Memory(b)
    BY <1>1 DEF IInv, Taken, Alone
  <2> QED BY <1>0, <1>3, <1>4, <1>7, <1>11, <2>1, <2>2, <2>3, <2>4, <2>5, <2>6, PendingGrows DEF IInv
<1>13. Dequeued'
  <2>1. ASSUME PollAt("deliver"), ~ poll.skip
        PROVE  \A n \in DOMAIN mPendingBuffers'[ReadyDevice] :
                  Memory(mPendingBuffers'[ReadyDevice][n]) # Memory(poll.buffer)
    <3>1. ReadyDevice \in Devices
      BY <1>0, <2>1, ReadyIn DEF TypeOK, PollAt
    <3>2. /\ \A n \in DOMAIN mPendingBuffers[ReadyDevice] :
               Memory(mPendingBuffers[ReadyDevice][n]) # Memory(poll.buffer)
          /\ \A x \in held[ReadyDevice] : Memory(x) # Memory(poll.buffer)
      BY <2>1 DEF IInv, Dequeued, Alone
    <3>3. CASE ReadyDevice # d
      BY <1>4, <3>1, <3>2, <3>3
    <3>4. CASE ReadyDevice = d
      <4> DEFINE p == mPendingBuffers[d]
      <4>1. \A n \in DOMAIN Append(p, b) : n \in DOMAIN p \/ n = Len(p) + 1
        <5> HIDE DEF p
        <5> QED BY <1>3, Longer DEF p
      <4>2. (\A n \in DOMAIN p : Append(p, b)[n] = p[n]) /\ Append(p, b)[Len(p) + 1] = b
        <5> HIDE DEF p
        <5> QED BY <1>3, Longer DEF p
      <4>3. mPendingBuffers'[d] = Append(p, b) /\ Memory(b) # Memory(poll.buffer)
        BY <1>1, <1>4, <3>2, <3>4
      <4>4. \A n \in DOMAIN p : Memory(p[n]) # Memory(poll.buffer)
        BY <3>2, <3>4
      <4> HIDE DEF p
      <4> QED BY <3>4, <4>1, <4>2, <4>3, <4>4
    <3> QED BY <3>3, <3>4
  <2> QED BY <1>0, <1>2, <1>7, <1>11, <2>1, DequeuedKeeps DEF IInv
<1>14. Known'
  <2>1. \A e \in Devices : \A x \in Buffers : Old(e, x) => OldNext(e, x)
    BY <1>2 DEF Old, OldNext, AppAt
  <2>2. OldNext(d, b)
    BY <1>1, <1>3, <2>1 DEF IInv, Known
  <2> QED BY <1>0, <1>2, <1>3, <1>4, <1>5, <1>7, <2>1, <2>2, KnownGrows DEF IInv
<1>15. Room'
  <2>1. Len(mBuffersInDevice'[1]) = Len(mBuffersInDevice[1]) /\ Len(mBuffersInDevice[1]) \in Nat
    BY <1>0, <1>2, RoomFacts
  <2> QED BY <1>0, <1>7, <2>1, KeepsRoom DEF IInv
<1>16. FrontTaken' /\ DriverInStep'
  <2>1. \A e \in Devices : mPendingBuffers[e] # <<>> =>
           mPendingBuffers'[e] # <<>> /\ Head(mPendingBuffers'[e]) = Head(mPendingBuffers[e])
    <3>1. mPendingBuffers[d] # <<>> => /\ Append(mPendingBuffers[d], b) # <<>>
                                       /\ Head(Append(mPendingBuffers[d], b)) = Head(mPendingBuffers[d])
      BY <1>3, HeadAppend
    <3> QED BY <1>4, <3>1
  <2> QED BY <1>0, <1>2, <1>7, <2>1, KeepsDriver DEF IInv, PollAt
<1> QED BY <1>8, <1>9, <1>10, <1>12, <1>13, <1>14, <1>15, <1>16 DEF IInv

-----------------------------------------------------------------------------
(* The poll thread keeps the invariant.                                    *)

\* what no step of the poll thread changes
PollFrame == UNCHANGED <<mState, mExitPending, mFlushFd, mBufferQueuing, app>>

\* Control, when the poll thread has begun.
LEMMA PollControl ==
  ASSUME Control, UNCHANGED setup, PollFrame, ~ PollAt("none"),
         poll'.pc = "none" <=> mPollThread' \in {"NOT_STARTED", "EXITED"},
         At("poll", "idle")' \/ PollAt("deliver")', th'["app"] = th["app"]
  PROVE  Control'
<1>1. Devices' = Devices
  BY SameSetup
<1>2. At("app", "idle")' \/ AppAt("alloc")'
  BY DEF Control, PollFrame, At, AppAt
<1>3. /\ app'.pc \notin {"alloc", "run", "reset", "clearStop", "stopProcessors"}
      /\ ~ (AppAt("idle")' /\ mState' # "CAPTURE_START")
  BY DEF Control, PollFrame, AppAt
<1> QED BY <1>1, <1>2, <1>3 DEF Control, PollFrame, PollAt, AppAt

\* The poll thread has no buffer in its hands.
LEMMA PollMoves ==
  ASSUME IInv, UNCHANGED setup, PollFrame, ~ PollAt("none"), ~ PollAt("pop"), At("poll", "idle"),
         UNCHANGED <<mPendingBuffers, mBuffersInDevice, node, th, held>>,
         mFrameSkipNum' \in [Devices -> Nat], poll' \in PollCalls,
         mPollThread' \in {"RUNNING", "EXITING", "EXITED"},
         poll'.pc = "none" <=> mPollThread' = "EXITED",
         poll'.pc \notin {"grab", "pop", "deliver"}, poll'.pc = "first" => poll'.ready # {}
  PROVE  IInv'
<1>0. TypeOK /\ Control /\ setup \in Setups
  BY DEF IInv, Control
<1>1. TypeOK'
  <2>1. /\ Devices' = Devices /\ Buffers' = Buffers /\ Calls' = Calls /\ Nodes' = Nodes
        /\ PollCalls' = PollCalls
    BY SameSetup
  <2> QED BY <1>0, <2>1 DEF TypeOK, PollFrame
<1>2. Control'
  BY <1>0, PollControl DEF At
<1>3. OneQueues'
  BY KeepsQueues DEF IInv, PollFrame, Queuing
<1>4. OnePlace' /\ Taken' /\ Dequeued' /\ Known'
  BY <1>0, KeepsMemory DEF IInv, PollFrame, AppAt, Taking
<1>5. Room'
  BY DEF IInv, Room, HasFound
<1>6. FrontTaken' /\ DriverInStep'
  BY <1>0, KeepsDriver DEF IInv, PollFrame, PollAt, Taking, At
<1> QED BY <1>1, <1>2, <1>3, <1>4, <1>5, <1>6 DEF IInv

\* The end of poll(): the thread ends, or calls poll() again.
LEMMA EndsOrGoesOn ==
  ASSUME TypeOK, Control, ~ PollAt("none"), ThreadEnds \/ ThreadGoesOn
  PROVE  /\ poll' \in PollCalls /\ mPollThread' \in {"RUNNING", "EXITING", "EXITED"}
         /\ poll'.pc = "none" <=> mPollThread' = "EXITED"
         /\ poll'.pc \in {"none", "entry"}
<1>1. setup \in Setups /\ poll \in PollCalls /\ mPollThread \in {"RUNNING", "EXITING"}
  BY DEF Control, TypeOK
<1>2. /\ [NoPoll EXCEPT !.pc = "entry"] \in PollCalls /\ [NoPoll EXCEPT !.pc = "entry"].pc = "entry"
      /\ NoPoll \in PollCalls /\ NoPoll.pc = "none"
  BY <1>1, SetupFacts DEF NoPoll, PollCalls, PollPoints
<1> QED BY <1>1, <1>2 DEF ThreadEnds, ThreadGoesOn

\* The poll thread goes to another point.
LEMMA Moves ==
  ASSUME TypeOK, Control, ~ PollAt("none"), NEW pc \in PollPoints \ {"none"}, PollGoto(pc),
         UNCHANGED mPollThread
  PROVE  /\ poll' \in PollCalls /\ mPollThread' \in {"RUNNING", "EXITING", "EXITED"}
         /\ poll'.pc = "none" <=> mPollThread' = "EXITED"
         /\ poll'.pc = pc /\ poll'.ready = poll.ready
<1>1. setup \in Setups /\ poll \in PollCalls /\ mPollThread \in {"RUNNING", "EXITING"}
  BY DEF Control, TypeOK
<1>2. poll' \in PollCalls /\ poll'.pc = pc /\ poll'.ready = poll.ready
  BY <1>1 DEF PollGoto, PollCalls
<1> QED BY <1>1, <1>2

\* The poll thread is done with a device.
LEMMA Done ==
  ASSUME TypeOK, Control, ~ PollAt("none"), DeviceDone, UNCHANGED mPollThread
  PROVE  /\ poll' \in PollCalls /\ mPollThread' \in {"RUNNING", "EXITING", "EXITED"}
         /\ poll'.pc = "none" <=> mPollThread' = "EXITED"
         /\ poll'.pc = "handled"
<1>1. setup \in Setups /\ poll \in PollCalls /\ mPollThread \in {"RUNNING", "EXITING"}
  BY DEF Control, TypeOK
<1> DEFINE S == poll.ready \ {ReadyDevice}
<1>2. S \in SUBSET Devices /\ poll' = [poll EXCEPT !.pc = "handled", !.ready = S]
  BY <1>1 DEF PollCalls, DeviceDone
<1> HIDE DEF S
<1>3. poll' \in PollCalls /\ poll'.pc = "handled"
  BY <1>1, <1>2 DEF PollCalls, PollPoints
<1> QED BY <1>1, <1>3

\* The steps around the wait.
LEMMA WaitKeeps ==
  ASSUME IInv, UNCHANGED setup,
         \/ PollBegins \/ PollEntry \/ PollLoop \/ PollTimeout \/ PollReports \/ PollChecks
         \/ PollHandled
  PROVE  IInv'
<1>0. TypeOK /\ Control /\ setup \in Setups /\ mFrameSkipNum \in [Devices -> Nat]
  BY DEF IInv, Control, TypeOK
<1>1. /\ PollFrame /\ UNCHANGED <<mPendingBuffers, mBuffersInDevice, node, th, held, mFrameSkipNum>>
      /\ poll.pc \in {"begin", "entry", "loop", "wait", "ready", "timeout", "error", "handled"}
  BY DEF PollBegins, PollEntry, PollLoop, PollTimeout, PollReports, PollChecks, PollHandled,
         PollFrame, PollAt
<1>2. ~ PollAt("none") /\ ~ PollAt("pop") /\ At("poll", "idle")
  BY <1>0, <1>1 DEF PollAt, Control
<1>3. \/ ThreadEnds \/ ThreadGoesOn
      \/ UNCHANGED mPollThread /\ \E pc \in {"loop", "wait", "timeout", "error"} : PollGoto(pc)
      \/ UNCHANGED mPollThread /\ PollGoto("first") /\ poll.ready # {}
      \/ /\ UNCHANGED mPollThread
         /\ \E S \in SUBSET Devices : poll' = [poll EXCEPT !.pc = "ready", !.ready = S]
  BY DEF PollBegins, PollEntry, PollLoop, PollTimeout, PollReports, PollChecks, PollHandled
<1>4. CASE ThreadEnds \/ ThreadGoesOn
  <2>1. /\ poll' \in PollCalls /\ mPollThread' \in {"RUNNING", "EXITING", "EXITED"}
        /\ poll'.pc = "none" <=> mPollThread' = "EXITED"
        /\ poll'.pc \in {"none", "entry"}
    BY <1>0, <1>2, <1>4, EndsOrGoesOn
  <2> QED BY <1>0, <1>1, <1>2, <2>1, PollMoves
<1>5. ASSUME NEW pc \in {"loop", "wait", "timeout", "error", "first"}, PollGoto(pc),
             UNCHANGED mPollThread, pc = "first" => poll.ready # {}
      PROVE  IInv'
  <2>1. /\ poll' \in PollCalls /\ mPollThread' \in {"RUNNING", "EXITING", "EXITED"}
        /\ poll'.pc = "none" <=> mPollThread' = "EXITED"
        /\ poll'.pc = pc /\ poll'.ready = poll.ready
    BY <1>0, <1>2, <1>5, Moves DEF PollPoints
  <2> QED BY <1>0, <1>1, <1>2, <1>5, <2>1, PollMoves
<1>6. ASSUME NEW S \in SUBSET Devices, poll' = [poll EXCEPT !.pc = "ready", !.ready = S],
             UNCHANGED mPollThread
      PROVE  IInv'
  <2>1. poll \in PollCalls /\ mPollThread \in {"RUNNING", "EXITING"}
    BY <1>0, <1>2 DEF Control, TypeOK
  <2>2. poll' \in PollCalls /\ poll'.pc = "ready"
    BY <1>6, <2>1 DEF PollCalls, PollPoints
  <2> QED BY <1>0, <1>1, <1>2, <1>6, <2>1, <2>2, PollMoves
<1> QED BY <1>3, <1>4, <1>5, <1>6

\* The types, when the poll thread goes on with a device.
LEMMA PollType ==
  ASSUME TypeOK, UNCHANGED setup, PollFrame, UNCHANGED mPollThread,
         th' \in [Threads -> Calls], mPendingBuffers' \in [Devices -> Seq(Buffers)],
         mBuffersInDevice' \in [Devices -> Seq(Buffers)], mFrameSkipNum' \in [Devices -> Nat],
         node' \in [Devices -> Nodes], held' \in [Devices -> SUBSET Buffers],
         poll' \in PollCalls,
         poll'.pc \in {"first", "grab", "pop", "deliver"} => poll'.ready # {},
         poll'.pc \in {"grab", "pop"} => mBuffersInDevice'[ReadyDevice'] # <<>>
  PROVE  TypeOK'
<1>1. /\ Devices' = Devices /\ Buffers' = Buffers /\ Calls' = Calls /\ Nodes' = Nodes
      /\ PollCalls' = PollCalls
  BY SameSetup
<1> QED BY <1>1 DEF TypeOK, PollFrame

\* dequeueBuffer takes the front of the list.
LEMMA FirstKeeps ==
  ASSUME IInv, UNCHANGED setup, FirstInDevice
  PROVE  IInv'
<1> DEFINE d == ReadyDevice
           l == mBuffersInDevice[d]
<1>0. TypeOK /\ Control /\ setup \in Setups /\ mFrameSkipNum \in [Devices -> Nat]
  BY DEF IInv, Control, TypeOK
<1>1. /\ PollFrame /\ PollAt("first")
      /\ UNCHANGED <<mPendingBuffers, mBuffersInDevice, node, th, held, mFrameSkipNum, mPollThread>>
  BY DEF FirstInDevice, PollFrame
<1>2. ~ PollAt("none") /\ ~ PollAt("pop") /\ At("poll", "idle")
  BY <1>0, <1>1 DEF PollAt, Control
<1>3. d \in Devices /\ l \in Seq(Buffers) /\ poll \in PollCalls
  BY <1>0, <1>1, ReadyIn DEF TypeOK, PollAt
<1>4. CASE l = <<>>
  <2>1. DeviceDone
    BY <1>4 DEF FirstInDevice
  <2>2. /\ poll' \in PollCalls /\ mPollThread' \in {"RUNNING", "EXITING", "EXITED"}
        /\ poll'.pc = "none" <=> mPollThread' = "EXITED"
        /\ poll'.pc = "handled"
    BY <1>0, <1>1, <1>2, <2>1, Done
  <2> QED BY <1>0, <1>1, <1>2, <2>2, PollMoves
<1>5. CASE l # <<>>
  <2> DEFINE b == Head(l)
  <2>1. b \in Buffers /\ poll' = [poll EXCEPT !.pc = "grab", !.buffer = b]
        /\ b = l[1] /\ 1 \in DOMAIN l
    BY <1>3, <1>5, Fronts DEF FirstInDevice
  <2>2. /\ poll' \in PollCalls /\ poll'.pc = "grab" /\ poll'.ready = poll.ready
        /\ poll'.buffer = b /\ ReadyDevice' = d
    <3> HIDE DEF b
    <3>1. poll' \in PollCalls /\ poll'.pc = "grab" /\ poll'.ready = poll.ready /\ poll'.buffer = b
      BY <1>3, <2>1 DEF PollCalls, PollPoints
    <3> QED BY <3>1 DEF ReadyDevice
  <2>3. TypeOK'
    <3>1. poll'.ready # {} /\ mBuffersInDevice'[ReadyDevice'] # <<>>
      BY <1>0, <1>1, <1>5, <2>2 DEF TypeOK, PollAt
    <3> QED BY <1>0, <1>1, <2>2, <3>1, PollType DEF TypeOK
  <2>4. Control'
    <3>1. poll'.pc = "none" <=> mPollThread' \in {"NOT_STARTED", "EXITED"}
      BY <1>0, <1>1, <1>2, <2>2 DEF Control, PollAt
    <3> QED BY <1>0, <1>1, <1>2, <3>1, PollControl DEF At
  <2>5. OneQueues'
    BY <1>1, KeepsQueues DEF IInv, PollFrame, Queuing
  <2>6. OnePlace'
    <3>1. ASSUME NEW e \in Devices PROVE OnePlaceNext(e)
      BY <1>1 DEF IInv, OnePlace, OnePlaceNext, Alone, AloneNext
    <3> QED BY <3>1, OnePlacePrimed
  <2>7. Taken'
    <3>1. \A e, x : Alone(e, x) => AloneNext(e, x)
      BY <1>1 DEF Alone, AloneNext
    <3> QED BY <1>1, <3>1, TakenPrimed DEF IInv, Taken, Taking
  <2>8. Dequeued'
    BY <1>1, <2>2, DequeuedPrimed
  <2>9. Known'
    <3>1. \A e, x : Old(e, x) => OldNext(e, x)
      BY <1>1 DEF Old, OldNext, AppAt, PollFrame
    <3>2. OldNext(d, b)
      BY <1>3, <2>1, <3>1 DEF IInv, Known
    <3>3. \A e \in Devices :
           /\ \A n \in DOMAIN mPendingBuffers'[e] : OldNext(e, mPendingBuffers'[e][n])
           /\ \A n \in DOMAIN mBuffersInDevice'[e] : OldNext(e, mBuffersInDevice'[e][n])
           /\ \A buffer \in held'[e] : OldNext(e, buffer)
      BY <1>1, <3>1 DEF IInv, Known
    <3>4. \A t \in Threads : Taking(t)' => OldNext(th'[t].dev, th'[t].buffer)
      BY <1>1, <3>1 DEF IInv, Known, Taking
    <3> QED BY <2>2, <3>2, <3>3, <3>4, KnownPrimed
  <2>10. Room'
    BY <1>1 DEF IInv, Room, HasFound
  <2>11. FrontTaken' /\ DriverInStep'
    BY <1>0, <1>1, <1>2, <2>2, KeepsDriver DEF IInv, PollFrame, PollAt, Taking, At
  <2> QED BY <2>3, <2>4, <2>5, <2>6, <2>7, <2>8, <2>9, <2>10, <2>11 DEF IInv
<1> QED BY <1>4, <1>5

\* VIDIOC_DQBUF: what it does.
LEMMA GrabEffect ==
  ASSUME TypeOK, setup \in Setups, GrabFrame, Filled(ReadyDevice)
  PROVE  LET d == ReadyDevice
             front == Head(node[d].queue)
             l == mBuffersInDevice[d]
         IN  /\ PollFrame /\ PollAt("grab") /\ d \in Devices
             /\ UNCHANGED <<mPendingBuffers, th, held, mFrameSkipNum, mPollThread>>
             /\ node[d].queue # <<>> /\ node[d].queue \in Seq(Indices)
             /\ l # <<>> /\ l \in Seq(Buffers)
             /\ node' \in [Devices -> Nodes] /\ mBuffersInDevice' \in [Devices -> Seq(Buffers)]
             /\ \A e \in Devices : e # d => node'[e] = node[e] /\ mBuffersInDevice'[e] = mBuffersInDevice[e]
             /\ node'[d].queue = Tail(node[d].queue)
             /\ DOMAIN mBuffersInDevice'[d] = DOMAIN l /\ Len(mBuffersInDevice'[d]) = Len(l)
             /\ \A n \in DOMAIN l : n # 1 => mBuffersInDevice'[d][n] = l[n]
             /\ mBuffersInDevice'[d][1] = poll'.buffer
             /\ poll' \in PollCalls /\ poll'.pc = "pop" /\ ReadyDevice' = d
             /\ poll'.ready = poll.ready
             /\ poll'.buffer \in Buffers /\ Memory(poll'.buffer) = Memory(poll.buffer)
             /\ poll'.buffer.session = poll.buffer.session
             /\ poll'.buffer.memory = poll.buffer.memory
<1> DEFINE d == ReadyDevice
           front == Head(node[d].queue)
           l == mBuffersInDevice[d]
           g == [poll.buffer EXCEPT !.index = front]
<1>1. /\ PollFrame /\ PollAt("grab")
      /\ UNCHANGED <<mPendingBuffers, th, held, mFrameSkipNum, mPollThread>>
  BY DEF GrabFrame, PollFrame
<1>2. /\ d \in Devices /\ l # <<>> /\ l \in Seq(Buffers) /\ poll \in PollCalls
      /\ poll.buffer \in Buffers /\ node \in [Devices -> Nodes] /\ node[d] \in Nodes
      /\ mBuffersInDevice \in [Devices -> Seq(Buffers)]
  BY <1>1, ReadyIn DEF TypeOK, PollAt, PollCalls
<1>3. node[d].queue # <<>> /\ node[d].queue \in Seq(Indices)
  BY <1>2 DEF Filled, Nodes
<1>4. front \in Indices /\ Tail(node[d].queue) \in Seq(Indices)
  <2> HIDE DEF d
  <2> QED BY <1>3, Fronts
<1>5. /\ node' = [node EXCEPT ![d].queue = Tail(@)]
      /\ mBuffersInDevice' = [mBuffersInDevice EXCEPT ![d][1] = g]
      /\ \E bad \in {FALSE, FrameErrors} :
            poll' = [poll EXCEPT !.pc = "pop", !.buffer = g, !.skip = bad \/ mFrameSkipNum[d] > 0]
  BY DEF GrabFrame
<1>6. /\ g \in Buffers /\ g.session = poll.buffer.session /\ g.memory = poll.buffer.memory
      /\ Memory(g) = Memory(poll.buffer)
  <2>1. g \in Buffers /\ g.session = poll.buffer.session /\ g.memory = poll.buffer.memory
    <3> HIDE DEF front
    <3> QED BY <1>2, <1>4 DEF Buffers
  <2> HIDE DEF g
  <2> QED BY <2>1 DEF Memory
<1> DEFINE q == Tail(node[d].queue)
           m == [node[d] EXCEPT !.queue = q]
           k == [l EXCEPT ![1] = g]
<1>7. m \in Nodes /\ m.queue = q
  <2> HIDE DEF q, d
  <2> QED BY <1>2, <1>4 DEF Nodes, q
<1>8. /\ node' \in [Devices -> Nodes] /\ node'[d].queue = q
      /\ \A e \in Devices : e # d => node'[e] = node[e]
  <2>1. node' = [node EXCEPT ![d] = m]
    BY <1>5
  <2> HIDE DEF m, q, d
  <2> QED BY <1>2, <1>7, <2>1
<1>9. /\ k \in Seq(Buffers) /\ DOMAIN k = DOMAIN l /\ Len(k) = Len(l) /\ k[1] = g
      /\ \A n \in DOMAIN l : n # 1 => k[n] = l[n]
  <2>1. 1 \in DOMAIN l /\ DOMAIN l = 1..Len(l) /\ Len(l) \in Nat /\ \A n \in 1..Len(l) : l[n] \in Buffers
    <3> HIDE DEF l
    <3> QED BY <1>2, Fronts
  <2> HIDE DEF g, l
  <2>2. DOMAIN k = DOMAIN l /\ k[1] = g /\ \A n \in DOMAIN l : n # 1 => k[n] = l[n]
    BY <2>1
  <2>3. k \in Seq(Buffers)
    <3>1. k \in [1..Len(l) -> Buffers]
      BY <1>6, <2>1
    <3> QED BY <2>1, <3>1, SeqDef
  <2>4. Len(k) = Len(l)
    BY <2>1, <2>2, <2>3, LenProperties
  <2> QED BY <2>2, <2>3, <2>4
<1>10. /\ mBuffersInDevice' \in [Devices -> Seq(Buffers)] /\ mBuffersInDevice'[d] = k
       /\ \A e \in Devices : e # d => mBuffersInDevice'[e] = mBuffersInDevice[e]
  <2>1. mBuffersInDevice' = [mBuffersInDevice EXCEPT ![d] = k]
    BY <1>5
  <2> HIDE DEF k, d
  <2> QED BY <1>2, <1>9, <2>1
<1>11. /\ poll' \in PollCalls /\ poll'.pc = "pop" /\ poll'.ready = poll.ready /\ poll'.buffer = g
       /\ ReadyDevice' = d
  <2>1. PICK bad \in {FALSE, FrameErrors} :
            poll' = [poll EXCEPT !.pc = "pop", !.buffer = g, !.skip = bad \/ mFrameSkipNum[d] > 0]
    BY <1>5
  <2> DEFINE s == bad \/ mFrameSkipNum[d] > 0
  <2>2. s \in BOOLEAN /\ poll' = [poll EXCEPT !.pc = "pop", !.buffer = g, !.skip = s]
    BY <2>1
  <2> HIDE DEF s, g
  <2>3. poll' \in PollCalls /\ poll'.pc = "pop" /\ poll'.ready = poll.ready /\ poll'.buffer = g
    BY <1>2, <1>6, <2>2 DEF PollCalls, PollPoints
  <2> QED BY <2>3 DEF ReadyDevice
<1> HIDE DEF g, k
<1> QED BY <1>1, <1>2, <1>3, <1>6, <1>8, <1>9, <1>10, <1>11

\* VIDIOC_DQBUF: the driver's oldest frame is in the front of the list.
LEMMA GrabKeeps ==
  ASSUME IInv, UNCHANGED setup, GrabFrame
  PROVE  IInv'
<1> DEFINE d == ReadyDevice
           l == mBuffersInDevice[d]
           k == mBuffersInDevice'[d]
<1>0. TypeOK /\ Control /\ setup \in Setups /\ mFrameSkipNum \in [Devices -> Nat]
  BY DEF IInv, Control, TypeOK
<1>1. PollAt("grab") /\ ~ PollAt("none") /\ ~ PollAt("pop") /\ At("poll", "idle")
  BY <1>0 DEF PollAt, Control, GrabFrame
<1>2. CASE ~ Filled(d)
  <2>1. /\ DeviceDone /\ PollFrame
        /\ UNCHANGED <<mPendingBuffers, mBuffersInDevice, node, th, held, mFrameSkipNum, mPollThread>>
    BY <1>2 DEF GrabFrame, PollFrame
  <2>2. /\ poll' \in PollCalls /\ mPollThread' \in {"RUNNING", "EXITING", "EXITED"}
        /\ poll'.pc = "none" <=> mPollThread' = "EXITED"
        /\ poll'.pc = "handled"
    BY <1>0, <1>1, <2>1, Done
  <2> QED BY <1>0, <1>1, <2>1, <2>2, PollMoves
<1>3. CASE Filled(d)
  <2>1. /\ PollFrame /\ d \in Devices
        /\ UNCHANGED <<mPendingBuffers, th, held, mFrameSkipNum, mPollThread>>
        /\ node[d].queue # <<>> /\ node[d].queue \in Seq(Indices)
        /\ l # <<>> /\ l \in Seq(Buffers)
        /\ node' \in [Devices -> Nodes] /\ mBuffersInDevice' \in [Devices -> Seq(Buffers)]
        /\ \A e \in Devices : e # d => node'[e] = node[e] /\ mBuffersInDevice'[e] = mBuffersInDevice[e]
        /\ node'[d].queue = Tail(node[d].queue)
        /\ DOMAIN k = DOMAIN l /\ Len(k) = Len(l)
        /\ \A n \in DOMAIN l : n # 1 => k[n] = l[n]
        /\ k[1] = poll'.buffer
        /\ poll' \in PollCalls /\ poll'.pc = "pop" /\ ReadyDevice' = d
        /\ poll'.ready = poll.ready
        /\ poll'.buffer \in Buffers /\ Memory(poll'.buffer) = Memory(poll.buffer)
        /\ poll'.buffer.session = poll.buffer.session
        /\ poll'.buffer.memory = poll.buffer.memory
    BY <1>0, <1>3, GrabEffect
  <2>2. /\ Head(l) = l[1] /\ 1 \in DOMAIN l /\ Len(l) \in Nat /\ Len(l) >= 1
        /\ DOMAIN l = 1..Len(l)
    <3> HIDE DEF l
    <3> QED BY <2>1, Fronts
  <2>3. k \in Seq(Buffers) /\ k # <<>> /\ Head(k) = k[1]
    <3>1. k \in Seq(Buffers)
      BY <2>1
    <3> HIDE DEF k, l
    <3>2. k # <<>>
      BY <2>1, <2>2
    <3> QED BY <3>1, <3>2, Fronts
  <2>4. \A e \in Devices : /\ DOMAIN mBuffersInDevice'[e] = DOMAIN mBuffersInDevice[e]
                           /\ \A n \in DOMAIN mBuffersInDevice[e] :
                                 Memory(mBuffersInDevice'[e][n]) = Memory(mBuffersInDevice[e][n])
    <3>1. Memory(k[1]) = Memory(l[1])
      BY <1>1, <2>1, <2>2 DEF IInv, Dequeued, PollAt
    <3>2. \A n \in DOMAIN l : Memory(k[n]) = Memory(l[n])
      BY <2>1, <3>1
    <3> QED BY <2>1, <3>2
  <2>5. \A e \in Devices : \A x : Alone(e, x) <=> AloneNext(e, x)
    BY <2>1, <2>4 DEF Alone, AloneNext
  <2>6. TypeOK'
    <3>1. poll'.ready # {} /\ mBuffersInDevice'[ReadyDevice'] # <<>>
      BY <1>0, <1>1, <2>1, <2>3 DEF TypeOK, PollAt
    <3> QED BY <1>0, <2>1, <3>1, PollType DEF TypeOK
  <2>7. Control'
    <3>1. poll'.pc = "none" <=> mPollThread' \in {"NOT_STARTED", "EXITED"}
      BY <1>0, <1>1, <2>1 DEF Control, PollAt
    <3> QED BY <1>0, <1>1, <2>1, <3>1, PollControl DEF At
  <2>8. OneQueues'
    BY <2>1, KeepsQueues DEF IInv, PollFrame, Queuing
  <2>9. OnePlace'
    <3>1. ASSUME NEW e \in Devices PROVE OnePlaceNext(e)
      <4>1. \A n \in DOMAIN mPendingBuffers'[e] : AloneNext(e, Memory(mPendingBuffers'[e][n]))
        BY <2>1, <2>5 DEF IInv, OnePlace
      <4>2. \A m, n \in DOMAIN mBuffersInDevice'[e] :
              Memory(mBuffersInDevice'[e][m]) = Memory(mBuffersInDevice'[e][n]) => m = n
        BY <2>4 DEF IInv, OnePlace
      <4>3. \A n \in DOMAIN mBuffersInDevice'[e] : \A buffer \in held'[e] :
              Memory(buffer) # Memory(mBuffersInDevice'[e][n])
        BY <2>1, <2>4 DEF IInv, OnePlace
      <4> QED BY <2>1, <4>1, <4>2, <4>3 DEF IInv, OnePlace, OnePlaceNext
    <3> QED BY <3>1, OnePlacePrimed
  <2>10. Taken'
    <3>1. SUFFICES ASSUME NEW u \in Threads, Taking(u)'
                   PROVE  /\ AloneNext(th'[u].dev, Memory(th'[u].buffer))
                          /\ \A n \in DOMAIN mPendingBuffers'[th'[u].dev] :
                               Memory(mPendingBuffers'[th'[u].dev][n]) = Memory(th'[u].buffer) => n = 1
      BY TakenPrimed
    <3>2. Taking(u) /\ th' = th /\ th[u].dev \in Devices
      BY <1>0, <2>1, <3>1 DEF TypeOK, Calls, Taking
    <3> QED BY <2>1, <2>5, <3>2 DEF IInv, Taken
  <2>11. Dequeued'
    BY <2>1, <2>3, DequeuedPrimed
  <2>12. Known'
    <3>1. \A e, x : Old(e, x) => OldNext(e, x)
      BY <2>1 DEF Old, OldNext, AppAt, PollFrame
    <3>2. OldNext(d, poll'.buffer)
      <4>1. Old(d, poll.buffer)
        BY <1>1 DEF IInv, Known, PollAt
      <4>2. OldNext(d, poll.buffer)
        BY <3>1, <4>1
      <4> QED BY <2>1, <4>2 DEF OldNext
    <3>3. \A e \in Devices :
           /\ \A n \in DOMAIN mPendingBuffers'[e] : OldNext(e, mPendingBuffers'[e][n])
           /\ \A n \in DOMAIN mBuffersInDevice'[e] : OldNext(e, mBuffersInDevice'[e][n])
           /\ \A buffer \in held'[e] : OldNext(e, buffer)
      BY <2>1, <3>1, <3>2, ZenonT(60) DEF IInv, Known
    <3>4. \A t \in Threads : Taking(t)' => OldNext(th'[t].dev, th'[t].buffer)
      BY <2>1, <3>1 DEF IInv, Known, Taking
    <3> QED BY <2>1, <3>2, <3>3, <3>4, KnownPrimed
  <2>13. Room'
    <3>1. 1 \in Devices /\ Len(mBuffersInDevice[1]) \in Nat
      BY <1>0, RoomFacts, SetupFacts
    <3>2. Len(mBuffersInDevice'[1]) = Len(mBuffersInDevice[1])
      BY <2>1, <3>1
    <3> QED BY <2>1, <3>2 DEF IInv, Room, HasFound
  <2>14. FrontTaken'
    BY <2>1 DEF IInv, FrontTaken, Taking, PollFrame
  <2>15. DriverInStep'
    <3>1. SUFFICES ASSUME ~ app.stopped, NEW e \in Devices PROVE InStep(e)'
      BY <2>1, DriverPrimed DEF PollFrame
    <3>2. InStep(e)
      BY <3>1 DEF IInv, DriverInStep, InStep
    <3>3. CASE e # d
      <4>1. QueuedIn(e)' = QueuedIn(e)
        BY <1>1, <2>1, <3>3 DEF QueuedIn, PollAt
      <4>2. InDriver(e)' = InDriver(e)
        BY <2>1, <4>1, SameMoving DEF At
      <4> QED BY <2>1, <3>2, <3>3, <4>2 DEF InStep
    <3>4. CASE e = d
      <4>1. Tail(k) = Tail(l)
        <5> HIDE DEF k, l
        <5>1. /\ Tail(k) \in Seq(Buffers) /\ Len(Tail(k)) = Len(k) - 1
              /\ \A n \in 1..Len(k) - 1 : Tail(k)[n] = k[n + 1]
          BY <2>3, Fronts
        <5>2. /\ Tail(l) \in Seq(Buffers) /\ Len(Tail(l)) = Len(l) - 1
              /\ \A n \in 1..Len(l) - 1 : Tail(l)[n] = l[n + 1]
          BY <2>1, Fronts
        <5>3. \A n \in 1..Len(l) - 1 : n + 1 \in DOMAIN l /\ n + 1 # 1
          BY <2>2
        <5>4. \A n \in 1..Len(l) - 1 : Tail(k)[n] = Tail(l)[n]
          BY <2>1, <5>1, <5>2, <5>3, ZenonT(60)
        <5> QED BY <2>1, <5>1, <5>2, <5>4, SeqEqual
      <4>2. QueuedIn(e) = l /\ QueuedIn(e)' = Tail(l)
        BY <1>1, <2>1, <3>4, <4>1 DEF QueuedIn, PollAt
      <4>3. InDriver(e)' = Tail(InDriver(e)) /\ InDriver(e) # <<>> /\ InDriver(e) \in Seq(Buffers)
        <5>1. CASE \A u \in Threads : ~ (At(u, "move") /\ th[u].dev = e)
          <6>1. \A u \in Threads : ~ (At(u, "move")' /\ th'[u].dev = e)
            BY <2>1, <5>1 DEF At
          <6> QED BY <2>1, <4>2, <5>1, <6>1, NotMoving
        <5>2. ASSUME NEW t \in Threads, At(t, "move") /\ th[t].dev = e
              PROVE  InDriver(e)' = Tail(InDriver(e)) /\ InDriver(e) # <<>> /\ InDriver(e) \in Seq(Buffers)
          <6> DEFINE b == th[t].buffer
          <6>1. \A u \in Threads : At(u, "move") /\ th[u].dev = e <=> u = t
            BY <5>2 DEF IInv, OneQueues, Queuing, At
          <6>2. \A u \in Threads : At(u, "move")' /\ th'[u].dev = e <=> u = t
            BY <2>1, <6>1 DEF At
          <6>3. InDriver(e) = Append(l, b) /\ InDriver(e)' = Append(Tail(l), b)
            <7>1. InDriver(e) = Append(QueuedIn(e), th[t].buffer)
              BY <6>1, IsMoving
            <7>2. InDriver(e)' = Append(QueuedIn(e)', th'[t].buffer)
              BY <6>2, IsMoving
            <7> QED BY <2>1, <4>2, <7>1, <7>2
          <6>4. b \in Buffers
            BY <1>0 DEF TypeOK, Calls
          <6>5. Append(l, b) # <<>> /\ Append(l, b) \in Seq(Buffers) /\ Tail(Append(l, b)) = Append(Tail(l), b)
            <7> HIDE DEF l, b
            <7> QED BY <2>1, <6>4, Longer, Lists, TailAppend
          <6> QED BY <6>3, <6>5
        <5> QED BY <5>1, <5>2
      <4> DEFINE q == node[d].queue
                 i == InDriver(d)
      <4>4. q \in Seq(Indices) /\ q # <<>> /\ i \in Seq(Buffers) /\ i # <<>>
        BY <2>1, <3>4, <4>3
      <4>5. Len(q) = Len(i) /\ \A n \in DOMAIN q : q[n] = i[n].index
        BY <3>2, <3>4 DEF InStep
      <4> HIDE DEF q, i
      <4>6. /\ Len(q) \in Nat /\ Len(q) >= 1 /\ DOMAIN q = 1..Len(q)
            /\ Len(Tail(q)) = Len(q) - 1 /\ DOMAIN Tail(q) = 1..Len(q) - 1
            /\ \A n \in 1..Len(q) - 1 : Tail(q)[n] = q[n + 1]
        BY <4>4, Fronts
      <4>7. /\ Len(Tail(i)) = Len(i) - 1 /\ \A n \in 1..Len(i) - 1 : Tail(i)[n] = i[n + 1]
        BY <4>4, Fronts
      <4>8. /\ Len(Tail(q)) = Len(Tail(i)) /\ \A n \in DOMAIN Tail(q) : Tail(q)[n] = Tail(i)[n].index
        <5>1. \A n \in 1..Len(q) - 1 : n + 1 \in DOMAIN q
          BY <4>6
        <5> QED BY <4>5, <4>6, <4>7, <5>1
      <4>9. node'[e].queue = Tail(q) /\ InDriver(e)' = Tail(i)
        BY <2>1, <3>4, <4>3 DEF q, i
      <4> QED BY <4>8, <4>9 DEF InStep
    <3> QED BY <3>3, <3>4
  <2> QED BY <2>6, <2>7, <2>8, <2>9, <2>10, <2>11, <2>12, <2>13, <2>14, <2>15 DEF IInv
<1> QED BY <1>2, <1>3

\* popBufferFromDevice: what it does.
LEMMA PopEffect ==
  ASSUME TypeOK, Control, PopFromDevice
  PROVE  LET d == ReadyDevice
             l == mBuffersInDevice[d]
         IN  /\ PollFrame /\ PollAt("pop") /\ d \in Devices /\ l # <<>> /\ l \in Seq(Buffers)
             /\ UNCHANGED <<held, mFrameSkipNum, mPollThread, node>>
             /\ mBuffersInDevice' \in [Devices -> Seq(Buffers)]
             /\ mBuffersInDevice'[d] = Tail(l)
             /\ \A e \in Devices : e # d => mBuffersInDevice'[e] = mBuffersInDevice[e]
             /\ mPendingBuffers' \in [Devices -> Seq(Buffers)]
             /\ \A e \in Devices : e # d => mPendingBuffers'[e] = mPendingBuffers[e]
             /\ mPendingBuffers'[d] = IF poll.skip THEN Append(mPendingBuffers[d], poll.buffer)
                                      ELSE mPendingBuffers[d]
             /\ poll' \in PollCalls /\ poll'.pc = "deliver" /\ poll'.ready = poll.ready
             /\ poll'.buffer = poll.buffer /\ poll'.skip = poll.skip /\ ReadyDevice' = d
             /\ poll.buffer \in Buffers
             /\ th' \in [Threads -> Calls] /\ \A u \in Threads : u # "poll" => th'[u] = th[u]
             /\ At("poll", "idle") /\ th'["poll"].pc \in {"idle", "count"}
<1> DEFINE d == ReadyDevice
           l == mBuffersInDevice[d]
<1>1. /\ PollFrame /\ PollAt("pop")
      /\ UNCHANGED <<held, mFrameSkipNum, mPollThread, node>>
      /\ mBuffersInDevice' = [mBuffersInDevice EXCEPT ![d] = Tail(l)]
      /\ mPendingBuffers' = IF poll.skip
                            THEN [mPendingBuffers EXCEPT ![d] = Append(mPendingBuffers[d], poll.buffer)]
                            ELSE mPendingBuffers
      /\ \/ th' = [th EXCEPT !["poll"] = [NoThread EXCEPT !.pc = "count"]]
         \/ UNCHANGED th
      /\ poll' = [poll EXCEPT !.pc = "deliver"]
  BY DEF PopFromDevice, PollFrame, PollGoto
<1>2. /\ setup \in Setups /\ d \in Devices /\ l # <<>> /\ l \in Seq(Buffers) /\ poll \in PollCalls
      /\ poll.buffer \in Buffers /\ mBuffersInDevice \in [Devices -> Seq(Buffers)]
      /\ mPendingBuffers \in [Devices -> Seq(Buffers)] /\ th \in [Threads -> Calls]
      /\ At("poll", "idle") /\ "poll" \in Threads
  BY <1>1, ReadyIn DEF TypeOK, PollAt, PollCalls, Control, Threads
<1>3. Tail(l) \in Seq(Buffers) /\ Append(mPendingBuffers[d], poll.buffer) \in Seq(Buffers)
  <2>1. mPendingBuffers[d] \in Seq(Buffers)
    BY <1>2
  <2> HIDE DEF l, d
  <2> QED BY <1>2, <2>1, Fronts, Lists
<1>4. /\ mBuffersInDevice' \in [Devices -> Seq(Buffers)] /\ mBuffersInDevice'[d] = Tail(l)
      /\ \A e \in Devices : e # d => mBuffersInDevice'[e] = mBuffersInDevice[e]
  <2> HIDE DEF l, d
  <2> QED BY <1>1, <1>2, <1>3
<1>5. /\ mPendingBuffers' \in [Devices -> Seq(Buffers)]
      /\ \A e \in Devices : e # d => mPendingBuffers'[e] = mPendingBuffers[e]
      /\ mPendingBuffers'[d] = IF poll.skip THEN Append(mPendingBuffers[d], poll.buffer)
                               ELSE mPendingBuffers[d]
  <2> HIDE DEF d
  <2> QED BY <1>1, <1>2, <1>3
<1>6. /\ poll' \in PollCalls /\ poll'.pc = "deliver" /\ poll'.ready = poll.ready
      /\ poll'.buffer = poll.buffer /\ poll'.skip = poll.skip /\ ReadyDevice' = d
  <2>1. /\ poll' \in PollCalls /\ poll'.pc = "deliver" /\ poll'.ready = poll.ready
        /\ poll'.buffer = poll.buffer /\ poll'.skip = poll.skip
    BY <1>1, <1>2 DEF PollCalls, PollPoints
  <2> QED BY <2>1 DEF ReadyDevice
<1>7. /\ th' \in [Threads -> Calls] /\ \A u \in Threads : u # "poll" => th'[u] = th[u]
      /\ th'["poll"].pc \in {"idle", "count"}
  <2> DEFINE r == [NoThread EXCEPT !.pc = "count"]
  <2>1. r \in Calls /\ r.pc = "count"
    BY <1>2, CallBegins
  <2>2. th' = [th EXCEPT !["poll"] = r] \/ UNCHANGED th
    BY <1>1
  <2> HIDE DEF r
  <2> QED BY <1>2, <2>1, <2>2 DEF At
<1> QED BY <1>1, <1>2, <1>4, <1>5, <1>6, <1>7

\* popBufferFromDevice: the buffer is in the poll thread's hands, or pending again.
LEMMA PopKeeps ==
  ASSUME IInv, UNCHANGED setup, PopFromDevice
  PROVE  IInv'
<1> DEFINE d == ReadyDevice
           l == mBuffersInDevice[d]
           k == mBuffersInDevice'[d]
           b == poll.buffer
           m == Memory(poll.buffer)
<1>0. TypeOK /\ Control /\ setup \in Setups
  BY DEF IInv, Control
<1>1. /\ PollFrame /\ PollAt("pop") /\ d \in Devices /\ l # <<>> /\ l \in Seq(Buffers)
      /\ UNCHANGED <<held, mFrameSkipNum, mPollThread, node>>
      /\ mBuffersInDevice' \in [Devices -> Seq(Buffers)]
      /\ k = Tail(l)
      /\ \A e \in Devices : e # d => mBuffersInDevice'[e] = mBuffersInDevice[e]
      /\ mPendingBuffers' \in [Devices -> Seq(Buffers)]
      /\ \A e \in Devices : e # d => mPendingBuffers'[e] = mPendingBuffers[e]
      /\ mPendingBuffers'[d] = IF poll.skip THEN Append(mPendingBuffers[d], b)
                               ELSE mPendingBuffers[d]
      /\ poll' \in PollCalls /\ poll'.pc = "deliver" /\ poll'.ready = poll.ready
      /\ poll'.buffer = b /\ poll'.skip = poll.skip /\ ReadyDevice' = d
      /\ b \in Buffers
      /\ th' \in [Threads -> Calls] /\ \A u \in Threads : u # "poll" => th'[u] = th[u]
      /\ At("poll", "idle") /\ th'["poll"].pc \in {"idle", "count"}
  BY <1>0, PopEffect
<1>2. /\ Head(l) = l[1] /\ 1 \in DOMAIN l /\ Len(l) \in Nat /\ Len(l) >= 1 /\ DOMAIN l = 1..Len(l)
      /\ Len(k) = Len(l) - 1 /\ DOMAIN k = 1..Len(l) - 1
      /\ \A n \in 1..Len(l) - 1 : k[n] = l[n + 1]
  <2>1. l # <<>> /\ l \in Seq(Buffers) /\ k = Tail(l)
    BY <1>1
  <2> HIDE DEF k, l
  <2> QED BY <2>1, Fronts
<1>3. \A n \in DOMAIN k : n \in Int /\ n + 1 \in DOMAIN l /\ n + 1 # 1 /\ k[n] = l[n + 1]
  <2> HIDE DEF k, l
  <2> QED BY <1>2
<1>4. /\ \A u \in Threads : Queuing(u)' => Queuing(u) /\ th'[u] = th[u]
      /\ \A u \in Threads : Taking(u)' => Taking(u) /\ th'[u] = th[u]
      /\ \A u \in Threads : At(u, "move")' <=> At(u, "move")
      /\ \A u \in Threads : HasFound(u)' => HasFound(u)
      /\ \A u \in Threads : At(u, "move") => th'[u] = th[u]
  BY <1>1 DEF Queuing, Taking, At, HasFound
<1>5. ~ PollAt("none")
  BY <1>1 DEF PollAt
<1>6. TypeOK'
  <2>1. poll'.ready # {} /\ mFrameSkipNum' \in [Devices -> Nat]
    BY <1>0, <1>1 DEF TypeOK, PollAt
  <2> QED BY <1>0, <1>1, <2>1, PollType DEF TypeOK
<1>7. Control'
  <2>1. poll'.pc = "none" <=> mPollThread' \in {"NOT_STARTED", "EXITED"}
    BY <1>0, <1>1, <1>5 DEF Control, PollAt
  <2>2. th'["app"] = th["app"] /\ PollAt("deliver")'
    BY <1>1 DEF PollAt, Threads
  <2> QED BY <1>0, <1>1, <1>5, <2>1, <2>2, PollControl
<1>8. OneQueues'
  BY <1>1, <1>4, KeepsQueues DEF IInv, PollFrame
<1>9. m = Memory(l[1])
  BY <1>1, <1>2 DEF IInv, Dequeued, PollAt
<1>10. \A i, n \in DOMAIN l : Memory(l[i]) = Memory(l[n]) => i = n
  BY <1>1 DEF IInv, OnePlace
<1>11. /\ \A n \in DOMAIN k : Memory(k[n]) # m
       /\ \A i, n \in DOMAIN k : Memory(k[i]) = Memory(k[n]) => i = n
       /\ \A x : (\A n \in DOMAIN l : Memory(l[n]) # x) => \A n \in DOMAIN k : Memory(k[n]) # x
  <2>1. \A n \in DOMAIN k : Memory(k[n]) # m
    <3> HIDE DEF k, l, m
    <3> QED BY <1>2, <1>3, <1>9, <1>10
  <2>2. ASSUME NEW i \in DOMAIN k, NEW n \in DOMAIN k, Memory(k[i]) = Memory(k[n]) PROVE i = n
    <3> HIDE DEF k, l
    <3>1. i + 1 = n + 1
      BY <1>3, <1>10, <2>2
    <3> QED BY <1>3, <3>1
  <2> HIDE DEF k, l, m
  <2> QED BY <1>3, <2>1, <2>2
<1>12. \A e \in Devices : \A x : Alone(e, x) => AloneNext(e, x)
  <2>1. \A x : Alone(d, x) => AloneNext(d, x)
    BY <1>1, <1>11 DEF Alone, AloneNext
  <2>2. \A e \in Devices : e # d => \A x : Alone(e, x) => AloneNext(e, x)
    BY <1>1 DEF Alone, AloneNext
  <2> QED BY <2>1, <2>2
<1>13. AloneNext(d, m)
  <2>1. \A x \in held[d] : Memory(x) # m
    BY <1>1, <1>2, <1>9 DEF IInv, OnePlace
  <2> QED BY <1>1, <1>11, <2>1 DEF AloneNext
<1>14. /\ \A n \in DOMAIN mPendingBuffers[d] : Memory(mPendingBuffers[d][n]) # m
       /\ \A u \in Threads : Taking(u) /\ th[u].dev = d => Memory(th[u].buffer) # m
  <2>1. \A n \in DOMAIN mPendingBuffers[d] : Alone(d, Memory(mPendingBuffers[d][n]))
    BY <1>1 DEF IInv, OnePlace
  <2>2. \A u \in Threads : Taking(u) /\ th[u].dev = d => Alone(d, Memory(th[u].buffer))
    BY DEF IInv, Taken
  <2>3. \A x : Alone(d, x) => x # m
    BY <1>2, <1>9 DEF Alone
  <2> HIDE DEF m, d
  <2> QED BY <2>1, <2>2, <2>3
<1>15. /\ \A e \in Devices : \A i, n \in DOMAIN mBuffersInDevice'[e] :
             Memory(mBuffersInDevice'[e][i]) = Memory(mBuffersInDevice'[e][n]) => i = n
       /\ \A e \in Devices : \A n \in DOMAIN mBuffersInDevice'[e] : \A buffer \in held'[e] :
             Memory(buffer) # Memory(mBuffersInDevice'[e][n])
       /\ \A e \in Devices : \A x, y \in held'[e] : Memory(x) = Memory(y) => x = y
  <2>1. \A e \in Devices : \A i, n \in DOMAIN mBuffersInDevice'[e] :
             Memory(mBuffersInDevice'[e][i]) = Memory(mBuffersInDevice'[e][n]) => i = n
    <3>1. ASSUME NEW e \in Devices, e # d
          PROVE  \A i, n \in DOMAIN mBuffersInDevice'[e] :
             Memory(mBuffersInDevice'[e][i]) = Memory(mBuffersInDevice'[e][n]) => i = n
      <4>1. mBuffersInDevice'[e] = mBuffersInDevice[e]
        BY <1>1, <3>1
      <4> QED BY <3>1, <4>1 DEF IInv, OnePlace
    <3> QED BY <1>11, <3>1
  <2>2. \A e \in Devices : \A n \in DOMAIN mBuffersInDevice'[e] : \A buffer \in held'[e] :
             Memory(buffer) # Memory(mBuffersInDevice'[e][n])
    <3>1. \A n \in DOMAIN l : \A x \in held[d] : Memory(x) # Memory(l[n])
      BY <1>1 DEF IInv, OnePlace
    <3>2. \A n \in DOMAIN k : \A x \in held[d] : Memory(x) # Memory(k[n])
      BY <1>3, <3>1
    <3>3. ASSUME NEW e \in Devices, e # d
          PROVE  \A n \in DOMAIN mBuffersInDevice'[e] : \A buffer \in held'[e] :
             Memory(buffer) # Memory(mBuffersInDevice'[e][n])
      <4>1. mBuffersInDevice'[e] = mBuffersInDevice[e] /\ held' = held
        BY <1>1, <3>3
      <4> QED BY <3>3, <4>1 DEF IInv, OnePlace
    <3>4. held' = held
      BY <1>1
    <3> QED BY <3>2, <3>3, <3>4
  <2>3. \A e \in Devices : \A x, y \in held'[e] : Memory(x) = Memory(y) => x = y
    BY <1>1 DEF IInv, OnePlace
  <2> QED BY <2>1, <2>2, <2>3
<1>16. OnePlace' /\ Taken'
  <2>1. CASE poll.skip
    <3>1. mPendingBuffers'[d] = Append(mPendingBuffers[d], b)
      BY <1>1, <2>1
    <3>2. OnePlace /\ Taken
      BY DEF IInv
    <3> HIDE DEF d, b
    <3> QED
      BY <1>0, <1>1, <1>4, <1>12, <1>13, <1>14, <1>15, <3>1, <3>2, PendingGrows, ZenonT(60) DEF b
  <2>2. CASE ~ poll.skip
    <3>1. \A e \in Devices : mPendingBuffers'[e] = mPendingBuffers[e]
      BY <1>1, <2>2
    <3>2. OnePlace'
      <4>1. ASSUME NEW e \in Devices PROVE OnePlaceNext(e)
        <5>1. \A n \in DOMAIN mPendingBuffers'[e] : AloneNext(e, Memory(mPendingBuffers'[e][n]))
          BY <1>12, <3>1 DEF IInv, OnePlace
        <5> QED BY <1>15, <3>1, <5>1 DEF IInv, OnePlace, OnePlaceNext
      <4> QED BY <4>1, OnePlacePrimed
    <3>3. Taken'
      <4>1. SUFFICES ASSUME NEW u \in Threads, Taking(u)'
                     PROVE  /\ AloneNext(th'[u].dev, Memory(th'[u].buffer))
                            /\ \A n \in DOMAIN mPendingBuffers'[th'[u].dev] :
                                 Memory(mPendingBuffers'[th'[u].dev][n]) = Memory(th'[u].buffer) => n = 1
        BY TakenPrimed
      <4>2. Taking(u) /\ th'[u] = th[u] /\ th[u].dev \in Devices
        BY <1>0, <1>4, <4>1 DEF TypeOK, Calls
      <4> QED BY <1>12, <3>1, <4>2 DEF IInv, Taken
    <3> QED BY <3>2, <3>3
  <2> QED BY <2>1, <2>2
<1>17. Dequeued'
  <2>1. ASSUME ~ poll.skip
        PROVE  /\ \A n \in DOMAIN mPendingBuffers'[d] : Memory(mPendingBuffers'[d][n]) # m
               /\ \A t \in Threads : Taking(t)' /\ th'[t].dev = d => Memory(th'[t].buffer) # m
    <3>1. mPendingBuffers'[d] = mPendingBuffers[d]
      BY <1>1, <2>1
    <3> QED BY <1>4, <1>14, <3>1
  <2> QED BY <1>1, <1>13, <2>1, DequeuedPrimed
<1>18. Known'
  <2>1. \A e, x : Old(e, x) => OldNext(e, x)
    BY <1>1 DEF Old, OldNext, AppAt, PollFrame
  <2>2. OldNext(d, b)
    BY <1>1, <2>1 DEF IInv, Known, PollAt
  <2>3. \A n \in DOMAIN mPendingBuffers'[d] : OldNext(d, mPendingBuffers'[d][n])
    <3> DEFINE p == mPendingBuffers[d]
    <3>1. p \in Seq(Buffers) /\ (mPendingBuffers'[d] = p \/ mPendingBuffers'[d] = Append(p, b))
      BY <1>0, <1>1 DEF TypeOK
    <3>2. \A n \in DOMAIN p : OldNext(d, p[n])
      BY <1>1, <2>1 DEF IInv, Known
    <3>3. /\ \A n \in DOMAIN Append(p, b) : n \in DOMAIN p \/ n = Len(p) + 1
          /\ \A n \in DOMAIN p : Append(p, b)[n] = p[n]
          /\ Append(p, b)[Len(p) + 1] = b
      <4>1. b \in Buffers
        BY <1>1
      <4> HIDE DEF p, b
      <4> QED BY <3>1, <4>1, Longer
    <3> HIDE DEF p, b, d
    <3> QED BY <2>2, <3>1, <3>2, <3>3
  <2>4. \A n \in DOMAIN k : OldNext(d, k[n])
    BY <1>1, <1>3, <2>1 DEF IInv, Known
  <2>5. \A e \in Devices :
         /\ \A n \in DOMAIN mPendingBuffers'[e] : OldNext(e, mPendingBuffers'[e][n])
         /\ \A n \in DOMAIN mBuffersInDevice'[e] : OldNext(e, mBuffersInDevice'[e][n])
         /\ \A buffer \in held'[e] : OldNext(e, buffer)
    BY <1>1, <2>1, <2>3, <2>4 DEF IInv, Known
  <2>6. \A t \in Threads : Taking(t)' => OldNext(th'[t].dev, th'[t].buffer)
    BY <1>4, <2>1 DEF IInv, Known
  <2> QED BY <1>1, <2>2, <2>5, <2>6, KnownPrimed
<1>19. Room'
  <2>1. 1 \in Devices /\ Len(mBuffersInDevice[1]) \in Nat
    BY <1>0, RoomFacts, SetupFacts
  <2>2. Len(mBuffersInDevice'[1]) \in Nat /\ Len(mBuffersInDevice'[1]) <= Len(mBuffersInDevice[1])
    <3>1. CASE d = 1
      <4>1. Len(k) \in Nat /\ Len(k) <= Len(l)
        <5> HIDE DEF k, l
        <5> QED BY <1>2
      <4> QED BY <3>1, <4>1
    <3>2. CASE d # 1
      BY <1>1, <2>1, <3>2
    <3> QED BY <3>1, <3>2
  <2> QED BY <1>0, <1>4, <2>2, KeepsRoom DEF IInv
<1>20. FrontTaken'
  <2>1. \A e \in Devices : mPendingBuffers[e] # <<>> =>
           mPendingBuffers'[e] # <<>> /\ Head(mPendingBuffers'[e]) = Head(mPendingBuffers[e])
    <3>1. mPendingBuffers[d] # <<>> => /\ Append(mPendingBuffers[d], b) # <<>>
                                       /\ Head(Append(mPendingBuffers[d], b)) = Head(mPendingBuffers[d])
      <4>1. mPendingBuffers[d] \in Seq(Buffers) /\ b \in Buffers
        BY <1>0, <1>1 DEF TypeOK
      <4> HIDE DEF d, b
      <4> QED BY <4>1, HeadAppend
    <3> QED BY <1>1, <3>1
  <2>2. \A u \in Threads : th[u].dev \in Devices
    BY <1>0 DEF TypeOK, Calls
  <2>3. ASSUME ~ app.stopped, NEW u \in Threads, Taking(u)'
        PROVE  /\ mPendingBuffers'[th'[u].dev] # <<>>
               /\ th'[u].buffer = Head(mPendingBuffers'[th'[u].dev])
    <3>1. /\ th'[u] = th[u] /\ mPendingBuffers[th[u].dev] # <<>>
          /\ th[u].buffer = Head(mPendingBuffers[th[u].dev])
      BY <1>4, <2>3 DEF IInv, FrontTaken
    <3> QED BY <2>1, <2>2, <3>1
  <2>4. app' = app
    BY <1>1 DEF PollFrame
  <2> QED BY <2>3, <2>4 DEF FrontTaken
<1>21. DriverInStep'
  <2>1. SUFFICES ASSUME ~ app.stopped, NEW e \in Devices PROVE InStep(e)'
    BY <1>1, DriverPrimed DEF PollFrame
  <2>2. InStep(e)
    BY <2>1 DEF IInv, DriverInStep, InStep
  <2>3. QueuedIn(e)' = QueuedIn(e)
    BY <1>1 DEF QueuedIn, PollAt
  <2>4. InDriver(e)' = InDriver(e)
    BY <1>4, <2>3, SameMoving
  <2> QED BY <1>1, <2>2, <2>4 DEF InStep
<1> QED BY <1>6, <1>7, <1>8, <1>16, <1>17, <1>18, <1>19, <1>20, <1>21 DEF IInv

\* onDequeueBuffer: the consumers get the buffer.
LEMMA DeliverKeeps ==
  ASSUME IInv, UNCHANGED setup, DeliverFrame
  PROVE  IInv'
<1> DEFINE d == ReadyDevice
           b == poll.buffer
           m == Memory(poll.buffer)
<1>0. TypeOK /\ Control /\ setup \in Setups
  BY DEF IInv, Control
<1>1. /\ PollFrame /\ PollAt("deliver") /\ At("poll", "idle") /\ DeviceDone
      /\ UNCHANGED <<mPendingBuffers, mBuffersInDevice, node, th, mPollThread>>
      /\ held' = IF poll.skip THEN held ELSE [held EXCEPT ![d] = held[d] \cup {b}]
      /\ mFrameSkipNum' = [mFrameSkipNum EXCEPT ![d] = FramesToSkip(d)]
  BY DEF DeliverFrame, PollFrame
<1>2. ~ PollAt("none") /\ ~ PollAt("pop")
  BY <1>1 DEF PollAt
<1>3. d \in Devices /\ b \in Buffers /\ held \in [Devices -> SUBSET Buffers]
  BY <1>0, <1>1, ReadyIn DEF TypeOK, PollAt, PollCalls
<1>4. mFrameSkipNum' \in [Devices -> Nat]
  <2>1. mFrameSkipNum \in [Devices -> Nat]
    BY <1>0 DEF TypeOK
  <2>2. FramesToSkip(d) \in Nat
    <3>1. mFrameSkipNum[d] \in Nat
      BY <1>3, <2>1
    <3> QED BY <3>1 DEF FramesToSkip
  <2> HIDE DEF d
  <2> QED BY <1>1, <1>3, <2>1, <2>2
<1>5. /\ poll' \in PollCalls /\ mPollThread' \in {"RUNNING", "EXITING", "EXITED"}
      /\ poll'.pc = "none" <=> mPollThread' = "EXITED"
      /\ poll'.pc = "handled"
  BY <1>0, <1>1, <1>2, Done
<1>6. CASE poll.skip
  BY <1>0, <1>1, <1>2, <1>4, <1>5, <1>6, PollMoves
<1>7. CASE ~ poll.skip
  <2>1. /\ held' \in [Devices -> SUBSET Buffers] /\ held'[d] = held[d] \cup {b}
        /\ \A e \in Devices : e # d => held'[e] = held[e]
    <3> HIDE DEF d, b
    <3> QED BY <1>1, <1>3, <1>7
  <2>2. /\ Alone(d, m)
        /\ \A n \in DOMAIN mPendingBuffers[d] : Memory(mPendingBuffers[d][n]) # m
        /\ \A t \in Threads : Taking(t) /\ th[t].dev = d => Memory(th[t].buffer) # m
    BY <1>1, <1>7 DEF IInv, Dequeued
  <2>3. TypeOK'
    BY <1>0, <1>1, <1>4, <1>5, <2>1, PollType DEF TypeOK
  <2>4. Control'
    <3>1. poll'.pc = "none" <=> mPollThread' \in {"NOT_STARTED", "EXITED"}
      BY <1>0, <1>1, <1>2, <1>5 DEF Control, PollAt
    <3> QED BY <1>0, <1>1, <1>2, <3>1, PollControl DEF At
  <2>5. OneQueues'
    BY <1>1, KeepsQueues DEF IInv, PollFrame, Queuing
  <2>6. \A e \in Devices : \A x : (e = d => x # m) => (Alone(e, x) => AloneNext(e, x))
    BY <1>1, <2>1 DEF Alone, AloneNext
  <2>7. OnePlace'
    <3>1. ASSUME NEW e \in Devices PROVE OnePlaceNext(e)
      <4>1. \A n \in DOMAIN mPendingBuffers'[e] : AloneNext(e, Memory(mPendingBuffers'[e][n]))
        <5>1. \A n \in DOMAIN mPendingBuffers[e] : Alone(e, Memory(mPendingBuffers[e][n]))
          BY DEF IInv, OnePlace
        <5> HIDE DEF m, d
        <5> QED BY <1>1, <2>2, <2>6, <5>1
      <4>2. \A n \in DOMAIN mBuffersInDevice'[e] : \A buffer \in held'[e] :
              Memory(buffer) # Memory(mBuffersInDevice'[e][n])
        BY <1>1, <2>1, <2>2 DEF IInv, OnePlace, Alone
      <4>3. \A x, y \in held'[e] : Memory(x) = Memory(y) => x = y
        BY <1>1, <2>1, <2>2 DEF IInv, OnePlace, Alone
      <4> QED BY <1>1, <4>1, <4>2, <4>3 DEF IInv, OnePlace, OnePlaceNext
    <3> QED BY <3>1, OnePlacePrimed
  <2>8. Taken'
    <3>1. SUFFICES ASSUME NEW u \in Threads, Taking(u)'
                   PROVE  /\ AloneNext(th'[u].dev, Memory(th'[u].buffer))
                          /\ \A n \in DOMAIN mPendingBuffers'[th'[u].dev] :
                               Memory(mPendingBuffers'[th'[u].dev][n]) = Memory(th'[u].buffer) => n = 1
      BY TakenPrimed
    <3>2. Taking(u) /\ th' = th /\ th[u].dev \in Devices
      BY <1>0, <1>1, <3>1 DEF TypeOK, Calls, Taking
    <3>3. AloneNext(th[u].dev, Memory(th[u].buffer))
      <4>1. Alone(th[u].dev, Memory(th[u].buffer))
        BY <3>2 DEF IInv, Taken
      <4> QED BY <2>2, <2>6, <3>2, <4>1
    <3> QED BY <1>1, <3>2, <3>3 DEF IInv, Taken
  <2>9. Dequeued'
    BY <1>5, DequeuedPrimed
  <2>10. Known'
    <3>1. \A e, x : Old(e, x) => OldNext(e, x)
      BY <1>1 DEF Old, OldNext, AppAt, PollFrame
    <3>2. OldNext(d, b)
      BY <1>1, <3>1 DEF IInv, Known, PollAt
    <3>3. \A e \in Devices :
           /\ \A n \in DOMAIN mPendingBuffers'[e] : OldNext(e, mPendingBuffers'[e][n])
           /\ \A n \in DOMAIN mBuffersInDevice'[e] : OldNext(e, mBuffersInDevice'[e][n])
           /\ \A buffer \in held'[e] : OldNext(e, buffer)
      BY <1>1, <2>1, <3>1, <3>2 DEF IInv, Known
    <3>4. \A t \in Threads : Taking(t)' => OldNext(th'[t].dev, th'[t].buffer)
      BY <1>1, <3>1 DEF IInv, Known, Taking
    <3> QED BY <1>5, <3>3, <3>4, KnownPrimed
  <2>11. Room'
    BY <1>1 DEF IInv, Room, HasFound
  <2>12. FrontTaken' /\ DriverInStep'
    BY <1>0, <1>1, <1>2, <1>5, KeepsDriver DEF IInv, PollFrame, PollAt, Taking, At
  <2> QED BY <2>3, <2>4, <2>5, <2>7, <2>8, <2>9, <2>10, <2>11, <2>12 DEF IInv
<1> QED BY <1>6, <1>7

\* Any step of the poll thread.
LEMMA PollKeeps ==
  ASSUME IInv, UNCHANGED setup, PollStep
  PROVE  IInv'
  BY WaitKeeps, FirstKeeps, GrabKeeps, PopKeeps, DeliverKeeps DEF PollStep

-----------------------------------------------------------------------------
(* The application's thread keeps the invariant.                           *)

\* The types of what the application's thread sets.
LEMMA AppType ==
  ASSUME TypeOK, UNCHANGED setup,
         mState' \in {"CAPTURE_INIT", "CAPTURE_CONFIGURE", "CAPTURE_START", "CAPTURE_STOP"},
         mExitPending' \in BOOLEAN, mFlushFd' \in BOOLEAN, app' \in AppCalls,
         mPollThread' \in {"NOT_STARTED", "RUNNING", "EXITING", "EXITED"}, poll' \in PollCalls,
         mPendingBuffers' \in [Devices -> Seq(Buffers)],
         mBuffersInDevice' \in [Devices -> Seq(Buffers)],
         mBufferQueuing' \in [Devices -> BOOLEAN], mFrameSkipNum' \in [Devices -> Nat],
         node' \in [Devices -> Nodes], held' \in [Devices -> SUBSET Buffers],
         th' \in [Threads -> Calls],
         \/ poll' = poll /\ mBuffersInDevice' = mBuffersInDevice
         \/ poll'.pc \in {"none", "begin"}
  PROVE  TypeOK'
<1>1. /\ Devices' = Devices /\ Buffers' = Buffers /\ Calls' = Calls /\ Nodes' = Nodes
      /\ PollCalls' = PollCalls
  BY SameSetup
<1>2. /\ poll'.pc \in {"first", "grab", "pop", "deliver"} => poll'.ready # {}
      /\ poll'.pc \in {"grab", "pop"} => mBuffersInDevice'[ReadyDevice'] # <<>>
  <2>1. poll' = poll => ReadyDevice' = ReadyDevice
    BY DEF ReadyDevice
  <2> QED BY <2>1 DEF TypeOK
<1> QED BY <1>1, <1>2 DEF TypeOK

\* The lists stay as they are.
LEMMA AppMoves ==
  ASSUME IInv, UNCHANGED setup, Control', app' \in AppCalls,
         mState' \in {"CAPTURE_INIT", "CAPTURE_CONFIGURE", "CAPTURE_START", "CAPTURE_STOP"},
         mExitPending' \in BOOLEAN, mFlushFd' \in BOOLEAN,
         mPollThread' \in {"NOT_STARTED", "RUNNING", "EXITING", "EXITED"}, poll' \in PollCalls,
         poll' = poll \/ (PollAt("none") /\ poll'.pc = "begin"),
         UNCHANGED <<mPendingBuffers, mBuffersInDevice, mBufferQueuing, th>>,
         mFrameSkipNum' \in [Devices -> Nat], node' \in [Devices -> Nodes],
         held' \in [Devices -> SUBSET Buffers], \A d \in Devices : held'[d] \in {held[d], {}},
         ~ app'.stopped => /\ ~ app.stopped
                           /\ \A d \in Devices : node'[d].queue = node[d].queue,
         \A d \in Devices : \A b \in Buffers : Old(d, b) => OldNext(d, b)
  PROVE  IInv'
<1>0. TypeOK /\ Control /\ setup \in Setups
  BY DEF IInv, Control
<1>1. TypeOK'
  BY <1>0, AppType DEF TypeOK
<1>2. OneQueues'
  BY KeepsQueues DEF IInv, Queuing
<1>3. OnePlace' /\ Taken' /\ Dequeued' /\ Known'
  <2>1. poll'.pc \in {"grab", "pop", "deliver"} => poll' = poll /\ mBuffersInDevice' = mBuffersInDevice
    OBVIOUS
  <2>2. \A u \in Threads : Taking(u)' =>
           Taking(u) /\ th'[u].dev = th[u].dev /\ th'[u].buffer = th[u].buffer
    BY DEF Taking
  <2> QED BY <1>0, <2>1, <2>2, KeepsMemoryNow DEF IInv
<1>4. Room'
  BY DEF IInv, Room, HasFound
<1>5. FrontTaken' /\ DriverInStep'
  BY <1>0, KeepsDriver DEF IInv, PollAt, Taking, At
<1> QED BY <1>1, <1>2, <1>3, <1>4, <1>5 DEF IInv

\* The records of the application's thread.
LEMMA AppRecords ==
  ASSUME TypeOK, NEW pc \in AppPoints, app' = [app EXCEPT !.pc = pc]
  PROVE  /\ app' \in AppCalls /\ app'.pc = pc /\ app'.next = app.next
         /\ app'.session = app.session /\ app'.stopped = app.stopped
  BY DEF TypeOK, AppCalls

\* The same in a loop over the devices.
LEMMA NextRecords ==
  ASSUME TypeOK, setup \in Setups, NEW after \in AppPoints, app.next \in Devices, NextOf(after)
  PROVE  /\ app' \in AppCalls /\ app'.session = app.session /\ app'.stopped = app.stopped
         /\ app'.next \in Devices /\ app'.pc \in {app.pc, after}
<1>1. app \in AppCalls /\ app.next \in Nat
  BY DEF TypeOK, AppCalls
<1>2. CASE app.next < NumDevices
  <2> DEFINE n == app.next + 1
  <2>1. n \in Devices /\ n \in Nat /\ app' = [app EXCEPT !.next = n]
    BY <1>1, <1>2, SetupFacts DEF NextOf
  <2> HIDE DEF n
  <2> QED BY <1>1, <2>1 DEF AppCalls
<1>3. CASE ~ (app.next < NumDevices)
  <2>1. 1 \in Devices /\ app' = [app EXCEPT !.next = 1, !.pc = after]
    BY <1>3, SetupFacts DEF NextOf
  <2> QED BY <1>1, <2>1 DEF AppCalls
<1> QED BY <1>2, <1>3

\* Whatever was allocated stays allocated.
LEMMA StaysOld ==
  ASSUME app'.session = app.session, AppAt("alloc")' => app' = app
  PROVE  \A d \in Devices : \A b \in Buffers : Old(d, b) => OldNext(d, b)
  BY DEF Old, OldNext, AppAt

\* The steps that change a point of the application's thread, and a flag or two.
LEMMA FlagsKeep ==
  ASSUME IInv, UNCHANGED setup,
         RunPollThread \/ SetStart \/ stop \/ RequestExit \/ ExitAndWait \/ ClearStop
         \/ StopProcessors \/ StreamOff
  PROVE  IInv'
<1>0. TypeOK /\ Control /\ setup \in Setups /\ Devices' = Devices /\ poll \in PollCalls
  BY SameSetup DEF IInv, Control, TypeOK
<1>1. /\ mFrameSkipNum \in [Devices -> Nat] /\ node \in [Devices -> Nodes]
      /\ held \in [Devices -> SUBSET Buffers] /\ app \in AppCalls
  BY <1>0 DEF TypeOK
<1>2. CASE RunPollThread
  <2>1. /\ AppAt("run") /\ app' = [app EXCEPT !.pc = "setStart"]
        /\ UNCHANGED <<mState, mExitPending, mFlushFd, mPendingBuffers, mBuffersInDevice,
                       mBufferQueuing, mFrameSkipNum, node, th, held>>
        /\ PollAt("none") /\ mPollThread' = "RUNNING" /\ poll' = [NoPoll EXCEPT !.pc = "begin"]
    BY <1>0, <1>2 DEF RunPollThread, AppGoto, Control, AppAt
  <2>2. /\ app' \in AppCalls /\ app'.pc = "setStart" /\ app'.next = app.next
        /\ app'.session = app.session /\ app'.stopped = app.stopped
    BY <1>0, <2>1, AppRecords DEF AppPoints
  <2>3. poll' \in PollCalls /\ poll'.pc = "begin"
    BY <1>0, <2>1, SetupFacts DEF NoPoll, PollCalls, PollPoints
  <2>4. Control'
    BY <1>0, <2>1, <2>2, <2>3 DEF Control, PollAt, AppAt, At
  <2> QED BY <1>0, <1>1, <2>1, <2>2, <2>3, <2>4, StaysOld, AppMoves DEF AppAt, TypeOK
<1>3. CASE SetStart
  <2>1. PICK pc \in {"clearExit", "idle"} :
        /\ app' = [app EXCEPT !.pc = pc]
        /\ pc = "clearExit" => AppAt("setStart") /\ mState' = "CAPTURE_START" /\ UNCHANGED mExitPending
        /\ pc = "idle" => AppAt("clearExit") /\ mExitPending' = FALSE /\ UNCHANGED mState
    BY <1>3 DEF SetStart, AppGoto
  <2>2. UNCHANGED <<mFlushFd, mPendingBuffers, mBuffersInDevice, mBufferQueuing, mFrameSkipNum,
                    node, th, mPollThread, poll, held>>
    BY <1>3 DEF SetStart
  <2>3. /\ app' \in AppCalls /\ app'.pc = pc /\ app'.next = app.next
        /\ app'.session = app.session /\ app'.stopped = app.stopped
    BY <1>0, <2>1, AppRecords DEF AppPoints
  <2>4. mState' = "CAPTURE_START"
    BY <1>0, <2>1 DEF Control, AppAt
  <2>5. Control'
    BY <1>0, <2>1, <2>2, <2>3, <2>4 DEF Control, PollAt, AppAt, At
  <2>6. mExitPending' \in BOOLEAN
    BY <1>0, <2>1 DEF TypeOK
  <2> QED BY <1>0, <1>1, <2>1, <2>2, <2>3, <2>4, <2>5, <2>6, StaysOld, AppMoves DEF AppAt, TypeOK
<1>4. CASE stop
  <2>1. /\ AppAt("idle") /\ mState = "CAPTURE_START" /\ mExitPending' = TRUE /\ mFlushFd' = TRUE
        /\ app' = [app EXCEPT !.pc = "requestExit", !.stopped = TRUE]
        /\ UNCHANGED <<mState, mPendingBuffers, mBuffersInDevice, mBufferQueuing, mFrameSkipNum,
                       node, th, mPollThread, poll, held>>
    BY <1>4 DEF stop
  <2>2. /\ app' \in AppCalls /\ app'.pc = "requestExit"
        /\ app'.session = app.session /\ app'.stopped = TRUE
    BY <1>1, <2>1 DEF AppCalls, AppPoints
  <2>3. Control'
    BY <1>0, <2>1, <2>2 DEF Control, PollAt, AppAt, At
  <2> QED BY <1>0, <1>1, <2>1, <2>2, <2>3, StaysOld, AppMoves DEF AppAt, TypeOK
<1>5. CASE RequestExit
  <2>1. /\ AppAt("requestExit") /\ app' = [app EXCEPT !.pc = "streamOff", !.next = 1]
        /\ mPollThread' = IF mPollThread = "RUNNING" THEN "EXITING" ELSE mPollThread
        /\ UNCHANGED <<mState, mExitPending, mFlushFd, mPendingBuffers, mBuffersInDevice,
                       mBufferQueuing, mFrameSkipNum, node, th, poll, held>>
    BY <1>5 DEF RequestExit
  <2>2. /\ app' \in AppCalls /\ app'.pc = "streamOff" /\ app'.next = 1
        /\ app'.session = app.session /\ app'.stopped = app.stopped
    BY <1>1, <2>1 DEF AppCalls, AppPoints
  <2>3. Control'
    BY <1>0, <2>1, <2>2, SetupFacts DEF Control, PollAt, AppAt, At
  <2>4. mPollThread' \in {"NOT_STARTED", "RUNNING", "EXITING", "EXITED"}
    BY <1>0, <2>1 DEF TypeOK
  <2> QED BY <1>0, <1>1, <2>1, <2>2, <2>3, <2>4, StaysOld, AppMoves DEF AppAt, TypeOK
<1>6. CASE ExitAndWait
  <2>1. /\ AppAt("exitAndWait") /\ app' = [app EXCEPT !.pc = "reset"]
        /\ mPollThread \in {"NOT_STARTED", "EXITED"} /\ mState' = "CAPTURE_STOP"
        /\ UNCHANGED <<mExitPending, mFlushFd, mPendingBuffers, mBuffersInDevice,
                       mBufferQueuing, mFrameSkipNum, node, th, mPollThread, poll, held>>
    BY <1>6 DEF ExitAndWait, AppGoto
  <2>2. /\ app' \in AppCalls /\ app'.pc = "reset" /\ app'.next = app.next
        /\ app'.session = app.session /\ app'.stopped = app.stopped
    BY <1>0, <2>1, AppRecords DEF AppPoints
  <2>3. Control'
    BY <1>0, <2>1, <2>2 DEF Control, PollAt, AppAt, At
  <2> QED BY <1>0, <1>1, <2>1, <2>2, <2>3, StaysOld, AppMoves DEF AppAt, TypeOK
<1>7. CASE ClearStop
  <2>1. /\ AppAt("clearStop") /\ app' = [app EXCEPT !.pc = "stopProcessors"]
        /\ mExitPending' = FALSE
        /\ UNCHANGED <<mState, mFlushFd, mPendingBuffers, mBuffersInDevice,
                       mBufferQueuing, mFrameSkipNum, node, th, mPollThread, poll, held>>
    BY <1>7 DEF ClearStop, AppGoto
  <2>2. /\ app' \in AppCalls /\ app'.pc = "stopProcessors" /\ app'.next = app.next
        /\ app'.session = app.session /\ app'.stopped = app.stopped
    BY <1>0, <2>1, AppRecords DEF AppPoints
  <2>3. Control'
    BY <1>0, <2>1, <2>2 DEF Control, PollAt, AppAt, At
  <2> QED BY <1>0, <1>1, <2>1, <2>2, <2>3, StaysOld, AppMoves DEF AppAt, TypeOK
<1>8. CASE StopProcessors
  <2>1. /\ AppAt("stopProcessors") /\ app' = [app EXCEPT !.pc = "idle"]
        /\ \A c \in Consumers : At(c, "idle")
        /\ held' = [d \in Devices |-> {}]
        /\ UNCHANGED <<mState, mExitPending, mFlushFd, mPendingBuffers, mBuffersInDevice,
                       mBufferQueuing, mFrameSkipNum, node, th, mPollThread, poll>>
    BY <1>8 DEF StopProcessors, AppGoto
  <2>2. /\ app' \in AppCalls /\ app'.pc = "idle" /\ app'.next = app.next
        /\ app'.session = app.session /\ app'.stopped = app.stopped
    BY <1>0, <2>1, AppRecords DEF AppPoints
  <2>3. Quiet'
    BY <1>0, <2>1 DEF Quiet, At
  <2>4. Control'
    BY <1>0, <2>1, <2>2, <2>3 DEF Control, PollAt, AppAt, At
  <2>5. held' \in [Devices -> SUBSET Buffers] /\ \A d \in Devices : held'[d] = {}
    BY <2>1
  <2> QED BY <1>0, <1>1, <2>1, <2>2, <2>4, <2>5, StaysOld, AppMoves DEF AppAt, TypeOK
<1>9. CASE StreamOff
  <2>1. /\ AppAt("streamOff") /\ NextOf("exitAndWait")
        /\ node' = [node EXCEPT ![app.next] = NewNode]
        /\ UNCHANGED <<mState, mExitPending, mFlushFd, mPendingBuffers, mBuffersInDevice,
                       mBufferQueuing, mFrameSkipNum, th, mPollThread, poll, held>>
    BY <1>9 DEF StreamOff
  <2>2. app.next \in Devices /\ app.stopped
    BY <1>0, <2>1 DEF Control, AppAt
  <2>3. /\ app' \in AppCalls /\ app'.session = app.session /\ app'.stopped = app.stopped
        /\ app'.next \in Devices /\ app'.pc \in {app.pc, "exitAndWait"}
    BY <1>0, <2>1, <2>2, NextRecords DEF AppPoints
  <2>4. Control'
    BY <1>0, <2>1, <2>2, <2>3 DEF Control, PollAt, AppAt, At
  <2>5. node' \in [Devices -> Nodes]
    BY <1>0, <1>1, <2>1, <2>2, SetupFacts
  <2>6. AppAt("alloc")' => app' = app
    BY <2>1, <2>3 DEF AppAt
  <2> QED BY <1>0, <1>1, <2>1, <2>2, <2>3, <2>4, <2>5, <2>6, StaysOld, AppMoves DEF TypeOK
<1> QED BY <1>2, <1>3, <1>4, <1>5, <1>6, <1>7, <1>8, <1>9

\* The start of the processors and of the streams.
LEMMA StartKeeps ==
  ASSUME IInv, UNCHANGED setup, StartProcessors \/ StreamOn \/ StreamOnFails
  PROVE  IInv'
<1>0. TypeOK /\ Control /\ setup \in Setups /\ Devices' = Devices
  BY SameSetup DEF IInv, Control
<1>1. /\ mFrameSkipNum \in [Devices -> Nat] /\ node \in [Devices -> Nodes]
      /\ held \in [Devices -> SUBSET Buffers] /\ app \in AppCalls /\ poll \in PollCalls
      /\ app.session \in Nat
  BY <1>0 DEF TypeOK, AppCalls
<1>2. CASE StartProcessors
  <2> DEFINE s == app.session + 1
  <2>1. /\ AppAt("idle") /\ mState \in {"CAPTURE_CONFIGURE", "CAPTURE_STOP"}
        /\ app' = [app EXCEPT !.pc = "alloc", !.next = 0, !.session = s]
        /\ UNCHANGED <<mState, mExitPending, mFlushFd, mPendingBuffers, mBuffersInDevice,
                       mBufferQueuing, mFrameSkipNum, node, th, mPollThread, poll, held>>
    BY <1>2 DEF StartProcessors
  <2>2. s \in Nat
    BY <1>1
  <2>3. /\ app' \in AppCalls /\ app'.pc = "alloc" /\ app'.next = 0 /\ app'.session = s
        /\ app'.stopped = app.stopped
    <3> HIDE DEF s
    <3> QED BY <1>1, <2>1, <2>2 DEF AppCalls, AppPoints
  <2>4. PollAt("none") /\ Quiet
    BY <1>0, <2>1 DEF Control
  <2>5. Quiet' /\ PollAt("none")'
    BY <1>0, <2>1, <2>4 DEF Quiet, At, PollAt
  <2>6. Control'
    BY <1>0, <2>1, <2>3, <2>5 DEF Control, PollAt, AppAt, At
  <2>7. \A d \in Devices : \A b \in Buffers : Old(d, b) => OldNext(d, b)
    <3>1. ASSUME NEW d \in Devices, NEW b \in Buffers, Old(d, b) PROVE OldNext(d, b)
      <4>1. b.session \in Nat /\ b.session <= app.session
        BY <3>1 DEF Buffers, Old
      <4>2. b.session <= s /\ b.session # s
        BY <1>1, <4>1
      <4> QED BY <2>3, <4>2 DEF OldNext
    <3> QED BY <3>1
  <2> QED BY <1>0, <1>1, <2>1, <2>3, <2>6, <2>7, AppMoves DEF TypeOK
<1>3. CASE StreamOn
  <2>1. /\ AppAt("alloc") /\ At("app", "idle") /\ app' = [app EXCEPT !.pc = "run"]
        /\ mFrameSkipNum' = [d \in Devices |-> InitialSkipFrame]
        /\ node' = [d \in Devices |-> [node[d] EXCEPT !.started = TRUE]]
        /\ mFlushFd' = FALSE
        /\ UNCHANGED <<mState, mExitPending, mPendingBuffers, mBuffersInDevice,
                       mBufferQueuing, th, mPollThread, poll, held>>
    BY <1>3 DEF StreamOn, AppGoto
  <2>2. /\ app' \in AppCalls /\ app'.pc = "run" /\ app'.next = app.next
        /\ app'.session = app.session /\ app'.stopped = app.stopped
    BY <1>0, <2>1, AppRecords DEF AppPoints
  <2>3. Control'
    BY <1>0, <2>1, <2>2 DEF Control, PollAt, AppAt, At
  <2>4. mFrameSkipNum' \in [Devices -> Nat]
    BY <2>1, CaptureAssumption
  <2>5. node' \in [Devices -> Nodes] /\ \A d \in Devices : node'[d].queue = node[d].queue
    <3>1. ASSUME NEW d \in Devices
          PROVE  [node[d] EXCEPT !.started = TRUE] \in Nodes
                 /\ [node[d] EXCEPT !.started = TRUE].queue = node[d].queue
      BY <1>1 DEF Nodes
    <3> QED BY <2>1, <3>1
  <2> QED BY <1>0, <1>1, <2>1, <2>2, <2>3, <2>4, <2>5, StaysOld, AppMoves DEF AppAt, TypeOK
<1>4. CASE StreamOnFails
  <2>1. PICK failing \in Devices :
        /\ mFrameSkipNum' = [d \in Devices |-> IF d <= failing THEN InitialSkipFrame
                                               ELSE mFrameSkipNum[d]]
        /\ node' = [d \in Devices |-> IF d < failing THEN NewNode ELSE node[d]]
        /\ app' = [app EXCEPT !.pc = "stopProcessors", !.stopped = app.stopped \/ failing > 1]
    BY <1>4 DEF StreamOnFails
  <2>2. /\ AppAt("alloc") /\ At("app", "idle")
        /\ UNCHANGED <<mState, mExitPending, mFlushFd, mPendingBuffers, mBuffersInDevice,
                       mBufferQueuing, th, mPollThread, poll, held>>
    BY <1>4 DEF StreamOnFails
  <2> DEFINE s == app.stopped \/ failing > 1
  <2>3. s \in BOOLEAN /\ app' = [app EXCEPT !.pc = "stopProcessors", !.stopped = s]
    BY <2>1
  <2>4. /\ app' \in AppCalls /\ app'.pc = "stopProcessors"
        /\ app'.session = app.session /\ app'.stopped = s
    <3> HIDE DEF s
    <3> QED BY <1>1, <2>3 DEF AppCalls, AppPoints
  <2>5. Control'
    BY <1>0, <2>2, <2>4 DEF Control, PollAt, AppAt, At
  <2>6. mFrameSkipNum' \in [Devices -> Nat] /\ node' \in [Devices -> Nodes]
    BY <1>0, <1>1, <2>1, CaptureAssumption, SetupFacts
  <2>7. ~ app'.stopped => /\ ~ app.stopped
                          /\ \A d \in Devices : node'[d].queue = node[d].queue
    <3>1. SUFFICES ASSUME ~ app.stopped, ~ (failing > 1)
                   PROVE  \A d \in Devices : node'[d].queue = node[d].queue
      BY <2>4
    <3>2. \A d \in Devices : ~ (d < failing)
      BY <1>0, <3>1, SetupFacts
    <3> QED BY <2>1, <3>2
  <2> QED BY <1>0, <1>1, <2>2, <2>4, <2>5, <2>6, <2>7, StaysOld, AppMoves DEF AppAt, TypeOK
<1> QED BY <1>2, <1>3, <1>4

\* No thread is in processPendingBuffers.
LEMMA NobodyThere ==
  ASSUME Control, PollAt("none"), Quiet, At("app", "idle")
  PROVE  \A t \in Threads : At(t, "idle")
  BY DEF Control, Quiet, Threads, PollAt

\* New devices, or devices that are reset: the lists are empty.
LEMMA EmptyKeeps ==
  ASSUME IInv, UNCHANGED setup, configure \/ ResetBuffers
  PROVE  IInv'
<1>0. TypeOK /\ Control /\ setup \in Setups /\ Devices' = Devices
  BY SameSetup DEF IInv, Control
<1>1. /\ mFrameSkipNum \in [Devices -> Nat] /\ node \in [Devices -> Nodes]
      /\ held \in [Devices -> SUBSET Buffers] /\ app \in AppCalls /\ poll \in PollCalls
      /\ mPendingBuffers \in [Devices -> Seq(Buffers)]
      /\ mBuffersInDevice \in [Devices -> Seq(Buffers)]
  BY <1>0 DEF TypeOK
<1>2. <<>> \in Seq(Buffers) /\ Len(<<>>) = 0 /\ DOMAIN <<>> = {}
  OBVIOUS
<1>3. CASE configure
  <2>1. /\ AppAt("idle") /\ mState # "CAPTURE_START"
        /\ mPendingBuffers' = [d \in Devices |-> <<>>]
        /\ mBuffersInDevice' = [d \in Devices |-> <<>>]
        /\ mBufferQueuing' = [d \in Devices |-> FALSE]
        /\ mFrameSkipNum' = [d \in Devices |-> 0]
        /\ node' = [d \in Devices |-> NewNode]
        /\ mState' = "CAPTURE_CONFIGURE" /\ mExitPending' = FALSE
        /\ UNCHANGED <<mFlushFd, th, mPollThread, poll, app, held>>
    BY <1>3 DEF configure
  <2>2. PollAt("none") /\ Quiet /\ At("app", "idle")
    BY <1>0, <2>1 DEF Control, AppAt
  <2>3. \A t \in Threads : At(t, "idle")
    BY <1>0, <2>2, NobodyThere
  <2>4. \A t \in Threads : ~ Queuing(t)' /\ ~ Taking(t)' /\ ~ HasFound(t)' /\ ~ At(t, "move")'
    BY <2>1, <2>3 DEF Queuing, Taking, HasFound, At
  <2>5. TypeOK'
    <3>1. /\ mPendingBuffers' \in [Devices -> Seq(Buffers)]
          /\ mBuffersInDevice' \in [Devices -> Seq(Buffers)]
          /\ mBufferQueuing' \in [Devices -> BOOLEAN] /\ mFrameSkipNum' \in [Devices -> Nat]
          /\ node' \in [Devices -> Nodes]
      BY <1>0, <1>2, <2>1, SetupFacts
    <3> QED BY <1>0, <2>1, <2>2, <3>1, AppType DEF TypeOK, PollAt
  <2>6. Control'
    <3>1. Quiet'
      BY <1>0, <2>1, <2>2 DEF Quiet, At
    <3> QED BY <1>0, <2>1, <2>2, <3>1 DEF Control, PollAt, AppAt, At
  <2>7. OneQueues'
    BY <2>4 DEF OneQueues
  <2>8. OnePlace' /\ Taken' /\ Dequeued' /\ Known'
    BY <1>0, <2>1, <2>2, <2>4, KeepsMemory DEF IInv, PollAt
  <2>9. Room'
    <3>1. Len(mBuffersInDevice'[1]) = 0 /\ Len(mBuffersInDevice[1]) \in Nat
      BY <1>0, <1>2, <2>1, RoomFacts, SetupFacts
    <3> QED BY <1>0, <2>4, <3>1, KeepsRoom DEF IInv
  <2>10. FrontTaken'
    BY <2>4 DEF FrontTaken
  <2>11. DriverInStep'
    <3>1. SUFFICES ASSUME NEW d \in Devices PROVE InStep(d)'
      BY DriverPrimed
    <3>2. InDriver(d)' = QueuedIn(d)'
      BY <2>4, NotMoving
    <3>3. QueuedIn(d)' = <<>>
      BY <2>1, <2>2 DEF QueuedIn, PollAt
    <3>4. node'[d].queue = <<>>
      BY <2>1 DEF NewNode
    <3> QED BY <1>2, <3>2, <3>3, <3>4 DEF InStep
  <2> QED BY <2>5, <2>6, <2>7, <2>8, <2>9, <2>10, <2>11 DEF IInv
<1>4. CASE ResetBuffers
  <2>1. /\ AppAt("reset") /\ NextOf("clearStop")
        /\ mBuffersInDevice' = [mBuffersInDevice EXCEPT ![app.next] = <<>>]
        /\ mPendingBuffers' = [mPendingBuffers EXCEPT ![app.next] = <<>>]
        /\ UNCHANGED <<mState, mExitPending, mFlushFd, mBufferQueuing, mFrameSkipNum, node, th,
                       mPollThread, poll, held>>
    BY <1>4 DEF ResetBuffers
  <2>2. app.next \in Devices /\ app.stopped /\ PollAt("none")
    BY <1>0, <2>1 DEF Control, AppAt
  <2>3. /\ app' \in AppCalls /\ app'.session = app.session /\ app'.stopped = app.stopped
        /\ app'.next \in Devices /\ app'.pc \in {app.pc, "clearStop"}
    BY <1>0, <2>1, <2>2, NextRecords DEF AppPoints
  <2>4. /\ mPendingBuffers' \in [Devices -> Seq(Buffers)]
        /\ mBuffersInDevice' \in [Devices -> Seq(Buffers)]
        /\ \A d \in Devices : mPendingBuffers'[d] \in {mPendingBuffers[d], <<>>}
        /\ \A d \in Devices : mBuffersInDevice'[d] \in {mBuffersInDevice[d], <<>>}
    BY <1>1, <1>2, <2>1
  <2>5. TypeOK'
    BY <1>0, <2>1, <2>2, <2>3, <2>4, AppType DEF TypeOK, PollAt
  <2>6. Control'
    BY <1>0, <2>1, <2>2, <2>3 DEF Control, PollAt, AppAt, At
  <2>7. OneQueues'
    BY <2>1, KeepsQueues DEF IInv, Queuing
  <2>8. OnePlace' /\ Taken' /\ Dequeued' /\ Known'
    <3>1. ~ AppAt("alloc")' /\ poll'.pc \notin {"grab", "pop", "deliver"}
      BY <2>1, <2>2, <2>3 DEF AppAt, PollAt
    <3> QED BY <1>0, <2>1, <2>3, <2>4, <3>1, KeepsMemory DEF IInv, Taking
  <2>9. Room'
    <3>1. Len(mBuffersInDevice'[1]) \in Nat /\ Len(mBuffersInDevice'[1]) <= Len(mBuffersInDevice[1])
      <4>1. 1 \in Devices /\ Len(mBuffersInDevice[1]) \in Nat
        BY <1>0, RoomFacts, SetupFacts
      <4>2. mBuffersInDevice'[1] = mBuffersInDevice[1] \/ mBuffersInDevice'[1] = <<>>
        BY <2>4, <4>1
      <4>3. CASE mBuffersInDevice'[1] = mBuffersInDevice[1]
        BY <4>1, <4>3
      <4>4. CASE mBuffersInDevice'[1] = <<>>
        BY <1>2, <4>1, <4>4
      <4> QED BY <4>2, <4>3, <4>4
    <3> QED BY <1>0, <2>1, <3>1, KeepsRoom DEF IInv, HasFound
  <2>10. FrontTaken' /\ DriverInStep'
    BY <2>2, <2>3 DEF FrontTaken, DriverInStep
  <2> QED BY <2>5, <2>6, <2>7, <2>8, <2>9, <2>10 DEF IInv
<1> QED BY <1>3, <1>4

\* The number of a buffer gives its device and its place there.
LEMMA DivMod ==
  ASSUME NEW a \in Nat, NEW n \in Nat \ {0}, NEW k \in Nat, a < k * n
  PROVE  /\ a \div n \in Nat /\ a % n \in 0..(n - 1) /\ a = (a \div n) * n + (a % n)
         /\ (a \div n) + 1 \in 1..k
<1>1. a \div n \in Nat /\ a % n \in 0..(n - 1) /\ a = n * (a \div n) + (a % n)
  OBVIOUS
<1> DEFINE q == a \div n
<1>2. q \in Nat /\ q * n <= a /\ n * q = q * n
  BY <1>1
<1> HIDE DEF q
<1>3. q < k
  <2>1. SUFFICES ASSUME q >= k PROVE FALSE
    BY <1>2
  <2>2. q * n >= k * n
    BY <1>2, <2>1
  <2> QED BY <1>2, <2>2
<1>4. q + 1 \in 1..k
  BY <1>2, <1>3
<1> QED BY <1>1, <1>2, <1>4 DEF q

\* allocProducerBuffers: the buffer is a new one.
LEMMA AllocKeeps ==
  ASSUME IInv, UNCHANGED setup, AllocBuffer
  PROVE  IInv'
<1> DEFINE d == (app.next \div NumBuffers) + 1
           i == app.next % NumBuffers
           b == [session |-> app.session, memory |-> i, index |-> i]
<1>0. TypeOK /\ Control /\ setup \in Setups /\ Devices' = Devices
  BY SameSetup DEF IInv, Control
<1>1. /\ AppAt("alloc") /\ At("app", "idle") /\ app.next < NumDevices * NumBuffers
      /\ mPendingBuffers' = [mPendingBuffers EXCEPT ![d] = Append(mPendingBuffers[d], b)]
      /\ th' = [th EXCEPT !["app"] = [NoThread EXCEPT !.pc = "count"]]
      /\ app' = [app EXCEPT !.next = app.next + 1]
      /\ UNCHANGED <<mState, mExitPending, mFlushFd, mBuffersInDevice, mBufferQueuing, mFrameSkipNum,
                     node, mPollThread, poll, held>>
  BY DEF AllocBuffer, qbuf
<1>2. /\ app \in AppCalls /\ app.next \in Nat /\ app.session \in Nat /\ poll \in PollCalls
      /\ mPendingBuffers \in [Devices -> Seq(Buffers)] /\ th \in [Threads -> Calls]
      /\ "app" \in Threads
  BY <1>0 DEF TypeOK, AppCalls, Threads
<1>3. /\ d \in Devices /\ i \in Indices /\ (d - 1) * NumBuffers + i = app.next
  <2> DEFINE x == app.next \div NumBuffers
             a == app.next
             N == NumBuffers
             K == NumDevices
  <2>1. N \in Nat \ {0} /\ K \in Nat \ {0} /\ Devices = 1..K
    BY <1>0, SetupFacts
  <2>2. a < K * N /\ a \in Nat
    BY <1>1, <1>2
  <2>3. x \in Nat /\ i \in 0..(N - 1) /\ a = x * N + i /\ x + 1 \in 1..K
    <3> HIDE DEF a, N, K
    <3>1. /\ a \div N \in Nat /\ a % N \in 0..(N - 1) /\ a = (a \div N) * N + (a % N)
          /\ (a \div N) + 1 \in 1..K
      BY <2>1, <2>2, DivMod
    <3> QED BY <3>1 DEF a, N
  <2>4. d = x + 1 /\ d - 1 = x
    BY <2>3
  <2> HIDE DEF x, d, i
  <2> QED BY <2>1, <2>3, <2>4 DEF Indices
<1>4. b \in Buffers /\ b.session = app.session /\ b.memory = i
  <2> HIDE DEF i
  <2> QED BY <1>2, <1>3 DEF Buffers
<1> HIDE DEF d, b, i
<1>5. /\ mPendingBuffers' \in [Devices -> Seq(Buffers)]
      /\ mPendingBuffers'[d] = Append(mPendingBuffers[d], b)
      /\ \A e \in Devices : e # d => mPendingBuffers'[e] = mPendingBuffers[e]
  <2>1. Append(mPendingBuffers[d], b) \in Seq(Buffers)
    BY <1>2, <1>3, <1>4, Lists
  <2> QED BY <1>1, <1>2, <1>3, <2>1
<1>6. /\ th' \in [Threads -> Calls] /\ th'["app"].pc = "count"
      /\ \A u \in Threads : u # "app" => th'[u] = th[u]
  <2>1. [NoThread EXCEPT !.pc = "count"] \in Calls /\ [NoThread EXCEPT !.pc = "count"].pc = "count"
    BY <1>0, CallBegins
  <2> QED BY <1>1, <1>2, <2>1, StepsType DEF Steps
<1>7. /\ app' \in AppCalls /\ app'.pc = "alloc" /\ app'.next = app.next + 1
      /\ app'.session = app.session /\ app'.stopped = app.stopped
  <2> DEFINE n == app.next + 1
  <2>1. n \in Nat /\ app' = [app EXCEPT !.next = n]
    BY <1>1, <1>2
  <2> HIDE DEF n
  <2>2. /\ app' \in AppCalls /\ app'.pc = "alloc" /\ app'.next = n
        /\ app'.session = app.session /\ app'.stopped = app.stopped
    BY <1>1, <1>2, <2>1 DEF AppCalls, AppAt
  <2> QED BY <2>2 DEF n
<1>8. PollAt("none") /\ Quiet
  BY <1>0, <1>1 DEF Control, AppAt
<1>9. \A t \in Threads : At(t, "idle")
  BY <1>0, <1>1, <1>8, NobodyThere
<1>10. \A t \in Threads : /\ ~ Queuing(t)' /\ ~ Taking(t)' /\ ~ HasFound(t)' /\ ~ At(t, "move")'
                          /\ ~ Taking(t) /\ ~ At(t, "move")
  <2>1. \A t \in Threads : th'[t].pc \in {"idle", "count"}
    BY <1>6, <1>9 DEF At
  <2> QED BY <1>9, <2>1 DEF Queuing, Taking, HasFound, At
<1>11. TypeOK'
  BY <1>0, <1>1, <1>5, <1>6, <1>7, <1>8, AppType DEF TypeOK, PollAt
<1>12. Control'
  <2>1. Quiet'
    <3>1. \A c \in Consumers : th'[c] = th[c]
      BY <1>6, CaptureAssumption DEF Threads
    <3> QED BY <1>0, <1>1, <1>8, <3>1 DEF Quiet, At
  <2>2. th'["poll"] = th["poll"]
    BY <1>6 DEF Threads
  <2> QED BY <1>0, <1>1, <1>7, <1>8, <2>1, <2>2 DEF Control, PollAt, AppAt, At
<1>13. OneQueues'
  BY <1>10 DEF OneQueues
<1>14. \A e \in Devices : \A x : Alone(e, x) => AloneNext(e, x)
  BY <1>1 DEF Alone, AloneNext
<1>15. ASSUME NEW x \in Buffers, Old(d, x) PROVE Memory(x) # Memory(b)
  <2>1. SUFFICES ASSUME x.session = app.session, x.memory = i PROVE FALSE
    BY <1>4 DEF Memory
  <2>2. (d - 1) * NumBuffers + x.memory < app.next
    BY <1>1, <1>15, <2>1 DEF Old
  <2> QED BY <1>2, <1>3, <2>1, <2>2
<1>16. /\ \A n \in DOMAIN mPendingBuffers[d] : Memory(mPendingBuffers[d][n]) # Memory(b)
       /\ \A n \in DOMAIN mBuffersInDevice[d] : Memory(mBuffersInDevice[d][n]) # Memory(b)
       /\ held[d] = {}
  <2>1. /\ \A n \in DOMAIN mPendingBuffers[d] : mPendingBuffers[d][n] \in Buffers
        /\ \A n \in DOMAIN mBuffersInDevice[d] : mBuffersInDevice[d][n] \in Buffers
    BY <1>0, <1>3 DEF TypeOK
  <2> QED BY <1>3, <1>8, <1>15, <2>1 DEF IInv, Known, Quiet
<1>17. OnePlace' /\ Taken'
  <2>1. AloneNext(d, Memory(b))
    BY <1>1, <1>16 DEF AloneNext
  <2>2. \A e \in Devices : \A m, n \in DOMAIN mBuffersInDevice'[e] :
            Memory(mBuffersInDevice'[e][m]) = Memory(mBuffersInDevice'[e][n]) => m = n
    BY <1>1 DEF IInv, OnePlace
  <2>3. \A e \in Devices : \A n \in DOMAIN mBuffersInDevice'[e] : \A buffer \in held'[e] :
            Memory(buffer) # Memory(mBuffersInDevice'[e][n])
    BY <1>1 DEF IInv, OnePlace
  <2>4. \A e \in Devices : \A x, y \in held'[e] : Memory(x) = Memory(y) => x = y
    BY <1>1 DEF IInv, OnePlace
  <2>5. OnePlace /\ Taken
    BY DEF IInv
  <2> QED BY <1>0, <1>3, <1>4, <1>5, <1>10, <1>14, <1>16, <2>1, <2>2, <2>3, <2>4, <2>5, PendingGrows
<1>18. Dequeued'
  BY <1>1, <1>8, DequeuedPrimed DEF PollAt
<1>19. Known'
  <2>1. \A e \in Devices : \A x \in Buffers : Old(e, x) => OldNext(e, x)
    <3>1. ASSUME NEW e \in Devices, NEW x \in Buffers, Old(e, x) PROVE OldNext(e, x)
      <4> DEFINE z == (e - 1) * NumBuffers + x.memory
      <4>1. z \in Int
        <5>1. e - 1 \in Int /\ NumBuffers \in Int /\ x.memory \in Int
          BY <1>0, SetupFacts DEF Buffers, Indices
        <5> QED BY <5>1
      <4>2. x.session <= app.session /\ (x.session = app.session => z < app.next)
        BY <1>1, <3>1 DEF Old
      <4> HIDE DEF z
      <4>3. x.session = app.session => z < app.next + 1
        BY <1>2, <4>1, <4>2
      <4> QED BY <1>7, <4>2, <4>3 DEF OldNext, z
    <3> QED BY <3>1
  <2>2. OldNext(d, b)
    <3>1. app.session <= app.session /\ app.next < app.next + 1
      BY <1>2
    <3> QED BY <1>3, <1>4, <1>7, <3>1 DEF OldNext
  <2> QED BY <1>0, <1>1, <1>3, <1>4, <1>5, <1>10, <2>1, <2>2, KnownGrows DEF IInv
<1>20. Room'
  <2>1. Len(mBuffersInDevice'[1]) = Len(mBuffersInDevice[1]) /\ Len(mBuffersInDevice[1]) \in Nat
    BY <1>0, <1>1, RoomFacts
  <2> QED BY <1>0, <1>10, <2>1, KeepsRoom DEF IInv
<1>21. FrontTaken' /\ DriverInStep'
  <2>1. FrontTaken'
    BY <1>10 DEF FrontTaken
  <2>2. ASSUME NEW e PROVE InDriver(e)' = InDriver(e)
    BY <1>1, <1>10, SameInDriver DEF PollAt
  <2>3. DriverInStep'
    BY <1>0, <1>1, <1>7, <2>2 DEF IInv, DriverInStep
  <2> QED BY <2>1, <2>3
<1> QED BY <1>11, <1>12, <1>13, <1>17, <1>18, <1>19, <1>20, <1>21 DEF IInv

\* Any step of the application's thread.
LEMMA AppKeeps ==
  ASSUME IInv, UNCHANGED setup, AppStep
  PROVE  IInv'
  BY FlagsKeep, StartKeeps, EmptyKeeps, AllocKeeps DEF AppStep

-----------------------------------------------------------------------------
(* The theorems.                                                           *)

\* A camera that is opened.
LEMMA InitHolds == Init => IInv
<1> SUFFICES ASSUME Init PROVE IInv
  OBVIOUS
<1>0. setup \in Setups
  BY DEF Init
<1>1. <<>> \in Seq(Buffers) /\ Len(<<>>) = 0 /\ DOMAIN <<>> = {}
  OBVIOUS
<1>2. /\ \A t \in Threads : th[t] = NoThread /\ th[t].pc = "idle"
      /\ poll = NoPoll /\ poll.pc = "none" /\ "app" \in Threads /\ "poll" \in Threads
      /\ Consumers \subseteq Threads
  BY DEF Init, NoThread, NoPoll, Threads
<1>3. \A t \in Threads : ~ Queuing(t) /\ ~ Taking(t) /\ ~ HasFound(t) /\ ~ At(t, "move") /\ At(t, "idle")
  BY <1>2 DEF Queuing, Taking, HasFound, At
<1>4. /\ \A d \in Devices : mPendingBuffers[d] = <<>> /\ mBuffersInDevice[d] = <<>> /\ held[d] = {}
      /\ \A d \in Devices : node[d].queue = <<>>
  BY DEF Init, NewNode
<1>5. TypeOK
  <2>1. app \in AppCalls
    BY DEF Init, AppCalls, AppPoints
  <2>2. /\ mPendingBuffers \in [Devices -> Seq(Buffers)]
        /\ mBuffersInDevice \in [Devices -> Seq(Buffers)]
        /\ mBufferQueuing \in [Devices -> BOOLEAN] /\ mFrameSkipNum \in [Devices -> Nat]
        /\ node \in [Devices -> Nodes] /\ th \in [Threads -> Calls] /\ poll \in PollCalls
        /\ held \in [Devices -> SUBSET Buffers]
    BY <1>0, <1>1, SetupFacts DEF Init
  <2> QED BY <1>2, <2>1, <2>2 DEF Init, TypeOK
<1>6. Control
  BY <1>0, <1>2, <1>3, <1>4 DEF Init, Control, PollAt, AppAt, Quiet
<1>7. OneQueues /\ Taken /\ FrontTaken
  BY <1>3 DEF OneQueues, Taken, FrontTaken
<1>8. OnePlace /\ Known
  BY <1>1, <1>2, <1>3, <1>4 DEF OnePlace, Known
<1>9. Dequeued
  BY <1>2 DEF Dequeued, PollAt
<1>10. Room
  <2>1. {t \in Threads : HasFound(t)} = {}
    BY <1>3
  <2>2. Cardinality({t \in Threads : HasFound(t)}) = 0
    BY <2>1, FS_EmptySet
  <2>3. Len(mBuffersInDevice[1]) = 0
    BY <1>0, <1>1, <1>4, SetupFacts
  <2> QED BY <1>0, <1>5, <2>2, <2>3, RoomFacts DEF Room
<1>11. DriverInStep
  <2>1. ASSUME NEW d \in Devices PROVE InDriver(d) = <<>>
    <3>1. InDriver(d) = QueuedIn(d)
      BY <1>3, NotMoving
    <3> QED BY <1>2, <1>4, <3>1 DEF QueuedIn, PollAt
  <2> QED BY <1>1, <1>4, <2>1 DEF DriverInStep
<1> QED BY <1>5, <1>6, <1>7, <1>8, <1>9, <1>10, <1>11 DEF IInv

\* A step that changes nothing.
LEMMA StutterKeeps ==
  ASSUME IInv, UNCHANGED <<vars, setup>>
  PROVE  IInv'
<1>1. /\ UNCHANGED <<mState, mExitPending, mFlushFd, mPendingBuffers, mBuffersInDevice,
                     mBufferQueuing, mFrameSkipNum, node, th, mPollThread, poll, app, held>>
      /\ UNCHANGED setup
  BY DEF vars
<1>2. /\ TypeOK /\ Control /\ setup \in Setups /\ Devices' = Devices
  BY <1>1, SameSetup DEF IInv, Control
<1>3. Control'
  BY <1>1, <1>2 DEF Control, PollAt, AppAt, At, Quiet
<1>4. \A d \in Devices : \A b \in Buffers : Old(d, b) => OldNext(d, b)
  BY <1>1, StaysOld DEF AppAt
<1> QED BY <1>1, <1>2, <1>3, <1>4, AppMoves DEF TypeOK

\* IInv is inductive: each step of each thread keeps it.
LEMMA IInvHolds == Spec => []IInv
<1>1. Init => IInv
  BY InitHolds
<1>2. IInv /\ [Next /\ UNCHANGED setup]_<<vars, setup>> => IInv'
  <2>1. SUFFICES ASSUME IInv, [Next /\ UNCHANGED setup]_<<vars, setup>> PROVE IInv'
    OBVIOUS
  <2>2. CASE Next /\ UNCHANGED setup
    BY <2>1, <2>2, ProcessKeeps, ReturnKeeps, PollKeeps, AppKeeps DEF Next
  <2>3. CASE UNCHANGED <<vars, setup>>
    BY <2>1, <2>3, StutterKeeps
  <2> QED BY <2>1, <2>2, <2>3
<1> QED BY <1>1, <1>2, PTL DEF Spec

\* The members of the capture unit, its devices and its threads keep their types; the
\* poll thread dequeues only from a ready device that has a buffer in its list.
THEOREM TypeCorrect == Spec => []TypeOK
<1>1. IInv => TypeOK
  BY DEF IInv
<1> QED BY <1>1, IInvHolds, PTL

\* processPendingBuffers counts the buffers of the main device in one critical section
\* and queues in another: however many consumers there are, each of them adds at most
\* one buffer to what mMaxBuffersInDevice allows.
THEOREM DeviceIsBounded == Spec => []InDeviceBound
<1>1. IInv => InDeviceBound
  <2>1. SUFFICES ASSUME IInv PROVE InDeviceBound
    OBVIOUS
  <2>2. TypeOK /\ setup \in Setups /\ Room
    BY <2>1 DEF IInv, Control
  <2> DEFINE c == Cardinality({t \in Threads : HasFound(t)})
  <2>3. c \in Nat /\ Len(mBuffersInDevice[1]) \in Nat /\ mMaxBuffersInDevice \in Nat
        /\ Cardinality(Consumers) \in Nat
    BY <2>2, RoomFacts
  <2>4. Len(mBuffersInDevice[1]) + c <= mMaxBuffersInDevice + Cardinality(Consumers)
    BY <2>2 DEF Room
  <2> HIDE DEF c
  <2> QED BY <2>3, <2>4 DEF InDeviceBound
<1> QED BY <1>1, IInvHolds, PTL

\* A raw buffer is in one place: in one of the two lists of its device, once, or with the
\* consumers, whichever threads queue and dequeue, and over any number of sessions.
THEOREM BuffersAreInOnePlace == Spec => []BufferInOnePlace
<1>1. IInv => BufferInOnePlace
  <2>1. SUFFICES ASSUME IInv, NEW d \in Devices
                 PROVE  /\ \A m, n \in DOMAIN Listed(d) :
                              Memory(Listed(d)[m]) = Memory(Listed(d)[n]) => m = n
                        /\ \A n \in DOMAIN Listed(d) : \A buffer \in held[d] :
                              Memory(Listed(d)[n]) # Memory(buffer)
    BY DEF BufferInOnePlace
  <2> DEFINE p == mPendingBuffers[d]
             l == mBuffersInDevice[d]
             a == Listed(d)
  <2>2. p \in Seq(Buffers) /\ l \in Seq(Buffers) /\ a = p \o l
    BY <2>1 DEF IInv, TypeOK, Listed
  <2>3. /\ \A m, n \in DOMAIN p : Memory(p[m]) = Memory(p[n]) => m = n
        /\ \A m, n \in DOMAIN l : Memory(l[m]) = Memory(l[n]) => m = n
        /\ \A n \in DOMAIN p : \A m \in DOMAIN l : Memory(p[n]) # Memory(l[m])
        /\ \A n \in DOMAIN p : \A buffer \in held[d] : Memory(p[n]) # Memory(buffer)
        /\ \A n \in DOMAIN l : \A buffer \in held[d] : Memory(l[n]) # Memory(buffer)
    BY <2>1 DEF IInv, OnePlace, Alone
  <2> HIDE DEF p, l, a
  <2>4. /\ Len(p) \in Nat /\ Len(l) \in Nat /\ DOMAIN p = 1..Len(p) /\ DOMAIN l = 1..Len(l)
        /\ DOMAIN a = 1..Len(p) + Len(l)
        /\ \A n \in 1..Len(p) + Len(l) : a[n] = IF n <= Len(p) THEN p[n] ELSE l[n - Len(p)]
    BY <2>2
  <2>5. \A n \in DOMAIN a : \/ n \in DOMAIN p /\ a[n] = p[n]
                            \/ n - Len(p) \in DOMAIN l /\ a[n] = l[n - Len(p)] /\ n \in Int
    BY <2>4
  <2>6. ASSUME NEW m \in DOMAIN a, NEW n \in DOMAIN a, Memory(a[m]) = Memory(a[n]) PROVE m = n
    <3>1. CASE m \in DOMAIN p /\ a[m] = p[m] /\ n \in DOMAIN p /\ a[n] = p[n]
      BY <2>3, <2>6, <3>1
    <3>2. CASE /\ m - Len(p) \in DOMAIN l /\ a[m] = l[m - Len(p)] /\ m \in Int
               /\ n - Len(p) \in DOMAIN l /\ a[n] = l[n - Len(p)] /\ n \in Int
      <4>1. m - Len(p) = n - Len(p)
        BY <2>3, <2>6, <3>2
      <4> QED BY <2>4, <3>2, <4>1
    <3> QED BY <2>3, <2>5, <2>6, <3>1, <3>2
  <2>7. \A n \in DOMAIN a : \A buffer \in held[d] : Memory(a[n]) # Memory(buffer)
    BY <2>3, <2>5
  <2> QED BY <2>6, <2>7 DEF a
<1> QED BY <1>1, IInvHolds, PTL

\* Until a node that streams is stopped, mBuffersInDevice lists the buffers in the order
\* in which the driver holds them, for any number of devices, buffers and consumers.
THEOREM DriverIsInStep == Spec => []DriverInStep
<1>1. IInv => DriverInStep
  BY DEF IInv
<1> QED BY <1>1, IInvHolds, PTL

=============================================================================
