------------------------ MODULE ShareReferBufferPool ------------------------
(***************************************************************************)
(* The TNR reference buffers of one camera, src/src/core/psysprocessor/     *)
(* ShareReferBufferPool.cpp, used by PGCommon::iterate.  The video pipe     *)
(* (producer) and the still pipe (consumer) each have a ring of references; *)
(* a still frame without a reference of its own copies the one the video    *)
(* pipe made of the frame before, and waits for it when it is still to      *)
(* come.  The copy is made without the lock.                               *)
(*                                                                         *)
(* External is PSysProcessor: it makes the tasks of both pipes, of new      *)
(* frames and of raw frames it has kept for reprocessing, and so decides    *)
(* how far the two pipes can be apart.                                     *)
(***************************************************************************)
EXTENDS Integers, Sequences, FiniteSets, SequencesExt

CONSTANTS
    MaxRawDataNum,       \* raw buffers, and reference buffers of the producer
    MaxRequestsInflight, \* tasks at the same time
    CONSUMER_BUFFER_NUM,
    WaitFrames,          \* waits for the producer, 3
    Kinds,               \* sets of pipes a task of a new frame may run
    Reprocess,           \* the same for a kept frame
    LastFrame            \* bound: the sequences are 0..LastFrame

Pipes == {"producer", "consumer"}
ASSUME PoolAssumption ==
    /\ {MaxRequestsInflight, WaitFrames} \subseteq Nat \ {0} /\ LastFrame \in Nat
    /\ {CONSUMER_BUFFER_NUM, MaxRawDataNum} \subseteq Nat \ {0, 1}
    /\ MaxRawDataNum >= MaxRequestsInflight
    /\ Kinds \subseteq SUBSET Pipes /\ Reprocess \subseteq SUBSET Pipes

VARIABLES
    refer,     \* pipe -> mProducerBuffers, mConsumerBuffers: [sequence, buffer]
    active,    \* of the pair: the references have the same size
    content,   \* buffer -> the frame its data is of, -1: none
    pg,        \* pipe -> its PGCommon::iterate; ref: the frame its input is meant
               \* to be of, -1: acquireBuffer found none
    tasks,     \* tasks of PSysProcessor: frame, pipes that have not run it
    raw,       \* the raw frames that are kept or in use
    newest     \* the last frame captured

vars == <<refer, active, content, pg, tasks, raw, newest>>

-----------------------------------------------------------------------------
NoBuffer == <<"none", 0>>
BuffersOf(pipe) ==
    IF pipe = "producer" THEN {pipe} \X (1..MaxRawDataNum)
    ELSE {pipe} \X (1..CONSUMER_BUFFER_NUM)
Buffers == BuffersOf("producer") \cup BuffersOf("consumer")

Idle == [pc |-> "idle", seq |-> -1, in |-> NoBuffer, out |-> NoBuffer,
         src |-> NoBuffer, ref |-> -1, waits |-> 0]

Init ==
    /\ refer = [pipe \in Pipes |->
          SetToSeq({[sequence |-> -1, buffer |-> b] : b \in BuffersOf(pipe)})]
    /\ active \in BOOLEAN
    /\ content = [b \in Buffers |-> -1]
    /\ pg = [pipe \in Pipes |-> Idle]
    /\ tasks = <<>> /\ raw = {} /\ newest = -1

-----------------------------------------------------------------------------
(* PSysProcessor.                                                          *)

InUse(f) == \E i \in DOMAIN tasks : tasks[i].frame = f
RawLimit == MaxRawDataNum - MaxRequestsInflight
\* returnRawBuffer, with the frames used as these tasks say
ReturnRaw(frames, inFlight) ==
    IF /\ Cardinality(frames) > RawLimit
       /\ \A i \in DOMAIN inFlight : inFlight[i].frame # Min(frames)
    THEN frames \ {Min(frames)} ELSE frames

AddTask(f, kind) ==
    /\ Len(tasks) < MaxRequestsInflight
    /\ tasks' = Append(tasks, [frame |-> f, left |-> kind])
    /\ UNCHANGED <<refer, active, content, pg>>

\* A frame is captured if there is a raw buffer for it; it is kept, and a task made
NextFrame ==
    /\ newest < LastFrame
    /\ newest' = newest + 1
    /\ \/ /\ Cardinality(raw) < MaxRawDataNum
          /\ \E kind \in Kinds :
              /\ IF kind = {} THEN UNCHANGED <<refer, active, content, pg, tasks>>
                 ELSE AddTask(newest + 1, kind)
          /\ raw' = ReturnRaw(raw \cup {newest + 1}, tasks')
       \/ /\ Cardinality(raw) = MaxRawDataNum
          /\ UNCHANGED <<refer, active, content, pg, tasks, raw>>

\* handleRawReprocessing: a task of a frame that was kept
ReprocessFrame ==
    /\ \E f \in raw, kind \in Reprocess : AddTask(f, kind)
    /\ UNCHANGED <<raw, newest>>

-----------------------------------------------------------------------------
(* acquireBuffer and releaseBuffer.                                        *)

At(pipe, point) == pg[pipe].pc = point
Goto(pipe, point) == pg' = [pg EXCEPT ![pipe].pc = point]

TaskOf(pipe) == Min({i \in DOMAIN tasks : pipe \in tasks[i].left})

\* prepareTerminalBuffers: the oldest reference becomes the output, and the newest
\* the input.  The result of acquireBuffer is ignored.
AcquireBuffer(pipe) ==
    /\ At(pipe, "idle")
    /\ \E i \in DOMAIN tasks : pipe \in tasks[i].left
    /\ LET seq   == tasks[TaskOf(pipe)].frame
           rest  == Tail(refer[pipe])
           found == {n \in DOMAIN rest : rest[n].sequence = seq - 1}
           own   == Last(rest).sequence = seq - 1 \/ seq = 0
           input == IF ~own /\ pipe = "producer" /\ found # {}
                    THEN rest[Min(found)] ELSE Last(rest)
           copies == ~own /\ pipe = "consumer" /\ active
       IN  /\ refer' = [refer EXCEPT ![pipe] = rest]
           /\ content' = [content EXCEPT ![Head(refer[pipe]).buffer] = -1]
           /\ pg' = [pg EXCEPT ![pipe] =
                 [Idle EXCEPT !.pc = IF copies THEN "find" ELSE "run", !.seq = seq,
                              !.in = input.buffer, !.out = Head(refer[pipe]).buffer,
                              !.ref = IF input.sequence = seq - 1 THEN seq - 1 ELSE -1,
                              !.waits = WaitFrames]]
    /\ UNCHANGED <<active, tasks, raw, newest>>

\* findReferBuffer: the newest reference of the producer that is old enough
ReferBuffers(sequence) ==
    {n \in DOMAIN refer["producer"] : refer["producer"][n].sequence <= sequence}
EnoughData(sequence) ==
    refer["producer"] # <<>> /\ Last(refer["producer"]).sequence >= sequence
\* Mutant: the oldest one, a search from the front.
findReferBufferMutant(sequence) == refer["producer"][Min(ReferBuffers(sequence))]
findReferBuffer(sequence) == refer["producer"][Max(ReferBuffers(sequence))]

\* acquireBuffer of the consumer: look for the reference, wait when it is to come
FindReference ==
    LET me == pg["consumer"] IN
    /\ At("consumer", "find")
    /\ IF ~ EnoughData(me.seq - 1)
       THEN pg' = [pg EXCEPT !["consumer"].pc = "wait",
                             !["consumer"].waits = @ - 1]
       ELSE IF ReferBuffers(me.seq - 1) = {} THEN Goto("consumer", "run")
       ELSE pg' = [pg EXCEPT !["consumer"].pc = "copy",
                             !["consumer"].src = findReferBuffer(me.seq - 1).buffer,
                             !["consumer"].ref = findReferBuffer(me.seq - 1).sequence]
    /\ UNCHANGED <<refer, active, content, tasks, raw, newest>>

\* the wait is over, by a signal or the time: look again, or give up
AfterWait(me) == [me EXCEPT !.pc = IF me.waits = 0 THEN "run" ELSE "find"]
WaitTimesOut ==
    /\ At("consumer", "wait")
    /\ pg' = [pg EXCEPT !["consumer"] = AfterWait(@)]
    /\ UNCHANGED <<refer, active, content, tasks, raw, newest>>

CopyReference ==
    /\ At("consumer", "copy")
    /\ content' = [content EXCEPT ![pg["consumer"].in] = content[pg["consumer"].src]]
    /\ Goto("consumer", "run")
    /\ UNCHANGED <<refer, active, tasks, raw, newest>>

\* Mutant: the output of an old frame is put behind the newest.
ReleasedMutant(queue, seq, buffer) ==
    Append(queue, [sequence |-> seq, buffer |-> buffer])
\* releaseBuffer: the output of an old frame is dropped
Released(queue, seq, buffer) ==
    IF seq < Last(queue).sequence
    THEN <<[sequence |-> -1, buffer |-> buffer]>> \o queue
    ELSE Append(queue, [sequence |-> seq, buffer |-> buffer])

\* executePG has filled the output; postTerminalBuffersDone releases it, and
\* PSysProcessor gets the task back when both pipes have run it
ReleaseBuffer(pipe) ==
    LET me   == pg[pipe]
        i    == TaskOf(pipe)
        left == tasks[i].left \ {pipe}
        signalled == IF pipe = "producer" /\ At("consumer", "wait")
                     THEN [pg EXCEPT !["consumer"] = AfterWait(@)] ELSE pg
    IN
    /\ At(pipe, "run")
    /\ content' = [content EXCEPT ![me.out] = me.seq]
    /\ refer' = [refer EXCEPT ![pipe] = Released(@, me.seq, me.out)]
    /\ pg' = [signalled EXCEPT ![pipe] = Idle]
    /\ tasks' = IF left = {} THEN RemoveAt(tasks, i) ELSE [tasks EXCEPT ![i].left = left]
    /\ raw' = IF left = {} THEN ReturnRaw(raw, tasks') ELSE raw
    /\ UNCHANGED <<active, newest>>

Next ==
    \/ NextFrame \/ ReprocessFrame
    \/ \E pipe \in Pipes : AcquireBuffer(pipe) \/ ReleaseBuffer(pipe)
    \/ FindReference \/ WaitTimesOut \/ CopyReference

Spec == Init /\ [][Next]_vars

-----------------------------------------------------------------------------
\* "Sort sequence in ascending order" (ShareReferBufferPool.h): the rings stay in
\* order, also when kept frames are run again between new ones.
Sorted ==
    \A pipe \in Pipes : \A m, n \in DOMAIN refer[pipe] :
        m < n => refer[pipe][m].sequence <= refer[pipe][n].sequence

\* The video pipe, and the still pipe when it copies, run with the data of the frame
\* that acquireBuffer found for them: the one before, or, for a copy, the newest the
\* video pipe has of those before.  The copy is made without the lock, while the video
\* pipe takes its oldest references for new outputs: the ring, as long as there are
\* raw buffers, is long enough until the oldest frame of MaxRawDataNum is the one that
\* is run again.  A reference of the still pipe's own is not covered: the copy
\* overwrites the newest of them and leaves its sequence.
RightReference ==
    \A pipe \in Pipes :
        /\ At(pipe, "run") /\ pg[pipe].ref # -1
        /\ pipe = "producer" \/ pg[pipe].src # NoBuffer
        /\ newest - pg[pipe].seq < MaxRawDataNum - 1
        => content[pg[pipe].in] = pg[pipe].ref

=============================================================================
