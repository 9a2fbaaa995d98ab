--------------------- MODULE ShareReferBufferPool_proofs ---------------------
(***************************************************************************)
(* Proofs about ShareReferBufferPool for every size of the rings and every  *)
(* number of frames.  The order of both rings (Sorted) rests on their       *)
(* length.  That a copied reference is the right one (RightReference) needs *)
(* that the video pipe runs every frame once, so that the sequences in its  *)
(* ring lie at least as far apart as their places (Spread): while the ring  *)
(* is that long, the buffer a still frame copies is not yet the oldest one. *)
(***************************************************************************)
EXTENDS ShareReferBufferPool, FiniteSetTheorems, SequenceTheorems,
        WellFoundedInduction, TLAPS

Ring == refer["producer"]
Size(pipe) == IF pipe = "producer" THEN MaxRawDataNum ELSE CONSUMER_BUFFER_NUM

\* the video pipe does not run a frame that was kept
StillOnlyAgain == \A kind \in Reprocess : "producer" \notin kind

References(pipe) == [sequence : Int, buffer : BuffersOf(pipe)]
Iterates(pipe) ==
    [pc : {"idle", "find", "wait", "copy", "run"}, seq : Int,
     in : BuffersOf(pipe) \cup {NoBuffer}, out : BuffersOf(pipe) \cup {NoBuffer},
     src : BuffersOf("producer") \cup {NoBuffer}, ref : Int, waits : Int]
PoolTasks == [frame : Int, left : SUBSET Pipes]

PoolType ==
    /\ \A pipe \in Pipes : refer[pipe] \in Seq(References(pipe))
    /\ \A pipe \in Pipes : pg[pipe] \in Iterates(pipe)
    /\ DOMAIN refer = Pipes /\ DOMAIN pg = Pipes
    /\ content \in [Buffers -> Int]
    /\ tasks \in Seq(PoolTasks) /\ raw \subseteq Int /\ newest \in Int

\* The buffer that a pipe writes is in no ring
RingLen == \A pipe \in Pipes :
    Len(refer[pipe]) = IF At(pipe, "idle") THEN Size(pipe) ELSE Size(pipe) - 1
RingLow == \A pipe \in Pipes : \A n \in DOMAIN refer[pipe] : refer[pipe][n].sequence >= -1

\* A pipe that runs has a task and an output
HasTask == \A pipe \in Pipes : ~ At(pipe, "idle") =>
    /\ \E i \in DOMAIN tasks : pipe \in tasks[i].left
    /\ pg[pipe].out \in BuffersOf(pipe)

\* A copy has a source
HasSource == At("consumer", "copy") => pg["consumer"].src \in BuffersOf("producer")

OrderInv == PoolType /\ RingLen /\ RingLow /\ HasTask /\ HasSource /\ Sorted

\* The data of the video pipe's references, each in a buffer of its own
Fresh ==
    /\ \A n \in DOMAIN Ring : Ring[n].sequence # -1 =>
         content[Ring[n].buffer] = Ring[n].sequence
    /\ \A m, n \in DOMAIN Ring : m # n => Ring[m].buffer # Ring[n].buffer
    /\ ~ At("producer", "idle") =>
         /\ pg["producer"].out \in BuffersOf("producer")
         /\ \A n \in DOMAIN Ring : Ring[n].buffer # pg["producer"].out

\* the place of the first task of the video pipe
First(i) ==
    /\ i \in DOMAIN tasks /\ "producer" \in tasks[i].left
    /\ \A j \in DOMAIN tasks : "producer" \in tasks[j].left => i <= j

\* The tasks of the video pipe are in the order of the frames, and newer than its ring
InOrder ==
    /\ \A i, j \in DOMAIN tasks :
         /\ i < j /\ "producer" \in tasks[i].left /\ "producer" \in tasks[j].left
         => tasks[i].frame < tasks[j].frame
    /\ \A i \in DOMAIN tasks : "producer" \in tasks[i].left =>
         tasks[i].frame \in 0..newest /\ tasks[i].frame > Last(Ring).sequence
    /\ ~ At("producer", "idle") =>
         /\ At("producer", "run")
         /\ \E i \in DOMAIN tasks : First(i) /\ pg["producer"].seq = tasks[i].frame
    /\ newest >= -1 /\ Last(Ring).sequence <= newest

Spread == \A m, n \in DOMAIN Ring :
    m < n /\ Ring[m].sequence >= 0 => Ring[n].sequence - Ring[m].sequence >= n - m

\* The still pipe's source stays in the ring, with nothing older than its frame behind it
SourceAt(k) ==
    /\ Ring[k].buffer = pg["consumer"].src /\ Ring[k].sequence = pg["consumer"].ref
    /\ \A n \in DOMAIN Ring : n > k => Ring[n].sequence >= pg["consumer"].seq
Recent(pipe) == newest - pg[pipe].seq < MaxRawDataNum - 1
Source ==
    /\ At("consumer", "find") \/ At("consumer", "wait") => pg["consumer"].src = NoBuffer
    /\ ~ At("consumer", "idle") => pg["consumer"].in \in BuffersOf("consumer")
    /\ At("consumer", "copy") /\ pg["consumer"].ref # -1 /\ Recent("consumer") =>
         /\ Last(Ring).sequence >= pg["consumer"].seq - 1
         /\ \E k \in DOMAIN Ring : SourceAt(k)

\* What the video pipe reads, and what the still pipe has copied, is of the right frame
Reads ==
    /\ At("producer", "run") /\ pg["producer"].ref # -1 =>
         /\ pg["producer"].in \in BuffersOf("producer")
         /\ content[pg["producer"].in] = pg["producer"].ref
    /\ /\ At("consumer", "run") /\ pg["consumer"].ref # -1
       /\ pg["consumer"].src # NoBuffer /\ Recent("consumer")
       => content[pg["consumer"].in] = pg["consumer"].ref

DataInv == Fresh /\ InOrder /\ Spread /\ Source /\ Reads

-----------------------------------------------------------------------------
(* The operators that the module takes from the libraries.                 *)

\* A set of natural numbers that is not empty has a least element.
LEMMA MinExists ==
  ASSUME NEW S \in SUBSET Nat, S # {}
  PROVE  \E x \in S : \A y \in S : x <= y
<1>1. PICK x \in S : \A y \in S : ~ (<<y, x>> \in OpToRel(<, Nat))
  BY NatLessThanWellFounded, WFMin
<1>2. OpToRel(<, Nat) = {ss \in Nat \X Nat : ss[1] < ss[2]}
  BY Zenon DEF OpToRel
<1>3. \A y \in S : ~ (y < x)
  BY <1>1, <1>2
<1> QED BY <1>3

\* Min() is that element.
LEMMA MinIn ==
  ASSUME NEW S \in SUBSET Nat, S # {}
  PROVE  Min(S) \in S /\ \A y \in S : Min(S) <= y
  BY MinExists DEF Min

\* Max() is the greatest element of a set of places of a sequence.
LEMMA MaxIn ==
  ASSUME NEW N \in Nat, NEW S \in SUBSET (1..N), S # {}
  PROVE  Max(S) \in S /\ \A y \in S : Max(S) >= y
<1> DEFINE T == {t \in Nat : N - t \in S}
<1>1. T # {}
  <2>1. PICK s \in S : TRUE
    OBVIOUS
  <2>2. N - s \in Nat /\ N - (N - s) = s
    OBVIOUS
  <2>3. N - s \in T
    BY <2>1, <2>2
  <2> QED BY <2>3
<1>2. PICK t \in T : \A u \in T : t <= u
  BY <1>1, MinExists
<1>3. N - t \in S
  BY <1>2
<1>4. ASSUME NEW y \in S PROVE N - t >= y
  <2>1. N - y \in Nat /\ N - (N - y) = y
    OBVIOUS
  <2>2. t <= N - y
    BY <1>2, <2>1
  <2> QED BY <2>1, <2>2
<1>5. \E x \in S : \A y \in S : x >= y
  BY <1>3, <1>4
<1> QED BY <1>5 DEF Max

\* SetToSeq() lists a finite set, each element once.
LEMMA SetToSeqLists ==
  ASSUME NEW S, IsFiniteSet(S)
  PROVE  /\ SetToSeq(S) \in [1..Cardinality(S) -> S]
         /\ \A m, n \in 1..Cardinality(S) : m # n => SetToSeq(S)[m] # SetToSeq(S)[n]
<1>1. ExistsBijection(1..Cardinality(S), S) /\ Cardinality(S) \in Nat
  BY FS_CardinalityType
<1>2. PICK f \in [1..Cardinality(S) -> S] : IsInjective(f)
  BY <1>1 DEF ExistsBijection, Bijection, Injection
<1>3. SetToSeq(S) \in [1..Cardinality(S) -> S] /\ IsInjective(SetToSeq(S))
  BY <1>2 DEF SetToSeq
<1> QED BY <1>3 DEF IsInjective

\* RemoveAt() closes the gap.
LEMMA RemoveAtShifts ==
  ASSUME NEW S, NEW s \in Seq(S), NEW i \in DOMAIN s
  PROVE  /\ RemoveAt(s, i) \in Seq(S)
         /\ Len(RemoveAt(s, i)) = Len(s) - 1
         /\ \A k \in 1..Len(s) - 1 : RemoveAt(s, i)[k] = IF k < i THEN s[k] ELSE s[k + 1]
<1> DEFINE a == SubSeq(s, 1, i - 1)
           b == SubSeq(s, i + 1, Len(s))
<1>1. /\ a \in Seq(S) /\ Len(a) = i - 1
      /\ \A k \in 1..i - 1 : a[k] = s[k]
  OBVIOUS
<1>2. /\ b \in Seq(S) /\ Len(b) = Len(s) - i
      /\ \A k \in 1..Len(s) - i : b[k] = s[i + k]
  OBVIOUS
<1>3. /\ a \o b \in Seq(S) /\ Len(a \o b) = Len(s) - 1
      /\ \A k \in 1..Len(s) - 1 : (a \o b)[k] = IF k <= i - 1 THEN a[k] ELSE b[k - (i - 1)]
  <2> HIDE DEF a, b
  <2> QED BY <1>1, <1>2, ConcatProperties, SMTT(30)
<1>4. ASSUME NEW k \in 1..Len(s) - 1
      PROVE  (a \o b)[k] = IF k < i THEN s[k] ELSE s[k + 1]
  <2> HIDE DEF a, b
  <2>1. CASE k < i
    BY <1>1, <1>3, <2>1
  <2>2. CASE ~ (k < i)
    <3>1. k - (i - 1) \in 1..Len(s) - i /\ i + (k - (i - 1)) = k + 1
      BY <2>2
    <3>2. ~ (k <= i - 1)
      BY <2>2
    <3>3. (a \o b)[k] = b[k - (i - 1)]
      BY <1>3, <3>2
    <3>4. b[k - (i - 1)] = s[i + (k - (i - 1))]
      BY <1>2, <3>1
    <3> QED BY <2>2, <3>1, <3>3, <3>4
  <2> QED BY <2>1, <2>2
<1> QED BY <1>3, <1>4 DEF RemoveAt

-----------------------------------------------------------------------------
(* What the actions do, field by field.                                    *)

\* The first task of a pipe that has one.
LEMMA TaskOfIn ==
  ASSUME PoolType, NEW pipe \in Pipes, \E i \in DOMAIN tasks : pipe \in tasks[i].left
  PROVE  /\ TaskOf(pipe) \in DOMAIN tasks /\ pipe \in tasks[TaskOf(pipe)].left
         /\ \A i \in DOMAIN tasks : pipe \in tasks[i].left => TaskOf(pipe) <= i
         /\ tasks[TaskOf(pipe)] \in PoolTasks /\ tasks[TaskOf(pipe)].frame \in Int
<1> DEFINE S == {i \in DOMAIN tasks : pipe \in tasks[i].left}
<1>1. S # {} /\ S \in SUBSET Nat
  BY DEF PoolType
<1>2. Min(S) \in S /\ \A y \in S : Min(S) <= y
  BY <1>1, MinIn
<1>3. TaskOf(pipe) = Min(S)
  BY DEF TaskOf
<1>4. /\ TaskOf(pipe) \in DOMAIN tasks /\ pipe \in tasks[TaskOf(pipe)].left
      /\ \A i \in DOMAIN tasks : pipe \in tasks[i].left => TaskOf(pipe) <= i
  BY <1>2, <1>3
<1>5. tasks[TaskOf(pipe)] \in PoolTasks
  BY <1>4 DEF PoolType
<1> QED BY <1>4, <1>5 DEF PoolTasks

\* The last reference of a ring.
LEMMA LastIn ==
  ASSUME NEW S, NEW s \in Seq(S), Len(s) >= 1
  PROVE  Len(s) \in DOMAIN s /\ Last(s) = s[Len(s)] /\ Last(s) \in S
  BY DEF Last

\* A new task is put behind the others; the rings do not change.
LEMMA NewTaskEffect ==
  ASSUME PoolType, NextFrame \/ ReprocessFrame
  PROVE  /\ UNCHANGED <<refer, content, pg>>
         /\ newest' \in {newest, newest + 1} /\ raw' \subseteq Int
         /\ \/ tasks' = tasks
            \/ \E f \in Int, kind \in SUBSET Pipes :
                 /\ tasks' = Append(tasks, [frame |-> f, left |-> kind])
                 /\ StillOnlyAgain /\ "producer" \in kind =>
                      f = newest + 1 /\ newest' = newest + 1
<1>1. CASE NextFrame
  <2>1. newest' = newest + 1 /\ newest + 1 \in Int
    BY <1>1 DEF NextFrame, PoolType
  <2>2. CASE /\ Cardinality(raw) < MaxRawDataNum
             /\ \E kind \in Kinds :
                 /\ IF kind = {} THEN UNCHANGED <<refer, active, content, pg, tasks>>
                    ELSE AddTask(newest + 1, kind)
             /\ raw' = ReturnRaw(raw \cup {newest + 1}, tasks')
    <3>1. raw' \subseteq Int
      BY <2>1, <2>2 DEF ReturnRaw, PoolType
    <3>2. PICK kind \in Kinds :
            IF kind = {} THEN UNCHANGED <<refer, active, content, pg, tasks>>
            ELSE AddTask(newest + 1, kind)
      BY <2>2
    <3>3. kind \in SUBSET Pipes
      BY PoolAssumption
    <3> QED BY <2>1, <3>1, <3>2, <3>3 DEF AddTask
  <2>3. CASE UNCHANGED <<refer, active, content, pg, tasks, raw>>
    BY <2>1, <2>3 DEF PoolType
  <2> QED BY <1>1, <2>2, <2>3 DEF NextFrame
<1>2. CASE ReprocessFrame
  <2>1. PICK f \in raw, kind \in Reprocess : AddTask(f, kind)
    BY <1>2 DEF ReprocessFrame
  <2>2. UNCHANGED <<raw, newest>> /\ f \in Int /\ kind \in SUBSET Pipes
    BY <1>2, PoolAssumption DEF ReprocessFrame, PoolType
  <2> QED BY <2>1, <2>2 DEF AddTask, StillOnlyAgain, PoolType
<1> QED BY <1>1, <1>2

\* The input is one of the references that are left.
LEMMA AcquireEffect ==
  ASSUME PoolType, RingLen, NEW pipe \in Pipes, AcquireBuffer(pipe)
  PROVE  LET rest == Tail(refer[pipe]) IN
         /\ Len(refer[pipe]) >= 2
         /\ refer' = [refer EXCEPT ![pipe] = rest]
         /\ content' = [content EXCEPT ![Head(refer[pipe]).buffer] = -1]
         /\ \A q \in Pipes : q # pipe => pg'[q] = pg[q]
         /\ DOMAIN pg' = Pipes
         /\ pg'[pipe].pc \in {"find", "run"} /\ pg'[pipe].src = NoBuffer
         /\ pipe = "producer" => pg'[pipe].pc = "run"
         /\ pg'[pipe].seq = tasks[TaskOf(pipe)].frame
         /\ pg'[pipe].out = Head(refer[pipe]).buffer
         /\ pg'[pipe] \in Iterates(pipe)
         /\ \E n \in DOMAIN rest :
              /\ pg'[pipe].in = rest[n].buffer
              /\ pg'[pipe].ref # -1 => pg'[pipe].ref = rest[n].sequence
<1> DEFINE rest  == Tail(refer[pipe])
           seq   == tasks[TaskOf(pipe)].frame
           found == {n \in DOMAIN rest : rest[n].sequence = seq - 1}
           own   == Last(rest).sequence = seq - 1 \/ seq = 0
           input == IF ~ own /\ pipe = "producer" /\ found # {}
                    THEN rest[Min(found)] ELSE Last(rest)
           copies == ~ own /\ pipe = "consumer" /\ active
           ref == IF input.sequence = seq - 1 THEN seq - 1 ELSE -1
<1>1. seq \in Int
  BY TaskOfIn DEF AcquireBuffer
<1>2. Len(refer[pipe]) >= 2 /\ refer[pipe] \in Seq(References(pipe))
  <2>1. Len(refer[pipe]) = Size(pipe)
    BY DEF RingLen, AcquireBuffer
  <2>2. Size(pipe) \in Nat \ {0, 1}
    BY PoolAssumption DEF Size
  <2>3. refer[pipe] \in Seq(References(pipe))
    BY DEF PoolType
  <2> QED BY <2>1, <2>2, <2>3
<1>3. /\ rest \in Seq(References(pipe)) /\ Len(rest) >= 1
      /\ Head(refer[pipe]) \in References(pipe)
  BY <1>2
<1>4. PICK n \in DOMAIN rest : input = rest[n]
  <2>1. CASE found # {}
    <3>1. found \in SUBSET Nat
      BY <1>3
    <3>2. Min(found) \in found
      BY <2>1, <3>1, MinIn
    <3> QED BY <1>3, <3>2, LastIn
  <2>2. CASE found = {}
    BY <1>3, <2>2, LastIn
  <2> QED BY <2>1, <2>2
<1>5. input \in References(pipe)
  <2> HIDE DEF rest, input
  <2> QED BY <1>3, <1>4
<1>6. /\ refer' = [refer EXCEPT ![pipe] = rest]
      /\ content' = [content EXCEPT ![Head(refer[pipe]).buffer] = -1]
      /\ pg' = [pg EXCEPT ![pipe] =
           [Idle EXCEPT !.pc = IF copies THEN "find" ELSE "run", !.seq = seq,
                        !.in = input.buffer, !.out = Head(refer[pipe]).buffer,
                        !.ref = ref, !.waits = WaitFrames]]
  BY DEF AcquireBuffer
<1>7. pg'[pipe] = [pc |-> IF copies THEN "find" ELSE "run", seq |-> seq,
                   in |-> input.buffer, out |-> Head(refer[pipe]).buffer,
                   src |-> NoBuffer, ref |-> ref, waits |-> WaitFrames]
  <2> HIDE DEF rest, seq, input, ref, copies
  <2> QED BY <1>6 DEF PoolType, Idle
<1>8. ref \in Int /\ (ref # -1 => ref = rest[n].sequence) /\ WaitFrames \in Int
  <2> HIDE DEF rest, seq, input
  <2> QED BY <1>1, <1>4, PoolAssumption
<1>9. pg'[pipe] \in Iterates(pipe)
  <2> HIDE DEF rest, seq, input, ref, copies
  <2> QED BY <1>1, <1>3, <1>5, <1>7, <1>8 DEF Iterates, References
<1>10. pipe = "producer" => ~ copies
  OBVIOUS
<1> HIDE DEF rest, seq, input, ref, copies
<1>11. DOMAIN pg' = Pipes /\ \A q \in Pipes : q # pipe => pg'[q] = pg[q]
  BY <1>6 DEF PoolType
<1>12. pg'[pipe].in = rest[n].buffer /\ (pg'[pipe].ref # -1 => pg'[pipe].ref = rest[n].sequence)
  BY <1>4, <1>7, <1>8
<1>13. /\ pg'[pipe].pc \in {"find", "run"} /\ pg'[pipe].src = NoBuffer
       /\ pipe = "producer" => pg'[pipe].pc = "run"
       /\ pg'[pipe].seq = seq /\ pg'[pipe].out = Head(refer[pipe]).buffer
  BY <1>7, <1>10
<1> QED BY <1>2, <1>6, <1>9, <1>11, <1>12, <1>13 DEF rest, seq

\* The still pipe looks again or gives up; nothing else of it changes.
LEMMA AfterWaitEffect ==
  ASSUME NEW pipe \in Pipes, NEW me \in Iterates(pipe)
  PROVE  LET new == AfterWait(me) IN
         /\ new \in Iterates(pipe) /\ new.pc \in {"find", "run"}
         /\ new.seq = me.seq /\ new.in = me.in /\ new.out = me.out
         /\ new.src = me.src /\ new.ref = me.ref
<1> DEFINE pc == IF me.waits = 0 THEN "run" ELSE "find"
<1>1. AfterWait(me) = [me EXCEPT !.pc = pc] /\ pc \in {"find", "run"}
  BY DEF AfterWait
<1> HIDE DEF pc
<1> QED BY <1>1 DEF Iterates

\* what a step of the still pipe alone may change
StillStep ==
    LET old == pg["consumer"]
        new == pg'["consumer"]
    IN  /\ UNCHANGED <<refer, tasks, raw, newest>>
        /\ DOMAIN pg' = Pipes /\ pg'["producer"] = pg["producer"]
        /\ new \in Iterates("consumer") /\ old.pc # "idle" /\ new.pc # "idle"
        /\ new.seq = old.seq /\ new.in = old.in /\ new.out = old.out

\* Looking for the reference: the newest that is old enough, if the ring goes that far.
LEMMA FindEffect ==
  ASSUME PoolType, FindReference
  PROVE  /\ StillStep /\ UNCHANGED content /\ At("consumer", "find")
         /\ \/ pg'["consumer"].pc \in {"wait", "run"} /\ pg'["consumer"].src = pg["consumer"].src
            \/ /\ pg'["consumer"].pc = "copy"
               /\ Last(Ring).sequence >= pg["consumer"].seq - 1
               /\ \E k \in DOMAIN Ring :
                    /\ pg'["consumer"].src = Ring[k].buffer
                    /\ pg'["consumer"].ref = Ring[k].sequence
                    /\ \A n \in DOMAIN Ring : n > k => Ring[n].sequence >= pg["consumer"].seq
<1> DEFINE me == pg["consumer"]
           R  == ReferBuffers(me.seq - 1)
<1>1. /\ me \in Iterates("consumer") /\ me.pc = "find" /\ me.seq \in Int /\ me.waits \in Int
      /\ UNCHANGED <<refer, tasks, raw, newest, content>> /\ DOMAIN pg = Pipes
      /\ "consumer" \in Pipes /\ "producer" \in Pipes
  BY DEF FindReference, At, PoolType, Iterates, Pipes
<1>2. CASE pg' = [pg EXCEPT !["consumer"].pc = "wait", !["consumer"].waits = @ - 1]
  <2> DEFINE w == me.waits - 1
  <2>0. w \in Int
    BY <1>1
  <2>1. /\ DOMAIN pg' = Pipes /\ pg'["producer"] = pg["producer"]
        /\ pg'["consumer"] = [me EXCEPT !.pc = "wait", !.waits = w]
    BY <1>1, <1>2
  <2> HIDE DEF w
  <2>2. /\ pg'["consumer"] \in Iterates("consumer") /\ pg'["consumer"].pc = "wait"
        /\ pg'["consumer"].seq = me.seq /\ pg'["consumer"].in = me.in
        /\ pg'["consumer"].out = me.out /\ pg'["consumer"].src = me.src
    BY <1>1, <2>0, <2>1 DEF Iterates
  <2> QED BY <1>1, <2>1, <2>2 DEF StillStep, At
<1>3. CASE Goto("consumer", "run")
  <2>1. /\ DOMAIN pg' = Pipes /\ pg'["producer"] = pg["producer"]
        /\ pg'["consumer"] = [me EXCEPT !.pc = "run"]
    BY <1>1, <1>3 DEF Goto
  <2>2. /\ pg'["consumer"] \in Iterates("consumer") /\ pg'["consumer"].pc = "run"
        /\ pg'["consumer"].seq = me.seq /\ pg'["consumer"].in = me.in
        /\ pg'["consumer"].out = me.out /\ pg'["consumer"].src = me.src
    BY <1>1, <2>1 DEF Iterates
  <2> QED BY <1>1, <2>1, <2>2 DEF StillStep, At
<1>4. CASE /\ EnoughData(me.seq - 1) /\ R # {}
           /\ pg' = [pg EXCEPT !["consumer"].pc = "copy",
                               !["consumer"].src = findReferBuffer(me.seq - 1).buffer,
                               !["consumer"].ref = findReferBuffer(me.seq - 1).sequence]
  <2>1. /\ Ring \in Seq(References("producer")) /\ DOMAIN Ring = 1..Len(Ring)
        /\ Len(Ring) \in Nat
    BY <1>1 DEF PoolType, Ring
  <2>2. R \in SUBSET (1..Len(Ring)) /\ Max(R) \in R /\ \A y \in R : Max(R) >= y
    <3>1. R \in SUBSET (1..Len(Ring))
      BY <2>1 DEF ReferBuffers, Ring
    <3> HIDE DEF R
    <3> QED BY <1>4, <2>1, <3>1, MaxIn
  <2> DEFINE k == Max(R)
             r == Ring[k]
  <2>3. k \in DOMAIN Ring /\ r \in References("producer") /\ findReferBuffer(me.seq - 1) = r
    BY <2>1, <2>2 DEF findReferBuffer, Ring
  <2>4. \A n \in DOMAIN Ring : n > k => Ring[n].sequence >= me.seq
    <3>1. \A n \in DOMAIN Ring : n > k => n \notin R
      BY <2>1, <2>2
    <3>2. \A n \in DOMAIN Ring : n \notin R => ~ (Ring[n].sequence <= me.seq - 1)
      BY DEF ReferBuffers, Ring
    <3>3. ASSUME NEW n \in DOMAIN Ring PROVE Ring[n].sequence \in Int
      <4>1. Ring[n] \in References("producer")
        BY <2>1
      <4> QED BY <4>1 DEF References
    <3> HIDE DEF R
    <3> QED BY <1>1, <3>1, <3>2, <3>3
  <2>5. Last(Ring).sequence >= me.seq - 1
    BY <1>4 DEF EnoughData, Ring
  <2> HIDE DEF k, r
  <2>6. /\ DOMAIN pg' = Pipes /\ pg'["producer"] = pg["producer"]
        /\ pg'["consumer"] = [me EXCEPT !.pc = "copy", !.src = r.buffer, !.ref = r.sequence]
    BY <1>1, <1>4, <2>3
  <2>7. r.buffer \in BuffersOf("producer") /\ r.sequence \in Int
    BY <2>3 DEF References
  <2>8. /\ pg'["consumer"] \in Iterates("consumer") /\ pg'["consumer"].pc = "copy"
        /\ pg'["consumer"].seq = me.seq /\ pg'["consumer"].in = me.in
        /\ pg'["consumer"].out = me.out
        /\ pg'["consumer"].src = r.buffer /\ pg'["consumer"].ref = r.sequence
    BY <1>1, <2>6, <2>7 DEF Iterates
  <2> QED BY <1>1, <2>3, <2>4, <2>5, <2>6, <2>8 DEF StillStep, At, r
<1> QED BY <1>2, <1>3, <1>4 DEF FindReference

\* The wait is over.
LEMMA WaitEffect ==
  ASSUME PoolType, WaitTimesOut
  PROVE  /\ StillStep /\ UNCHANGED content /\ At("consumer", "wait")
         /\ pg'["consumer"].pc \in {"find", "run"}
         /\ pg'["consumer"].src = pg["consumer"].src /\ pg'["consumer"].ref = pg["consumer"].ref
<1>1. /\ pg["consumer"] \in Iterates("consumer") /\ pg["consumer"].pc = "wait"
      /\ UNCHANGED <<refer, tasks, raw, newest, content>> /\ DOMAIN pg = Pipes
      /\ "consumer" \in Pipes /\ "producer" \in Pipes
  BY DEF WaitTimesOut, At, PoolType, Pipes
<1>2. /\ DOMAIN pg' = Pipes /\ pg'["producer"] = pg["producer"]
      /\ pg'["consumer"] = AfterWait(pg["consumer"])
  BY <1>1 DEF WaitTimesOut
<1> QED BY <1>1, <1>2, AfterWaitEffect DEF StillStep, At

\* The copy.
LEMMA CopyEffect ==
  ASSUME PoolType, CopyReference
  PROVE  /\ StillStep /\ At("consumer", "copy") /\ pg'["consumer"].pc = "run"
         /\ content' = [content EXCEPT ![pg["consumer"].in] = content[pg["consumer"].src]]
         /\ pg'["consumer"].src = pg["consumer"].src /\ pg'["consumer"].ref = pg["consumer"].ref
<1>1. /\ pg["consumer"] \in Iterates("consumer") /\ pg["consumer"].pc = "copy"
      /\ UNCHANGED <<refer, tasks, raw, newest>> /\ DOMAIN pg = Pipes
      /\ "consumer" \in Pipes /\ "producer" \in Pipes
      /\ content' = [content EXCEPT ![pg["consumer"].in] = content[pg["consumer"].src]]
  BY DEF CopyReference, At, PoolType, Pipes
<1>2. /\ DOMAIN pg' = Pipes /\ pg'["producer"] = pg["producer"]
      /\ pg'["consumer"] = [pg["consumer"] EXCEPT !.pc = "run"]
  BY <1>1 DEF CopyReference, Goto
<1>3. /\ pg'["consumer"] \in Iterates("consumer") /\ pg'["consumer"].pc = "run"
      /\ pg'["consumer"].seq = pg["consumer"].seq /\ pg'["consumer"].in = pg["consumer"].in
      /\ pg'["consumer"].out = pg["consumer"].out /\ pg'["consumer"].src = pg["consumer"].src
      /\ pg'["consumer"].ref = pg["consumer"].ref
  BY <1>1, <1>2 DEF Iterates
<1> QED BY <1>1, <1>2, <1>3 DEF StillStep, At

\* the tasks when a pipe has run the first of its own: g gives the old place of each
TasksAfter(pipe, g) ==
    LET i == TaskOf(pipe) IN
    /\ g \in [DOMAIN tasks' -> DOMAIN tasks]
    /\ \A k, l \in DOMAIN tasks' : k < l => g[k] < g[l]
    /\ \A k \in DOMAIN tasks' :
         /\ tasks'[k].frame = tasks[g[k]].frame
         /\ tasks'[k].left = tasks[g[k]].left \ (IF g[k] = i THEN {pipe} ELSE {})
    /\ \A j \in DOMAIN tasks :
         tasks[j].left \ (IF j = i THEN {pipe} ELSE {}) # {} => \E k \in DOMAIN tasks' : g[k] = j

\* The pipe gives the task and the output back.
LEMMA ReleaseEffect ==
  ASSUME PoolType, HasTask, NEW pipe \in Pipes, ReleaseBuffer(pipe)
  PROVE  /\ content' = [content EXCEPT ![pg[pipe].out] = pg[pipe].seq]
         /\ refer' = [refer EXCEPT ![pipe] = Released(refer[pipe], pg[pipe].seq, pg[pipe].out)]
         /\ pg[pipe].pc = "run" /\ pg'[pipe] = Idle /\ DOMAIN pg' = Pipes
         /\ \A q \in Pipes : q # pipe =>
              \/ pg'[q] = pg[q]
              \/ q = "consumer" /\ pg[q].pc = "wait" /\ pg'[q] = AfterWait(pg[q])
         /\ tasks' \in Seq(PoolTasks) /\ raw' \subseteq Int /\ UNCHANGED newest
         /\ \E g : TasksAfter(pipe, g)
<1> DEFINE i == TaskOf(pipe)
           left == tasks[i].left \ {pipe}
<1>1. /\ i \in DOMAIN tasks /\ pipe \in tasks[i].left /\ tasks[i] \in PoolTasks
      /\ pg[pipe].pc = "run"
  BY TaskOfIn DEF ReleaseBuffer, At, HasTask
<1>2. /\ content' = [content EXCEPT ![pg[pipe].out] = pg[pipe].seq]
      /\ refer' = [refer EXCEPT ![pipe] = Released(refer[pipe], pg[pipe].seq, pg[pipe].out)]
      /\ UNCHANGED newest
  BY DEF ReleaseBuffer
<1>3. raw' \subseteq Int
  BY DEF ReleaseBuffer, ReturnRaw, PoolType
<1>4. /\ pg'[pipe] = Idle /\ DOMAIN pg' = Pipes
      /\ \A q \in Pipes : q # pipe =>
           \/ pg'[q] = pg[q]
           \/ q = "consumer" /\ pg[q].pc = "wait" /\ pg'[q] = AfterWait(pg[q])
  <2>1. CASE pipe = "producer" /\ At("consumer", "wait")
    BY <2>1 DEF ReleaseBuffer, PoolType, Pipes, At
  <2>2. CASE ~ (pipe = "producer" /\ At("consumer", "wait"))
    BY <2>2 DEF ReleaseBuffer, PoolType, Pipes
  <2> QED BY <2>1, <2>2
<1>5. tasks \in Seq(PoolTasks) /\ DOMAIN tasks = 1..Len(tasks) /\ Len(tasks) \in Nat
  BY DEF PoolType
<1>6. CASE left = {}
  <2>1. tasks' = RemoveAt(tasks, i)
    BY <1>6 DEF ReleaseBuffer
  <2>2. /\ tasks' \in Seq(PoolTasks) /\ Len(tasks') = Len(tasks) - 1
        /\ \A k \in 1..Len(tasks) - 1 : tasks'[k] = IF k < i THEN tasks[k] ELSE tasks[k + 1]
    <3> HIDE DEF i
    <3> QED BY <1>1, <1>5, <2>1, RemoveAtShifts
  <2>3. DOMAIN tasks' = 1..Len(tasks) - 1
    BY <2>2
  <2> DEFINE g == [k \in DOMAIN tasks' |-> IF k < i THEN k ELSE k + 1]
  <2>4. g \in [DOMAIN tasks' -> DOMAIN tasks]
    <3> HIDE DEF i
    <3> QED BY <1>1, <1>5, <2>3
  <2>5. \A k, l \in DOMAIN tasks' : k < l => g[k] < g[l]
    <3> HIDE DEF i
    <3> QED BY <1>1, <1>5, <2>3
  <2>6. \A k \in DOMAIN tasks' : tasks'[k] = tasks[g[k]] /\ g[k] # i
    <3> HIDE DEF i
    <3> QED BY <1>1, <1>5, <2>2, <2>3
  <2>7. ASSUME NEW j \in DOMAIN tasks, j # i PROVE \E k \in DOMAIN tasks' : g[k] = j
    <3> HIDE DEF i
    <3>1. CASE j < i
      BY <1>1, <1>5, <2>3, <3>1
    <3>2. CASE j > i
      <4>1. j - 1 \in DOMAIN tasks' /\ ~ (j - 1 < i)
        BY <1>1, <1>5, <2>3, <3>2
      <4>2. g[j - 1] = j
        BY <1>5, <4>1
      <4> QED BY <4>1, <4>2
    <3> QED BY <1>1, <1>5, <2>7, <3>1, <3>2
  <2>8. TasksAfter(pipe, g)
    <3> HIDE DEF g
    <3> QED BY <1>6, <2>4, <2>5, <2>6, <2>7 DEF TasksAfter
  <2> QED BY <1>1, <1>2, <1>3, <1>4, <2>2, <2>8
<1>7. CASE left # {}
  <2>1. tasks' = [tasks EXCEPT ![i].left = left]
    BY <1>7 DEF ReleaseBuffer
  <2>2. /\ DOMAIN tasks' = DOMAIN tasks
        /\ \A k \in DOMAIN tasks : k # i => tasks'[k] = tasks[k]
        /\ tasks'[i] = [tasks[i] EXCEPT !.left = left]
    <3> HIDE DEF i, left
    <3> QED BY <1>1, <1>5, <2>1
  <2>3. tasks'[i] \in PoolTasks /\ tasks'[i].frame = tasks[i].frame /\ tasks'[i].left = left
    <3>1. left \in SUBSET Pipes
      BY <1>1 DEF PoolTasks
    <3> HIDE DEF i, left
    <3> QED BY <1>1, <2>2, <3>1 DEF PoolTasks
  <2>4. tasks' \in Seq(PoolTasks)
    <3>1. \A k \in 1..Len(tasks) : tasks'[k] \in PoolTasks
      <4> HIDE DEF i, left
      <4> QED BY <1>5, <2>2, <2>3
    <3>2. tasks' = [tasks EXCEPT ![i] = tasks'[i]]
      <4> HIDE DEF i, left
      <4> QED BY <1>1, <1>5, <2>1
    <3> HIDE DEF i, left
    <3> QED BY <1>1, <1>5, <2>3, <3>2, ExceptSeq
  <2> DEFINE g == [k \in DOMAIN tasks' |-> k]
  <2>5. TasksAfter(pipe, g)
    <3>1. g \in [DOMAIN tasks' -> DOMAIN tasks] /\ \A k \in DOMAIN tasks : g[k] = k
      BY <2>2
    <3> HIDE DEF g, left
    <3>2. \A k \in DOMAIN tasks' :
         /\ tasks'[k].frame = tasks[g[k]].frame
         /\ tasks'[k].left = tasks[g[k]].left \ (IF g[k] = i THEN {pipe} ELSE {})
      BY <2>2, <2>3, <3>1 DEF left
    <3> QED BY <2>2, <3>1, <3>2 DEF TasksAfter
  <2> QED BY <1>1, <1>2, <1>3, <1>4, <2>4, <2>5
<1> QED BY <1>6, <1>7

-----------------------------------------------------------------------------
(* The order of the rings.                                                 *)

\* a ring in ascending order, of sequences from -1
Ordered(s) ==
    /\ \A n \in DOMAIN s : s[n].sequence >= -1
    /\ \A m, n \in DOMAIN s : m < n => s[m].sequence <= s[n].sequence

\* The sequences of a ring are numbers.
LEMMA SequenceIn ==
  ASSUME NEW pipe \in Pipes, NEW s \in Seq(References(pipe)), NEW n \in DOMAIN s
  PROVE  /\ s[n] \in References(pipe)
         /\ s[n].sequence \in Int /\ s[n].buffer \in BuffersOf(pipe)
<1>1. s[n] \in References(pipe)
  OBVIOUS
<1> QED BY <1>1 DEF References

\* acquireBuffer takes the front of the ring.
LEMMA TailShifts ==
  ASSUME NEW S, NEW s \in Seq(S), Len(s) >= 1
  PROVE  /\ Tail(s) \in Seq(S) /\ Len(Tail(s)) = Len(s) - 1 /\ Head(s) = s[1]
         /\ DOMAIN Tail(s) = 1..Len(s) - 1 /\ DOMAIN s = 1..Len(s) /\ Len(s) \in Nat
         /\ \A n \in 1..Len(s) - 1 : Tail(s)[n] = s[n + 1]
  OBVIOUS

\* releaseBuffer puts the output at the front or at the end of the ring.
LEMMA ReleasedEffect ==
  ASSUME NEW pipe \in Pipes, NEW s \in Seq(References(pipe)), Len(s) >= 1,
         NEW seq \in Int, NEW b \in BuffersOf(pipe)
  PROVE  LET t == Released(s, seq, b) IN
         /\ t \in Seq(References(pipe)) /\ Len(t) = Len(s) + 1
         /\ \/ /\ seq < Last(s).sequence
               /\ t[1] = [sequence |-> -1, buffer |-> b]
               /\ \A n \in 1..Len(s) : t[n + 1] = s[n]
            \/ /\ seq >= Last(s).sequence
               /\ t[Len(s) + 1] = [sequence |-> seq, buffer |-> b]
               /\ \A n \in 1..Len(s) : t[n] = s[n]
<1> DEFINE old == [sequence |-> -1, buffer |-> b]
           new == [sequence |-> seq, buffer |-> b]
<1>1. old \in References(pipe) /\ new \in References(pipe)
  BY DEF References
<1>2. Last(s).sequence \in Int
  <2>1. Last(s) \in References(pipe)
    BY LastIn
  <2> QED BY <2>1 DEF References
<1>3. CASE seq < Last(s).sequence
  <2>1. Released(s, seq, b) = <<old>> \o s
    BY <1>3 DEF Released
  <2>2. <<old>> \in Seq(References(pipe)) /\ Len(<<old>>) = 1 /\ <<old>>[1] = old
    BY <1>1
  <2> HIDE DEF old, new
  <2>3. /\ <<old>> \o s \in Seq(References(pipe)) /\ Len(<<old>> \o s) = Len(s) + 1
        /\ (<<old>> \o s)[1] = old
        /\ \A n \in 1..Len(s) : (<<old>> \o s)[n + 1] = s[n]
    BY <2>2
  <2> QED BY <1>3, <2>1, <2>3 DEF old
<1>4. CASE ~ (seq < Last(s).sequence)
  <2>1. Released(s, seq, b) = Append(s, new)
    BY <1>4 DEF Released
  <2> HIDE DEF old, new
  <2>2. /\ Append(s, new) \in Seq(References(pipe)) /\ Len(Append(s, new)) = Len(s) + 1
        /\ Append(s, new)[Len(s) + 1] = new
        /\ \A n \in 1..Len(s) : Append(s, new)[n] = s[n]
    BY <1>1
  <2> QED BY <1>2, <1>4, <2>1, <2>2 DEF new
<1> QED BY <1>3, <1>4

\* It is a ring again, one longer.
LEMMA ReleasedLen ==
  ASSUME NEW pipe \in Pipes, NEW s \in Seq(References(pipe)), Len(s) >= 1,
         NEW seq \in Int, NEW b \in BuffersOf(pipe)
  PROVE  /\ Released(s, seq, b) \in Seq(References(pipe))
         /\ Len(Released(s, seq, b)) = Len(s) + 1
  BY ReleasedEffect

\* Taking the front keeps the order.
LEMMA TailOrdered ==
  ASSUME NEW pipe \in Pipes, NEW s \in Seq(References(pipe)), Len(s) >= 1, Ordered(s)
  PROVE  Ordered(Tail(s))
  BY TailShifts, SMTT(30) DEF Ordered

\* So does giving an output back, at either end.
LEMMA ReleasedOrdered ==
  ASSUME NEW pipe \in Pipes, NEW s \in Seq(References(pipe)), Len(s) >= 1, Ordered(s),
         NEW seq \in Int, NEW b \in BuffersOf(pipe)
  PROVE  Ordered(Released(s, seq, b))
<1> DEFINE t == Released(s, seq, b)
<1>1. /\ t \in Seq(References(pipe)) /\ Len(t) = Len(s) + 1
      /\ \/ /\ seq < Last(s).sequence
            /\ t[1] = [sequence |-> -1, buffer |-> b]
            /\ \A n \in 1..Len(s) : t[n + 1] = s[n]
         \/ /\ seq >= Last(s).sequence
            /\ t[Len(s) + 1] = [sequence |-> seq, buffer |-> b]
            /\ \A n \in 1..Len(s) : t[n] = s[n]
  BY ReleasedEffect
<1> HIDE DEF t
<1>2. Len(s) \in Nat /\ DOMAIN s = 1..Len(s) /\ DOMAIN t = 1..Len(s) + 1
  BY <1>1
<1>3. \A n \in DOMAIN s : s[n].sequence \in Int /\ s[n].sequence >= -1
  BY SequenceIn DEF Ordered
<1>4. CASE seq < Last(s).sequence
  <2>1. t[1].sequence = -1 /\ \A n \in 1..Len(s) : t[n + 1] = s[n]
    BY <1>1, <1>3, <1>4, LastIn
  <2>2. \A n \in DOMAIN t : n = 1 \/ (n - 1 \in DOMAIN s /\ t[n] = s[n - 1])
    <3>1. ASSUME NEW n \in DOMAIN t, n # 1 PROVE n - 1 \in DOMAIN s /\ t[n] = s[n - 1]
      <4>1. n - 1 \in 1..Len(s) /\ (n - 1) + 1 = n
        BY <1>2, <3>1
      <4> QED BY <1>2, <2>1, <4>1
    <3> QED BY <3>1
  <2>3. \A n \in DOMAIN t : t[n].sequence >= -1
    BY <1>3, <2>1, <2>2
  <2>4. ASSUME NEW m \in DOMAIN t, NEW n \in DOMAIN t, m < n
        PROVE  t[m].sequence <= t[n].sequence
    <3>1. n # 1 /\ n - 1 \in DOMAIN s /\ t[n] = s[n - 1]
      BY <1>2, <2>2, <2>4
    <3>2. CASE m = 1
      BY <1>3, <2>1, <3>1, <3>2
    <3>3. CASE m # 1
      <4>1. m - 1 \in DOMAIN s /\ t[m] = s[m - 1] /\ m - 1 < n - 1
        BY <1>2, <2>2, <2>4, <3>3
      <4> QED BY <3>1, <4>1 DEF Ordered
    <3> QED BY <3>2, <3>3
  <2> QED BY <2>3, <2>4 DEF Ordered, t
<1>5. CASE ~ (seq < Last(s).sequence)
  <2>1. /\ t[Len(s) + 1].sequence = seq /\ \A n \in DOMAIN s : t[n] = s[n]
        /\ seq >= s[Len(s)].sequence /\ Len(s) \in DOMAIN s
    BY <1>1, <1>2, <1>5, LastIn
  <2>2. \A n \in DOMAIN s : s[n].sequence <= seq
    <3>1. ASSUME NEW n \in DOMAIN s PROVE s[n].sequence <= seq
      <4>1. s[n].sequence <= s[Len(s)].sequence
        BY <1>2, <1>3, <2>1 DEF Ordered
      <4> QED BY <1>3, <2>1, <4>1
    <3> QED BY <3>1
  <2>3. \A n \in DOMAIN t : n = Len(s) + 1 \/ n \in DOMAIN s
    BY <1>2
  <2>4. \A n \in DOMAIN t : t[n].sequence >= -1
    BY <1>3, <2>1, <2>3
  <2>5. ASSUME NEW m \in DOMAIN t, NEW n \in DOMAIN t, m < n
        PROVE  t[m].sequence <= t[n].sequence
    <3>1. m \in DOMAIN s
      BY <1>2, <2>5
    <3> QED BY <2>1, <2>2, <2>3, <2>5, <3>1 DEF Ordered
  <2> QED BY <2>4, <2>5 DEF Ordered, t
<1> QED BY <1>4, <1>5

\* RingLow and Sorted, ring by ring.
LEMMA OrderedRings ==
  /\ RingLow /\ Sorted <=> \A pipe \in Pipes : Ordered(refer[pipe])
  /\ (RingLow /\ Sorted)' <=> \A pipe \in Pipes : Ordered(refer'[pipe])
  BY DEF RingLow, Sorted, Ordered

\* NextFrame and ReprocessFrame keep the order.
LEMMA NewTaskOrder ==
  ASSUME OrderInv, NextFrame \/ ReprocessFrame
  PROVE  OrderInv'
<1>1. /\ UNCHANGED <<refer, content, pg>>
      /\ newest' \in {newest, newest + 1} /\ raw' \subseteq Int
      /\ \/ tasks' = tasks
         \/ \E f \in Int, kind \in SUBSET Pipes :
              tasks' = Append(tasks, [frame |-> f, left |-> kind])
  BY NewTaskEffect DEF OrderInv
<1>2. tasks' \in Seq(PoolTasks) /\ \A i \in DOMAIN tasks : i \in DOMAIN tasks' /\ tasks'[i] = tasks[i]
  <2>1. CASE tasks' = tasks
    BY <2>1 DEF OrderInv, PoolType
  <2>2. ASSUME NEW f \in Int, NEW kind \in SUBSET Pipes,
               tasks' = Append(tasks, [frame |-> f, left |-> kind])
        PROVE  /\ tasks' \in Seq(PoolTasks)
               /\ \A i \in DOMAIN tasks : i \in DOMAIN tasks' /\ tasks'[i] = tasks[i]
    <3> DEFINE t == [frame |-> f, left |-> kind]
    <3>1. t \in PoolTasks
      BY DEF PoolTasks
    <3>2. tasks \in Seq(PoolTasks) /\ tasks' = Append(tasks, t)
      BY <2>2 DEF OrderInv, PoolType
    <3> HIDE DEF t
    <3> QED BY <3>1, <3>2
  <2> QED BY <1>1, <2>1, <2>2
<1>3. PoolType'
  BY <1>1, <1>2 DEF OrderInv, PoolType
<1>4. HasTask'
  BY <1>1, <1>2 DEF OrderInv, HasTask, At
<1> QED BY <1>1, <1>3, <1>4 DEF OrderInv, RingLen, RingLow, Sorted, HasSource, At

\* A step of the still pipe that leaves the rings alone keeps the order.
LEMMA StillOrder ==
  ASSUME OrderInv, StillStep, content' \in [Buffers -> Int], HasSource'
  PROVE  OrderInv'
<1>1. PoolType'
  BY DEF OrderInv, StillStep, PoolType, Pipes
<1>2. RingLen' /\ HasTask'
  BY DEF OrderInv, StillStep, RingLen, HasTask, At, Pipes
<1>3. RingLow' /\ Sorted'
  BY DEF OrderInv, StillStep, RingLow, Sorted
<1> QED BY <1>1, <1>2, <1>3 DEF OrderInv

\* acquireBuffer keeps the order.
LEMMA AcquireOrder ==
  ASSUME OrderInv, NEW pipe \in Pipes, AcquireBuffer(pipe)
  PROVE  OrderInv'
<1> DEFINE s == refer[pipe]
<1>1. /\ Len(s) >= 2 /\ refer' = [refer EXCEPT ![pipe] = Tail(s)]
      /\ content' = [content EXCEPT ![Head(s).buffer] = -1]
      /\ \A q \in Pipes : q # pipe => pg'[q] = pg[q]
      /\ DOMAIN pg' = Pipes /\ pg'[pipe].pc \in {"find", "run"}
      /\ pg'[pipe].out = Head(s).buffer /\ pg'[pipe] \in Iterates(pipe)
  BY AcquireEffect DEF OrderInv
<1>2. UNCHANGED <<tasks, raw, newest>> /\ pg[pipe].pc = "idle"
      /\ \E i \in DOMAIN tasks : pipe \in tasks[i].left
  BY DEF AcquireBuffer, At
<1>3. s \in Seq(References(pipe)) /\ DOMAIN refer = Pipes
  BY DEF OrderInv, PoolType
<1> HIDE DEF s
<1>4. /\ Tail(s) \in Seq(References(pipe)) /\ Len(Tail(s)) = Len(s) - 1
      /\ Head(s) \in References(pipe)
  BY <1>1, <1>3
<1>5. \A q \in Pipes : refer'[q] = IF q = pipe THEN Tail(s) ELSE refer[q]
  BY <1>1, <1>3
<1>6. Head(s).buffer \in BuffersOf(pipe) /\ BuffersOf(pipe) \subseteq Buffers
  BY <1>4 DEF References, Buffers, Pipes
<1>7. PoolType'
  <2>1. content' \in [Buffers -> Int]
    BY <1>1, <1>6 DEF OrderInv, PoolType
  <2>2. \A q \in Pipes : refer'[q] \in Seq(References(q)) /\ pg'[q] \in Iterates(q)
    BY <1>1, <1>4, <1>5 DEF OrderInv, PoolType
  <2>3. DOMAIN refer' = Pipes
    BY <1>1, <1>3
  <2> QED BY <1>1, <1>2, <2>1, <2>2, <2>3 DEF OrderInv, PoolType
<1>8. RingLen'
  <2>1. Len(s) = Size(pipe)
    BY <1>2 DEF OrderInv, RingLen, At, s
  <2> QED BY <1>1, <1>4, <1>5, <2>1, ZenonT(60) DEF OrderInv, RingLen, At
<1>9. HasTask'
  BY <1>1, <1>2, <1>6 DEF OrderInv, HasTask, At
<1>10. \A q \in Pipes : Ordered(refer'[q])
  <2>1. \A q \in Pipes : Ordered(refer[q])
    BY OrderedRings DEF OrderInv
  <2>2. Ordered(Tail(s))
    BY <1>1, <1>3, <2>1, TailOrdered DEF s
  <2> QED BY <1>5, <2>1, <2>2
<1>11. HasSource'
  BY <1>1 DEF OrderInv, HasSource, At, Pipes
<1> QED BY <1>7, <1>8, <1>9, <1>10, <1>11, OrderedRings DEF OrderInv

\* releaseBuffer keeps the order.
LEMMA ReleaseOrder ==
  ASSUME OrderInv, NEW pipe \in Pipes, ReleaseBuffer(pipe)
  PROVE  OrderInv'
<1> DEFINE s == refer[pipe]
           t == Released(s, pg[pipe].seq, pg[pipe].out)
<1>1. /\ content' = [content EXCEPT ![pg[pipe].out] = pg[pipe].seq]
      /\ refer' = [refer EXCEPT ![pipe] = t]
      /\ pg[pipe].pc = "run" /\ pg'[pipe] = Idle /\ DOMAIN pg' = Pipes
      /\ \A q \in Pipes : q # pipe =>
           \/ pg'[q] = pg[q]
           \/ q = "consumer" /\ pg[q].pc = "wait" /\ pg'[q] = AfterWait(pg[q])
      /\ tasks' \in Seq(PoolTasks) /\ raw' \subseteq Int /\ UNCHANGED newest
  BY ReleaseEffect DEF OrderInv
<1>2. /\ s \in Seq(References(pipe)) /\ DOMAIN refer = Pipes /\ DOMAIN pg = Pipes
      /\ Len(s) = Size(pipe) - 1 /\ Size(pipe) \in Nat \ {0, 1}
      /\ pg[pipe].out \in BuffersOf(pipe) /\ pg[pipe].seq \in Int
      /\ pg[pipe] \in Iterates(pipe)
  BY <1>1, PoolAssumption DEF OrderInv, PoolType, RingLen, HasTask, At, Iterates, Size
<1>3. Len(s) >= 1
  BY <1>2
<1>4. t \in Seq(References(pipe)) /\ Len(t) = Len(s) + 1
  <2> DEFINE seq == pg[pipe].seq
             out == pg[pipe].out
  <2>1. seq \in Int /\ out \in BuffersOf(pipe) /\ t = Released(s, seq, out)
    BY <1>2
  <2> HIDE DEF s, t, seq, out
  <2>2. Released(s, seq, out) \in Seq(References(pipe)) /\ Len(Released(s, seq, out)) = Len(s) + 1
    BY <1>2, <1>3, <2>1, ReleasedLen
  <2> QED BY <2>1, <2>2
<1>5. Ordered(t)
  <2>1. Ordered(s)
    BY OrderedRings DEF OrderInv
  <2> QED BY <1>2, <1>3, <2>1, ReleasedOrdered
<1> HIDE DEF s, t
<1>6. \A q \in Pipes : refer'[q] = IF q = pipe THEN t ELSE refer[q]
  BY <1>1, <1>2
<1>7. Idle \in Iterates(pipe) /\ Idle.pc = "idle"
  BY DEF Idle, Iterates
<1>8. ASSUME NEW q \in Pipes, q # pipe
      PROVE  /\ pg'[q] \in Iterates(q) /\ (pg'[q].pc = "idle" <=> pg[q].pc = "idle")
             /\ pg'[q].out = pg[q].out
  <2>1. pg[q] \in Iterates(q)
    BY DEF OrderInv, PoolType
  <2>2. CASE pg'[q] = pg[q]
    BY <2>1, <2>2
  <2>3. CASE pg[q].pc = "wait" /\ pg'[q] = AfterWait(pg[q])
    BY <2>1, <2>3, AfterWaitEffect
  <2> QED BY <1>1, <1>8, <2>2, <2>3
<1>9. PoolType'
  <2>1. content' \in [Buffers -> Int]
    BY <1>1, <1>2 DEF OrderInv, PoolType
  <2>2. \A q \in Pipes : refer'[q] \in Seq(References(q)) /\ pg'[q] \in Iterates(q)
    BY <1>1, <1>4, <1>6, <1>7, <1>8 DEF OrderInv, PoolType
  <2>3. DOMAIN refer' = Pipes
    BY <1>1, <1>2
  <2> QED BY <1>1, <2>1, <2>2, <2>3 DEF OrderInv, PoolType
<1>10. RingLen'
  BY <1>1, <1>2, <1>4, <1>6, <1>7, <1>8 DEF OrderInv, RingLen, At
<1>11. HasTask'
  <2>1. SUFFICES ASSUME NEW q \in Pipes, ~ At(q, "idle")'
                 PROVE  /\ \E k \in DOMAIN tasks' : q \in tasks'[k].left
                        /\ pg'[q].out \in BuffersOf(q)
    BY DEF HasTask
  <2>2. q # pipe
    BY <1>1, <1>7, <2>1 DEF At
  <2>3. ~ At(q, "idle") /\ pg'[q].out = pg[q].out
    BY <1>8, <2>1, <2>2 DEF At
  <2>4. PICK j \in DOMAIN tasks : q \in tasks[j].left
    BY <2>3 DEF OrderInv, HasTask
  <2>5. PICK g : TasksAfter(pipe, g)
    BY ReleaseEffect DEF OrderInv
  <2>6. q \in tasks[j].left \ (IF j = TaskOf(pipe) THEN {pipe} ELSE {})
    BY <2>2, <2>4
  <2>7. PICK k \in DOMAIN tasks' : g[k] = j
    BY <2>5, <2>6 DEF TasksAfter
  <2>8. q \in tasks'[k].left
    BY <2>5, <2>6, <2>7 DEF TasksAfter
  <2> QED BY <2>3, <2>8 DEF OrderInv, HasTask
<1>12. \A q \in Pipes : Ordered(refer'[q])
  BY <1>5, <1>6, OrderedRings DEF OrderInv
<1>13. HasSource'
  <2>1. CASE pipe = "consumer"
    BY <1>1, <1>7, <2>1 DEF HasSource, At
  <2>2. CASE pg'["consumer"] = pg["consumer"]
    BY <2>2 DEF OrderInv, HasSource, At
  <2>3. CASE pg'["consumer"] = AfterWait(pg["consumer"])
    <3>1. pg["consumer"] \in Iterates("consumer") /\ "consumer" \in Pipes
      BY DEF OrderInv, PoolType, Pipes
    <3>2. pg'["consumer"].pc \in {"find", "run"}
      BY <2>3, <3>1, AfterWaitEffect
    <3> QED BY <3>2 DEF HasSource, At
  <2> QED BY <1>1, <2>1, <2>2, <2>3 DEF Pipes
<1> QED BY <1>9, <1>10, <1>11, <1>12, <1>13, OrderedRings DEF OrderInv

\* The references that createReferBuffers makes, one for each buffer.
LEMMA RingMade ==
  ASSUME NEW pipe \in Pipes
  PROVE  LET s == SetToSeq({[sequence |-> -1, buffer |-> b] : b \in BuffersOf(pipe)}) IN
         /\ s \in Seq(References(pipe)) /\ Len(s) = Size(pipe)
         /\ \A n \in DOMAIN s : s[n].sequence = -1
         /\ \A m, n \in DOMAIN s : m # n => s[m].buffer # s[n].buffer
<1> DEFINE N == Size(pipe)
           Made(b) == [sequence |-> -1, buffer |-> b]
           S == {Made(b) : b \in BuffersOf(pipe)}
           f == [i \in 1..N |-> Made(<<pipe, i>>)]
<1>1. N \in Nat /\ BuffersOf(pipe) = {pipe} \X (1..N)
  BY PoolAssumption DEF Size, BuffersOf, Pipes
<1> HIDE DEF N
<1>2. f \in [1..N -> S] /\ (\A i, j \in 1..N : f[i] = f[j] => i = j)
  <2>1. \A i \in 1..N : <<pipe, i>> \in BuffersOf(pipe)
    BY <1>1
  <2>2. \A i \in 1..N : f[i] = Made(<<pipe, i>>) /\ f[i] \in S
    BY <2>1
  <2>3. \A i, j \in 1..N : Made(<<pipe, i>>) = Made(<<pipe, j>>) => i = j
    <3>1. \A b : Made(b).buffer = b
      OBVIOUS
    <3>2. \A i, j \in 1..N : <<pipe, i>> = <<pipe, j>> => i = j
      OBVIOUS
    <3> HIDE DEF Made
    <3> QED BY <3>1, <3>2
  <2> QED BY <2>2, <2>3
<1>3. \A t \in S : \E i \in 1..N : f[i] = t
  <2>1. SUFFICES ASSUME NEW t \in S PROVE \E i \in 1..N : f[i] = t
    OBVIOUS
  <2>2. PICK b \in BuffersOf(pipe) : t = Made(b)
    BY <2>1
  <2>3. PICK i \in 1..N : b = <<pipe, i>>
    BY <1>1, <2>2
  <2> QED BY <2>2, <2>3
<1> HIDE DEF f, S
<1>4. ExistsBijection(1..N, S)
  BY <1>2, <1>3 DEF ExistsBijection, Bijection, Injection, Surjection, IsInjective
<1>5. IsFiniteSet(S) /\ Cardinality(S) = N
  <2>1. IsFiniteSet(1..N) /\ Cardinality(1..N) = N
    BY <1>1, FS_Interval
  <2> QED BY <1>4, <2>1, FS_Bijection
<1> DEFINE s == SetToSeq(S)
<1>6. s \in [1..N -> S] /\ \A m, n \in 1..N : m # n => s[m] # s[n]
  BY <1>5, SetToSeqLists
<1> HIDE DEF s
<1>7. \A t \in S : t \in References(pipe) /\ t.sequence = -1
  BY DEF S, References
<1>8. \A t, u \in S : t # u => t.buffer # u.buffer
  BY DEF S
<1>9. s \in Seq(References(pipe)) /\ Len(s) = N /\ DOMAIN s = 1..N
  <2>1. s \in [1..N -> References(pipe)]
    BY <1>6, <1>7
  <2> QED BY <1>1, <2>1
<1>10. \A n \in DOMAIN s : s[n] \in S
  BY <1>6, <1>9
<1> QED BY <1>6, <1>7, <1>8, <1>9, <1>10 DEF s, S, N

\* The rings are in order when they are made.
LEMMA InitOrder ==
  ASSUME Init
  PROVE  OrderInv
<1>1. ASSUME NEW pipe \in Pipes
      PROVE  /\ refer[pipe] \in Seq(References(pipe)) /\ Len(refer[pipe]) = Size(pipe)
             /\ \A n \in DOMAIN refer[pipe] : refer[pipe][n].sequence = -1
  <2>1. refer[pipe] = SetToSeq({[sequence |-> -1, buffer |-> b] : b \in BuffersOf(pipe)})
    BY DEF Init
  <2> QED BY <2>1, RingMade
<1>2. ASSUME NEW pipe \in Pipes
      PROVE  pg[pipe] \in Iterates(pipe) /\ At(pipe, "idle")
  BY DEF Init, Idle, Iterates, At
<1>3. PoolType
  BY <1>1, <1>2 DEF Init, PoolType
<1>4. RingLen /\ HasTask /\ HasSource
  BY <1>1, <1>2 DEF RingLen, HasTask, HasSource, At, Pipes
<1>5. RingLow /\ Sorted
  BY <1>1 DEF RingLow, Sorted
<1> QED BY <1>3, <1>4, <1>5 DEF OrderInv

\* Every step keeps the rings in order.
LEMMA NextOrder ==
  ASSUME OrderInv, [Next]_vars
  PROVE  OrderInv'
<1>1. ASSUME NextFrame \/ ReprocessFrame PROVE OrderInv'
  BY <1>1, NewTaskOrder
<1>2. ASSUME NEW pipe \in Pipes, AcquireBuffer(pipe) PROVE OrderInv'
  BY <1>2, AcquireOrder
<1>3. ASSUME NEW pipe \in Pipes, ReleaseBuffer(pipe) PROVE OrderInv'
  BY <1>3, ReleaseOrder
<1>4. ASSUME FindReference PROVE OrderInv'
  <2>1. StillStep /\ content' = content
    BY <1>4, FindEffect DEF OrderInv
  <2>2. HasSource'
    <3>1. CASE pg'["consumer"].pc \in {"wait", "run"}
      BY <3>1 DEF HasSource, At
    <3>2. ASSUME NEW k \in DOMAIN Ring, pg'["consumer"].src = Ring[k].buffer PROVE HasSource'
      <4>1. Ring \in Seq(References("producer")) /\ "producer" \in Pipes
        BY DEF Ring, OrderInv, PoolType, Pipes
      <4>2. Ring[k].buffer \in BuffersOf("producer")
        BY <4>1, SequenceIn
      <4> QED BY <3>2, <4>2 DEF HasSource
    <3> QED BY <1>4, <3>1, <3>2, FindEffect DEF OrderInv
  <2> QED BY <2>1, <2>2, StillOrder DEF OrderInv, PoolType
<1>5. ASSUME WaitTimesOut PROVE OrderInv'
  <2>1. StillStep /\ content' = content
    BY <1>5, WaitEffect DEF OrderInv
  <2>2. HasSource'
    BY <1>5, WaitEffect DEF OrderInv, HasSource, At
  <2> QED BY <2>1, <2>2, StillOrder DEF OrderInv, PoolType
<1>6. ASSUME CopyReference PROVE OrderInv'
  <2>1. /\ StillStep /\ At("consumer", "copy") /\ pg'["consumer"].pc = "run"
        /\ content' = [content EXCEPT ![pg["consumer"].in] = content[pg["consumer"].src]]
    BY <1>6, CopyEffect DEF OrderInv
  <2>2. pg["consumer"].src \in Buffers
    BY <2>1 DEF OrderInv, HasSource, Buffers
  <2>3. content' \in [Buffers -> Int]
    BY <2>1, <2>2 DEF OrderInv, PoolType
  <2> QED BY <2>1, <2>3, StillOrder DEF HasSource, At
<1>7. CASE UNCHANGED vars
  BY <1>7 DEF vars, OrderInv, PoolType, RingLen, RingLow, HasTask, HasSource, Sorted, At
<1> QED BY <1>1, <1>2, <1>3, <1>4, <1>5, <1>6, <1>7 DEF Next

\* releaseBuffer keeps both rings in ascending order, whatever frames are run and in
\* whatever order the kept ones come between the new ones.
THEOREM RingsSorted == Spec => []Sorted
<1>1. Init => OrderInv
  BY InitOrder
<1>2. OrderInv /\ [Next]_vars => OrderInv'
  BY NextOrder
<1>3. OrderInv => Sorted
  BY DEF OrderInv
<1> QED BY <1>1, <1>2, <1>3, PTL DEF Spec

-----------------------------------------------------------------------------
(* The data of the references, when only the still pipe runs kept frames.  *)

\* The pipes have no buffer in common.
LEMMA BuffersApart ==
  /\ \A a \in BuffersOf("producer"), b \in BuffersOf("consumer") : a # b
  /\ NoBuffer \notin BuffersOf("producer")
  /\ BuffersOf("producer") \subseteq Buffers /\ BuffersOf("consumer") \subseteq Buffers
<1>1. \A a \in BuffersOf("producer") : a[1] = "producer"
  BY DEF BuffersOf
<1>2. \A a \in BuffersOf("consumer") : a[1] = "consumer"
  BY DEF BuffersOf
<1>3. NoBuffer[1] = "none"
  BY DEF NoBuffer
<1>4. BuffersOf("producer") \subseteq Buffers /\ BuffersOf("consumer") \subseteq Buffers
  BY DEF Buffers
<1> QED BY <1>1, <1>2, <1>3, <1>4

\* The ring of the video pipe: what the order of the rings says of it.
LEMMA RingFacts ==
  ASSUME OrderInv
  PROVE  /\ Ring \in Seq(References("producer")) /\ Len(Ring) \in Nat /\ Len(Ring) >= 1
         /\ DOMAIN Ring = 1..Len(Ring) /\ Len(Ring) \in DOMAIN Ring
         /\ Last(Ring) = Ring[Len(Ring)]
         /\ \A n \in DOMAIN Ring : /\ Ring[n].sequence \in Int /\ Ring[n].sequence >= -1
                                   /\ Ring[n].buffer \in BuffersOf("producer")
         /\ \A m, n \in DOMAIN Ring : m < n => Ring[m].sequence <= Ring[n].sequence
         /\ At("producer", "idle") => Len(Ring) = MaxRawDataNum
         /\ MaxRawDataNum \in Nat \ {0, 1}
<1>1. "producer" \in Pipes
  BY DEF Pipes
<1>2. /\ Ring \in Seq(References("producer")) /\ MaxRawDataNum \in Nat \ {0, 1}
      /\ At("producer", "idle") => Len(Ring) = MaxRawDataNum
      /\ ~ At("producer", "idle") => Len(Ring) = MaxRawDataNum - 1
  BY <1>1, PoolAssumption DEF OrderInv, PoolType, RingLen, Size, Ring
<1>3. Len(Ring) >= 1 /\ Len(Ring) \in Nat /\ DOMAIN Ring = 1..Len(Ring)
  BY <1>2
<1>4. \A n \in DOMAIN Ring : Ring[n].sequence \in Int /\ Ring[n].buffer \in BuffersOf("producer")
  BY <1>1, <1>2, SequenceIn
<1>5. /\ \A n \in DOMAIN Ring : Ring[n].sequence >= -1
      /\ \A m, n \in DOMAIN Ring : m < n => Ring[m].sequence <= Ring[n].sequence
  BY <1>1 DEF OrderInv, RingLow, Sorted, Ring
<1>6. Last(Ring) = Ring[Len(Ring)]
  BY DEF Last
<1>7. Len(Ring) \in DOMAIN Ring
  BY <1>3
<1> QED BY <1>2, <1>3, <1>4, <1>5, <1>6, <1>7

\* The frames of the tasks are numbers.
LEMMA TaskFacts ==
  ASSUME OrderInv
  PROVE  /\ \A i \in DOMAIN tasks : tasks[i].frame \in Int
         /\ DOMAIN tasks = 1..Len(tasks) /\ Len(tasks) \in Nat
         /\ newest \in Int /\ pg["producer"].seq \in Int /\ pg["consumer"].seq \in Int
<1>1. tasks \in Seq(PoolTasks)
  BY DEF OrderInv, PoolType
<1>2. ASSUME NEW i \in DOMAIN tasks PROVE tasks[i].frame \in Int
  <2>1. tasks[i] \in PoolTasks
    BY <1>1
  <2> QED BY <2>1 DEF PoolTasks
<1>3. pg["producer"] \in Iterates("producer") /\ pg["consumer"] \in Iterates("consumer")
  BY DEF OrderInv, PoolType, Pipes
<1> QED BY <1>1, <1>2, <1>3 DEF OrderInv, PoolType, Iterates

\* A new frame or task: the task of the video pipe is of the newest frame.
LEMMA NewTaskData ==
  ASSUME StillOnlyAgain, OrderInv, DataInv, NextFrame \/ ReprocessFrame
  PROVE  DataInv'
<1>1. /\ UNCHANGED <<refer, content, pg>> /\ Ring' = Ring
      /\ newest' \in {newest, newest + 1}
      /\ \/ tasks' = tasks
         \/ \E f \in Int, kind \in SUBSET Pipes :
              /\ tasks' = Append(tasks, [frame |-> f, left |-> kind])
              /\ "producer" \in kind => f = newest + 1 /\ newest' = newest + 1
  BY NewTaskEffect DEF OrderInv, Ring
<1>2. newest \in Int /\ newest' \in Int /\ newest' >= newest
  BY <1>1, TaskFacts
<1>3. Fresh' /\ Spread'
  BY <1>1 DEF DataInv, Fresh, Spread, At
<1>4. Source'
  <2>1. Recent("consumer")' => Recent("consumer")
    BY <1>1, <1>2, TaskFacts, RingFacts DEF Recent
  <2> QED BY <1>1, <2>1 DEF DataInv, Source, SourceAt, At
<1>5. Reads'
  <2>1. Recent("consumer")' => Recent("consumer")
    BY <1>1, <1>2, TaskFacts, RingFacts DEF Recent
  <2> QED BY <1>1, <2>1 DEF DataInv, Reads, At
<1>6. InOrder'
  <2>1. CASE tasks' = tasks
    BY <1>1, <1>2, <2>1, TaskFacts, RingFacts, SMTT(30) DEF DataInv, InOrder, First, At
  <2>2. ASSUME NEW f \in Int, NEW kind \in SUBSET Pipes,
               tasks' = Append(tasks, [frame |-> f, left |-> kind]),
               "producer" \in kind => f = newest + 1 /\ newest' = newest + 1
        PROVE  InOrder'
    <3> DEFINE t == [frame |-> f, left |-> kind]
               L == Len(tasks)
    <3>1. t \in PoolTasks /\ t.frame = f /\ t.left = kind
      BY DEF PoolTasks
    <3>2. tasks \in Seq(PoolTasks) /\ tasks' = Append(tasks, t) /\ L \in Nat
      BY <2>2 DEF OrderInv, PoolType
    <3> HIDE DEF t
    <3>3. /\ DOMAIN tasks' = 1..L + 1 /\ DOMAIN tasks = 1..L /\ tasks'[L + 1] = t
          /\ \A i \in DOMAIN tasks : i \in DOMAIN tasks' /\ tasks'[i] = tasks[i]
      BY <3>1, <3>2
    <3> HIDE DEF L
    <3>4. \A i \in DOMAIN tasks' : i \in DOMAIN tasks \/ i = L + 1
      BY <3>2, <3>3
    <3>5. \A i \in DOMAIN tasks : "producer" \in tasks[i].left =>
             tasks[i].frame \in 0..newest /\ tasks[i].frame > Last(Ring).sequence
      BY DEF DataInv, InOrder
    <3>6. Last(Ring).sequence <= newest /\ newest >= -1 /\ Last(Ring).sequence \in Int
      BY RingFacts DEF DataInv, InOrder
    <3>7. ASSUME NEW i \in DOMAIN tasks', "producer" \in tasks'[i].left
          PROVE  tasks'[i].frame \in 0..newest' /\ tasks'[i].frame > Last(Ring).sequence
      <4>1. CASE i \in DOMAIN tasks
        BY <1>2, <3>3, <3>5, <3>7, <4>1
      <4>2. CASE i = L + 1
        BY <1>2, <2>2, <3>1, <3>3, <3>6, <3>7, <4>2
      <4> QED BY <3>4, <4>1, <4>2
    <3>8. ASSUME NEW i \in DOMAIN tasks', NEW j \in DOMAIN tasks', i < j,
                 "producer" \in tasks'[i].left, "producer" \in tasks'[j].left
          PROVE  tasks'[i].frame < tasks'[j].frame
      <4>1. i \in DOMAIN tasks
        BY <3>2, <3>3, <3>8
      <4>2. CASE j \in DOMAIN tasks
        BY <3>3, <3>8, <4>1, <4>2 DEF DataInv, InOrder
      <4>3. CASE j = L + 1
        BY <1>2, <2>2, <3>1, <3>3, <3>5, <3>8, <4>1, <4>3
      <4> QED BY <3>4, <4>2, <4>3
    <3>9. \A i \in DOMAIN tasks : First(i) => First(i)'
      <4>1. SUFFICES ASSUME NEW i \in DOMAIN tasks, First(i),
                            NEW j \in DOMAIN tasks', "producer" \in tasks'[j].left
                     PROVE  i <= j
        BY <3>3 DEF First
      <4>2. CASE j \in DOMAIN tasks
        BY <3>3, <4>1, <4>2 DEF First
      <4>3. CASE j = L + 1
        BY <3>2, <3>3, <4>3
      <4> QED BY <3>4, <4>2, <4>3
    <3>10. ~ At("producer", "idle")' =>
             /\ At("producer", "run")'
             /\ \E i \in DOMAIN tasks' : First(i)' /\ pg'["producer"].seq = tasks'[i].frame
      BY <1>1, <3>3, <3>9 DEF DataInv, InOrder, At
    <3> QED BY <1>1, <1>2, <3>6, <3>7, <3>8, <3>10 DEF InOrder
  <2> QED BY <1>1, <2>1, <2>2
<1> QED BY <1>3, <1>4, <1>5, <1>6 DEF DataInv

\* acquireBuffer of the video pipe: while the still frame is recent, its source is not
\* the oldest reference.
LEMMA VideoAcquireData ==
  ASSUME OrderInv, DataInv, AcquireBuffer("producer")
  PROVE  DataInv'
<1> DEFINE rest == Tail(Ring)
           L == Len(Ring)
<1>0. "producer" \in Pipes /\ "consumer" \in Pipes /\ refer["producer"] = Ring
  BY DEF Pipes, Ring
<1>1. /\ L >= 2 /\ refer' = [refer EXCEPT !["producer"] = rest]
      /\ content' = [content EXCEPT ![Head(Ring).buffer] = -1]
      /\ pg'["consumer"] = pg["consumer"] /\ pg'["producer"].pc = "run"
      /\ pg'["producer"].seq = tasks[TaskOf("producer")].frame
      /\ pg'["producer"].out = Head(Ring).buffer
      /\ \E n \in DOMAIN rest :
           /\ pg'["producer"].in = rest[n].buffer
           /\ pg'["producer"].ref # -1 => pg'["producer"].ref = rest[n].sequence
  BY <1>0, AcquireEffect DEF OrderInv
<1>2. /\ UNCHANGED <<tasks, raw, newest>> /\ At("producer", "idle")
      /\ \E i \in DOMAIN tasks : "producer" \in tasks[i].left
  BY DEF AcquireBuffer
<1>3. /\ Ring \in Seq(References("producer")) /\ DOMAIN Ring = 1..L /\ L \in Nat
      /\ L = MaxRawDataNum /\ Last(Ring) = Ring[L]
      /\ \A n \in DOMAIN Ring : /\ Ring[n].sequence \in Int /\ Ring[n].sequence >= -1
                                /\ Ring[n].buffer \in BuffersOf("producer")
      /\ \A m, n \in DOMAIN Ring : m < n => Ring[m].sequence <= Ring[n].sequence
  BY <1>2, RingFacts
<1>4. /\ Head(Ring) = Ring[1] /\ DOMAIN rest = 1..L - 1 /\ Len(rest) = L - 1
      /\ \A n \in 1..L - 1 : rest[n] = Ring[n + 1]
  BY <1>1, <1>3, TailShifts
<1>5. Ring' = rest
  BY <1>1 DEF OrderInv, PoolType, Pipes, Ring
<1> HIDE DEF rest, L
<1>6. /\ \A n \in DOMAIN Ring' : n + 1 \in DOMAIN Ring /\ Ring'[n] = Ring[n + 1]
      /\ 1 \in DOMAIN Ring
  BY <1>1, <1>3, <1>4, <1>5
<1>7. Last(Ring)' = Last(Ring)
  <2>1. Last(Ring)' = rest[L - 1]
    BY <1>4, <1>5 DEF Last
  <2>2. rest[L - 1] = Ring[L]
    BY <1>1, <1>3, <1>4
  <2> QED BY <1>3, <2>1, <2>2
<1>8. Ring[1].buffer \in Buffers /\ content \in [Buffers -> Int]
  BY <1>3, <1>6, BuffersApart DEF OrderInv, PoolType
<1>9. \A b \in Buffers : b # Ring[1].buffer => content'[b] = content[b]
  BY <1>1, <1>4, <1>8
<1>10. \A m, n \in DOMAIN Ring : m # n => Ring[m].buffer # Ring[n].buffer
  BY DEF DataInv, Fresh
<1>11. \A n \in DOMAIN Ring' : /\ Ring'[n].buffer # Ring[1].buffer
                               /\ Ring'[n].buffer \in BuffersOf("producer")
                               /\ content'[Ring'[n].buffer] = content[Ring'[n].buffer]
  <2>1. ASSUME NEW n \in DOMAIN Ring' PROVE Ring'[n].buffer # Ring[1].buffer
    <3>1. n + 1 # 1
      BY <1>3, <1>4, <1>5
    <3> QED BY <1>6, <1>10, <3>1
  <2>2. ASSUME NEW n \in DOMAIN Ring' PROVE Ring'[n].buffer \in BuffersOf("producer")
    BY <1>3, <1>6
  <2> QED BY <1>9, <2>1, <2>2, BuffersApart
<1>12. Fresh'
  <2>1. \A n \in DOMAIN Ring' : Ring'[n].sequence # -1 =>
           content'[Ring'[n].buffer] = Ring'[n].sequence
    BY <1>6, <1>11 DEF DataInv, Fresh
  <2>2. ASSUME NEW m \in DOMAIN Ring', NEW n \in DOMAIN Ring', m # n
        PROVE  Ring'[m].buffer # Ring'[n].buffer
    <3>1. m + 1 # n + 1
      BY <1>3, <1>4, <1>5, <2>2
    <3> QED BY <1>6, <1>10, <3>1
  <2>3. /\ pg'["producer"].out \in BuffersOf("producer")
        /\ \A n \in DOMAIN Ring' : Ring'[n].buffer # pg'["producer"].out
    BY <1>1, <1>3, <1>4, <1>6, <1>11
  <2> QED BY <2>1, <2>2, <2>3 DEF Fresh
<1>13. InOrder'
  <2>1. TaskOf("producer") \in DOMAIN tasks /\ First(TaskOf("producer"))
    BY <1>0, <1>2, TaskOfIn DEF OrderInv, First
  <2>2. First(TaskOf("producer"))' <=> First(TaskOf("producer"))
    BY <1>2 DEF First, TaskOf
  <2>3. \A i : First(i)' <=> First(i)
    BY <1>2 DEF First
  <2>4. \E i \in DOMAIN tasks' : First(i)' /\ pg'["producer"].seq = tasks'[i].frame
    BY <1>1, <1>2, <2>1, <2>3
  <2> QED BY <1>1, <1>2, <1>7, <2>4 DEF DataInv, InOrder, At
<1>14. Spread'
  <2>1. SUFFICES ASSUME NEW m \in DOMAIN Ring', NEW n \in DOMAIN Ring', m < n,
                        Ring'[m].sequence >= 0
                 PROVE  Ring'[n].sequence - Ring'[m].sequence >= n - m
    BY DEF Spread
  <2>2. m \in Int /\ n \in Int
    BY <1>3, <1>4, <1>5
  <2>3. Ring[n + 1].sequence - Ring[m + 1].sequence >= (n + 1) - (m + 1)
    BY <1>6, <2>1, <2>2 DEF DataInv, Spread
  <2> QED BY <1>3, <1>6, <2>2, <2>3
<1>15. Source'
  <2>1. SUFFICES ASSUME At("consumer", "copy"), pg["consumer"].ref # -1, Recent("consumer")
                 PROVE  /\ Last(Ring)'.sequence >= pg["consumer"].seq - 1
                        /\ \E k \in DOMAIN Ring' : SourceAt(k)'
    <3>1. Recent("consumer")' <=> Recent("consumer")
      BY <1>1, <1>2 DEF Recent
    <3> QED BY <1>1, <3>1 DEF DataInv, Source, At
  <2> DEFINE seq == pg["consumer"].seq
  <2>2. Last(Ring).sequence >= seq - 1
    BY <2>1 DEF DataInv, Source
  <2>3. PICK k \in DOMAIN Ring : SourceAt(k)
    BY <2>1 DEF DataInv, Source
  <2>4. seq \in Int /\ newest \in Int /\ newest - seq < L - 1
    BY <1>3, <2>1, TaskFacts DEF Recent
  <2>5. k # 1
    <3>1. SUFFICES ASSUME k = 1 PROVE FALSE
      OBVIOUS
    <3>2. Ring[1].sequence >= 0
      BY <1>3, <2>1, <2>3, <3>1 DEF SourceAt
    <3>3. 2 \in DOMAIN Ring /\ L \in DOMAIN Ring
      BY <1>1, <1>3
    <3>4. Ring[2].sequence >= seq /\ Ring[2].sequence >= 0
      BY <1>3, <2>3, <3>1, <3>2, <3>3 DEF SourceAt
    <3>5. Ring[L].sequence - Ring[2].sequence >= L - 2
      <4>1. CASE L = 2
        BY <1>3, <3>3, <4>1
      <4>2. CASE L > 2
        BY <3>3, <3>4, <4>2 DEF DataInv, Spread
      <4> QED BY <1>1, <1>3, <4>1, <4>2
    <3>6. PICK i \in DOMAIN tasks : "producer" \in tasks[i].left
      BY <1>2
    <3>7. tasks[i].frame \in 0..newest /\ tasks[i].frame > Ring[L].sequence
      BY <1>3, <3>6 DEF DataInv, InOrder
    <3> HIDE DEF seq
    <3> QED BY <1>3, <2>4, <3>3, <3>4, <3>5, <3>7, SMTT(30)
  <2>6. k - 1 \in DOMAIN Ring' /\ Ring'[k - 1] = Ring[k]
    <3>1. k - 1 \in 1..L - 1 /\ (k - 1) + 1 = k
      BY <1>3, <2>5
    <3> QED BY <1>4, <1>5, <3>1
  <2>7. SourceAt(k - 1)'
    <3>1. ASSUME NEW n \in DOMAIN Ring', n > k - 1 PROVE Ring'[n].sequence >= seq
      <4>1. n + 1 > k
        BY <1>3, <1>4, <1>5, <3>1
      <4> QED BY <1>6, <2>3, <4>1 DEF SourceAt
    <3> QED BY <1>1, <2>3, <2>6, <3>1 DEF SourceAt
  <2> QED BY <1>7, <2>2, <2>6, <2>7
<1>16. Reads'
  <2>1. pg'["producer"].ref # -1 =>
           /\ pg'["producer"].in \in BuffersOf("producer")
           /\ content'[pg'["producer"].in] = pg'["producer"].ref
    <3>1. PICK n \in DOMAIN Ring' :
            /\ pg'["producer"].in = Ring'[n].buffer
            /\ pg'["producer"].ref # -1 => pg'["producer"].ref = Ring'[n].sequence
      BY <1>1, <1>5
    <3> QED BY <1>11, <1>12, <3>1 DEF Fresh
  <2>2. ~ At("consumer", "idle") => content'[pg["consumer"].in] = content[pg["consumer"].in]
    BY <1>3, <1>6, <1>9, BuffersApart DEF DataInv, Source
  <2>3. Recent("consumer")' <=> Recent("consumer")
    BY <1>1, <1>2 DEF Recent
  <2> QED BY <1>1, <2>1, <2>2, <2>3 DEF DataInv, Reads, At
<1> QED BY <1>12, <1>13, <1>14, <1>15, <1>16 DEF DataInv

\* acquireBuffer of the still pipe only touches references of its own.
LEMMA StillAcquireData ==
  ASSUME OrderInv, DataInv, AcquireBuffer("consumer")
  PROVE  DataInv'
<1> DEFINE s == refer["consumer"]
<1>0. "producer" \in Pipes /\ "consumer" \in Pipes
  BY DEF Pipes
<1>1. /\ Len(s) >= 2 /\ refer' = [refer EXCEPT !["consumer"] = Tail(s)]
      /\ content' = [content EXCEPT ![Head(s).buffer] = -1]
      /\ pg'["producer"] = pg["producer"]
      /\ pg'["consumer"].pc \in {"find", "run"} /\ pg'["consumer"].src = NoBuffer
      /\ \E n \in DOMAIN Tail(s) : pg'["consumer"].in = Tail(s)[n].buffer
  BY <1>0, AcquireEffect DEF OrderInv
<1>2. UNCHANGED <<tasks, raw, newest>>
  BY DEF AcquireBuffer
<1>3. s \in Seq(References("consumer"))
  BY <1>0 DEF OrderInv, PoolType
<1> HIDE DEF s
<1>4. Head(s).buffer \in BuffersOf("consumer") /\ pg'["consumer"].in \in BuffersOf("consumer")
  <2>1. Head(s) \in References("consumer") /\ Tail(s) \in Seq(References("consumer"))
    BY <1>1, <1>3
  <2>2. Head(s).buffer \in BuffersOf("consumer")
    BY <2>1 DEF References
  <2> QED BY <1>0, <1>1, <2>1, <2>2, SequenceIn
<1>5. Ring' = Ring
  BY <1>0, <1>1 DEF OrderInv, PoolType, Ring
<1>6. \A b \in BuffersOf("producer") : content'[b] = content[b]
  BY <1>1, <1>4, BuffersApart DEF OrderInv, PoolType
<1>7. Fresh'
  BY <1>1, <1>5, <1>6, RingFacts DEF DataInv, Fresh, At
<1>8. InOrder' /\ Spread'
  BY <1>1, <1>2, <1>5 DEF DataInv, InOrder, Spread, First, At
<1>9. Source'
  BY <1>1, <1>4 DEF Source, At
<1>10. Reads'
  BY <1>1, <1>6 DEF DataInv, Reads, At
<1> QED BY <1>7, <1>8, <1>9, <1>10 DEF DataInv

\* releaseBuffer of the video pipe: the output is behind all references, and the still
\* frame that copies is not newer.
LEMMA VideoReleaseData ==
  ASSUME OrderInv, DataInv, ReleaseBuffer("producer")
  PROVE  DataInv'
<1> DEFINE L == Len(Ring)
           seq == pg["producer"].seq
           out == pg["producer"].out
           i == TaskOf("producer")
<1>0. "producer" \in Pipes /\ "consumer" \in Pipes /\ refer["producer"] = Ring
  BY DEF Pipes, Ring
<1>1. /\ content' = [content EXCEPT ![out] = seq]
      /\ refer' = [refer EXCEPT !["producer"] = Released(Ring, seq, out)]
      /\ pg["producer"].pc = "run" /\ pg'["producer"] = Idle
      /\ \/ pg'["consumer"] = pg["consumer"]
         \/ pg["consumer"].pc = "wait" /\ pg'["consumer"] = AfterWait(pg["consumer"])
      /\ UNCHANGED newest /\ \E g : TasksAfter("producer", g)
  BY <1>0, ReleaseEffect DEF OrderInv
<1>2. Idle.pc = "idle"
  BY DEF Idle
<1>3. /\ Ring \in Seq(References("producer")) /\ DOMAIN Ring = 1..L /\ L \in Nat
      /\ L >= 1 /\ L \in DOMAIN Ring /\ Last(Ring) = Ring[L]
      /\ \A n \in DOMAIN Ring : /\ Ring[n].sequence \in Int /\ Ring[n].sequence >= -1
                                /\ Ring[n].buffer \in BuffersOf("producer")
      /\ \A m, n \in DOMAIN Ring : m < n => Ring[m].sequence <= Ring[n].sequence
  BY RingFacts
<1>4. /\ i \in DOMAIN tasks /\ "producer" \in tasks[i].left /\ seq = tasks[i].frame
      /\ \A j \in DOMAIN tasks : "producer" \in tasks[j].left => i <= j
  <2>1. ~ At("producer", "idle")
    BY <1>1 DEF At
  <2>2. PICK j \in DOMAIN tasks : First(j) /\ seq = tasks[j].frame
    BY <2>1 DEF DataInv, InOrder
  <2>3. /\ i \in DOMAIN tasks /\ "producer" \in tasks[i].left
        /\ \A k \in DOMAIN tasks : "producer" \in tasks[k].left => i <= k
    BY <1>0, <2>2, TaskOfIn DEF OrderInv, First
  <2>4. i = j
    <3> HIDE DEF i
    <3> QED BY <2>2, <2>3, TaskFacts DEF First
  <2> QED BY <2>2, <2>3, <2>4
<1>5. /\ seq \in 0..newest /\ seq > Ring[L].sequence /\ newest \in Int /\ seq \in Int
      /\ out \in BuffersOf("producer") /\ \A n \in DOMAIN Ring : Ring[n].buffer # out
  <2>1. seq \in 0..newest /\ seq > Ring[L].sequence
    BY <1>3, <1>4 DEF DataInv, InOrder
  <2>2. out \in BuffersOf("producer") /\ \A n \in DOMAIN Ring : Ring[n].buffer # out
    BY <1>1 DEF DataInv, Fresh, At
  <2> QED BY <2>1, <2>2, TaskFacts
<1>6. Ring' = Append(Ring, [sequence |-> seq, buffer |-> out])
  <2>1. Ring' = Released(Ring, seq, out)
    BY <1>0, <1>1 DEF OrderInv, PoolType, Ring
  <2>2. ~ (seq < Last(Ring).sequence)
    BY <1>3, <1>5
  <2> QED BY <2>1, <2>2 DEF Released
<1> HIDE DEF L, seq, out, i
<1>7. /\ DOMAIN Ring' = 1..L + 1 /\ Ring'[L + 1].sequence = seq /\ Ring'[L + 1].buffer = out
      /\ L + 1 \in DOMAIN Ring' /\ Last(Ring)'.sequence = seq
      /\ \A n \in DOMAIN Ring : n \in DOMAIN Ring' /\ Ring'[n] = Ring[n]
      /\ \A n \in DOMAIN Ring' : n \in DOMAIN Ring \/ n = L + 1
  <2> DEFINE t == [sequence |-> seq, buffer |-> out]
  <2>1. t \in References("producer") /\ t.sequence = seq /\ t.buffer = out
    BY <1>5 DEF References
  <2> HIDE DEF t
  <2>2. Ring' = Append(Ring, t)
    BY <1>6 DEF t
  <2>3. /\ Len(Ring') = L + 1 /\ DOMAIN Ring' = 1..L + 1 /\ Ring'[L + 1] = t
        /\ \A n \in DOMAIN Ring : n \in DOMAIN Ring' /\ Ring'[n] = Ring[n]
    BY <1>3, <2>1, <2>2 DEF L
  <2>4. Last(Ring)' = t
    BY <2>3 DEF Last
  <2> QED BY <1>3, <2>1, <2>3, <2>4
<1>8. /\ content'[out] = seq /\ out \in Buffers
      /\ \A b \in Buffers : b # out => content'[b] = content[b]
  BY <1>1, <1>5, BuffersApart DEF OrderInv, PoolType
<1>9. Fresh'
  <2>1. ASSUME NEW n \in DOMAIN Ring', Ring'[n].sequence # -1
        PROVE  content'[Ring'[n].buffer] = Ring'[n].sequence
    <3>1. CASE n \in DOMAIN Ring
      BY <1>3, <1>5, <1>7, <1>8, <2>1, <3>1, BuffersApart DEF DataInv, Fresh
    <3>2. CASE n = L + 1
      BY <1>7, <1>8, <3>2
    <3> QED BY <1>7, <3>1, <3>2
  <2>2. ASSUME NEW m \in DOMAIN Ring', NEW n \in DOMAIN Ring', m # n
        PROVE  Ring'[m].buffer # Ring'[n].buffer
    BY <1>5, <1>7, <2>2 DEF DataInv, Fresh
  <2>3. At("producer", "idle")'
    BY <1>1, <1>2 DEF At
  <2> QED BY <2>1, <2>2, <2>3 DEF Fresh
<1>10. InOrder'
  <2>1. PICK g : TasksAfter("producer", g)
    BY <1>1
  <2>2. ASSUME NEW k \in DOMAIN tasks', "producer" \in tasks'[k].left
        PROVE  /\ g[k] \in DOMAIN tasks /\ "producer" \in tasks[g[k]].left /\ g[k] > i
               /\ tasks'[k].frame = tasks[g[k]].frame
    <3>1. /\ g[k] \in DOMAIN tasks /\ tasks'[k].frame = tasks[g[k]].frame
          /\ tasks'[k].left = tasks[g[k]].left \ (IF g[k] = i THEN {"producer"} ELSE {})
      BY <2>1 DEF TasksAfter, i
    <3>2. "producer" \in tasks[g[k]].left /\ g[k] # i
      BY <2>2, <3>1
    <3>3. g[k] > i
      BY <1>4, <3>1, <3>2, TaskFacts
    <3> QED BY <3>1, <3>2, <3>3
  <2>3. ASSUME NEW k \in DOMAIN tasks', "producer" \in tasks'[k].left
        PROVE  tasks'[k].frame \in 0..newest' /\ tasks'[k].frame > seq
    <3>1. tasks[g[k]].frame \in 0..newest
      BY <2>2, <2>3 DEF DataInv, InOrder
    <3>2. tasks[i].frame < tasks[g[k]].frame
      BY <1>4, <2>2, <2>3 DEF DataInv, InOrder
    <3> QED BY <1>1, <1>4, <1>5, <2>2, <2>3, <3>1, <3>2
  <2>4. ASSUME NEW k \in DOMAIN tasks', NEW l \in DOMAIN tasks', k < l,
               "producer" \in tasks'[k].left, "producer" \in tasks'[l].left
        PROVE  tasks'[k].frame < tasks'[l].frame
    <3>1. g[k] < g[l]
      BY <2>1, <2>4 DEF TasksAfter
    <3> QED BY <2>2, <2>4, <3>1 DEF DataInv, InOrder
  <2>5. At("producer", "idle")'
    BY <1>1, <1>2 DEF At
  <2> QED BY <1>1, <1>5, <1>7, <2>3, <2>4, <2>5 DEF DataInv, InOrder
<1>11. Spread'
  <2>1. SUFFICES ASSUME NEW m \in DOMAIN Ring', NEW n \in DOMAIN Ring', m < n,
                        Ring'[m].sequence >= 0
                 PROVE  Ring'[n].sequence - Ring'[m].sequence >= n - m
    BY DEF Spread
  <2>2. m \in DOMAIN Ring /\ m \in Int /\ n \in Int
    BY <1>3, <1>7, <2>1
  <2>3. CASE n \in DOMAIN Ring
    BY <1>7, <2>1, <2>2, <2>3 DEF DataInv, Spread
  <2>4. CASE n = L + 1
    <3>1. CASE m = L
      BY <1>3, <1>5, <1>7, <2>2, <2>4, <3>1
    <3>2. CASE m < L
      <4>1. Ring[L].sequence - Ring[m].sequence >= L - m
        BY <1>3, <1>7, <2>1, <2>2, <3>2 DEF DataInv, Spread
      <4> QED BY <1>3, <1>5, <1>7, <2>2, <2>4, <4>1, SMTT(30)
    <3> QED BY <1>3, <2>2, <3>1, <3>2
  <2> QED BY <1>7, <2>3, <2>4
<1>12. /\ pg["consumer"] \in Iterates("consumer") /\ pg["consumer"].seq \in Int
       /\ ~ At("consumer", "idle") => content'[pg["consumer"].in] = content[pg["consumer"].in]
  <2>1. pg["consumer"] \in Iterates("consumer")
    BY <1>0 DEF OrderInv, PoolType
  <2>2. ~ At("consumer", "idle") => content'[pg["consumer"].in] = content[pg["consumer"].in]
    BY <1>5, <1>8, BuffersApart DEF DataInv, Source
  <2> QED BY <2>1, <2>2, TaskFacts
<1>13. CASE pg["consumer"].pc = "wait" /\ pg'["consumer"] = AfterWait(pg["consumer"])
  <2>1. /\ pg'["consumer"].pc \in {"find", "run"} /\ pg'["consumer"].src = pg["consumer"].src
        /\ pg'["consumer"].in = pg["consumer"].in
    BY <1>0, <1>12, <1>13, AfterWaitEffect
  <2>2. pg["consumer"].src = NoBuffer /\ pg["consumer"].in \in BuffersOf("consumer")
    BY <1>13 DEF DataInv, Source, At
  <2>3. Source'
    BY <2>1, <2>2 DEF Source, At
  <2>4. Reads'
    BY <1>1, <1>2, <2>1, <2>2 DEF Reads, At
  <2> QED BY <1>9, <1>10, <1>11, <2>3, <2>4 DEF DataInv
<1>14. CASE pg'["consumer"] = pg["consumer"]
  <2>1. Recent("consumer")' <=> Recent("consumer")
    BY <1>1, <1>14 DEF Recent
  <2>2. ASSUME At("consumer", "copy"), pg["consumer"].ref # -1, Recent("consumer")
        PROVE  /\ Last(Ring)'.sequence >= pg["consumer"].seq - 1
               /\ \E k \in DOMAIN Ring' : SourceAt(k)'
    <3>1. Last(Ring).sequence >= pg["consumer"].seq - 1
      BY <2>2 DEF DataInv, Source
    <3>2. PICK k \in DOMAIN Ring : SourceAt(k)
      BY <2>2 DEF DataInv, Source
    <3>3. seq >= pg["consumer"].seq
      BY <1>3, <1>5, <1>12, <3>1
    <3>4. \A n \in DOMAIN Ring' : n > k => Ring'[n].sequence >= pg["consumer"].seq
      BY <1>7, <3>2, <3>3 DEF SourceAt
    <3>5. SourceAt(k)'
      BY <1>7, <1>14, <3>2, <3>4 DEF SourceAt
    <3>6. Last(Ring)'.sequence >= pg["consumer"].seq - 1
      BY <1>5, <1>7, <1>12, <3>3
    <3> QED BY <1>7, <3>5, <3>6
  <2>3. Source'
    BY <1>14, <2>1, <2>2 DEF DataInv, Source, At
  <2>4. Reads'
    BY <1>1, <1>2, <1>12, <1>14, <2>1 DEF DataInv, Reads, At
  <2> QED BY <1>9, <1>10, <1>11, <2>3, <2>4 DEF DataInv
<1> QED BY <1>1, <1>13, <1>14

\* releaseBuffer of the still pipe writes a reference of its own and takes no task from
\* the video pipe.
LEMMA StillReleaseData ==
  ASSUME OrderInv, DataInv, ReleaseBuffer("consumer")
  PROVE  DataInv'
<1> DEFINE out == pg["consumer"].out
<1>0. "producer" \in Pipes /\ "consumer" \in Pipes
  BY DEF Pipes
<1>1. /\ content' = [content EXCEPT ![out] = pg["consumer"].seq]
      /\ refer' = [refer EXCEPT !["consumer"] = Released(refer["consumer"], pg["consumer"].seq, out)]
      /\ pg["consumer"].pc = "run" /\ pg'["consumer"] = Idle
      /\ pg'["producer"] = pg["producer"]
      /\ UNCHANGED newest /\ \E g : TasksAfter("consumer", g)
  BY <1>0, ReleaseEffect DEF OrderInv
<1>2. Idle.pc = "idle"
  BY DEF Idle
<1>3. Ring' = Ring
  BY <1>0, <1>1 DEF OrderInv, PoolType, Ring
<1>4. out \in BuffersOf("consumer")
  BY <1>0, <1>1 DEF OrderInv, HasTask, At
<1> HIDE DEF out
<1>5. \A b \in BuffersOf("producer") : content'[b] = content[b]
  BY <1>1, <1>4, BuffersApart DEF OrderInv, PoolType
<1>6. Fresh'
  BY <1>1, <1>3, <1>5, RingFacts DEF DataInv, Fresh, At
<1>7. Spread'
  BY <1>3 DEF DataInv, Spread
<1>8. Source'
  BY <1>1, <1>2 DEF Source, At
<1>9. Reads'
  BY <1>1, <1>2, <1>5 DEF DataInv, Reads, At
<1>10. InOrder'
  <2>1. PICK g : TasksAfter("consumer", g)
    BY <1>1
  <2>2. \A k \in DOMAIN tasks' :
           /\ g[k] \in DOMAIN tasks /\ tasks'[k].frame = tasks[g[k]].frame
           /\ "producer" \in tasks'[k].left <=> "producer" \in tasks[g[k]].left
    BY <2>1 DEF TasksAfter
  <2>3. \A k, l \in DOMAIN tasks' : k < l => g[k] < g[l]
    BY <2>1 DEF TasksAfter
  <2>4. ASSUME NEW j \in DOMAIN tasks, First(j)
        PROVE  \E k \in DOMAIN tasks' : First(k)' /\ tasks'[k].frame = tasks[j].frame
    <3>1. "producer" \in tasks[j].left \ (IF j = TaskOf("consumer") THEN {"consumer"} ELSE {})
      BY <2>4 DEF First
    <3>2. PICK k \in DOMAIN tasks' : g[k] = j
      BY <2>1, <3>1 DEF TasksAfter
    <3>3. ASSUME NEW l \in DOMAIN tasks', "producer" \in tasks'[l].left PROVE k <= l
      <4>1. j <= g[l]
        BY <2>2, <2>4, <3>3 DEF First
      <4>2. ~ (g[l] < g[k])
        BY <2>2, <3>2, <4>1, TaskFacts
      <4>3. k \in Int /\ l \in Int
        BY <1>0, ReleaseEffect DEF OrderInv
      <4> QED BY <2>3, <4>2, <4>3
    <3>4. First(k)'
      BY <2>2, <2>4, <3>2, <3>3 DEF First
    <3> QED BY <2>2, <3>2, <3>4
  <2>5. \A k, l \in DOMAIN tasks' :
           k < l /\ "producer" \in tasks'[k].left /\ "producer" \in tasks'[l].left
           => tasks'[k].frame < tasks'[l].frame
    BY <2>2, <2>3 DEF DataInv, InOrder
  <2>6. \A k \in DOMAIN tasks' : "producer" \in tasks'[k].left =>
           tasks'[k].frame \in 0..newest /\ tasks'[k].frame > Last(Ring).sequence
    BY <2>2 DEF DataInv, InOrder
  <2>7. ~ At("producer", "idle")' =>
          /\ At("producer", "run")'
          /\ \E k \in DOMAIN tasks' : First(k)' /\ pg'["producer"].seq = tasks'[k].frame
    BY <1>1, <2>4 DEF DataInv, InOrder, At
  <2> QED BY <1>1, <1>3, <2>5, <2>6, <2>7 DEF DataInv, InOrder
<1> QED BY <1>6, <1>7, <1>8, <1>9, <1>10 DEF DataInv

\* The still pipe finds its source, waits for it or gives up, and copies it.
LEMMA StillStepData ==
  ASSUME OrderInv, DataInv, FindReference \/ WaitTimesOut \/ CopyReference
  PROVE  DataInv'
<1> DEFINE old == pg["consumer"]
           new == pg'["consumer"]
<1>1. /\ UNCHANGED <<refer, tasks, raw, newest>> /\ Ring' = Ring
      /\ pg'["producer"] = pg["producer"]
      /\ old.pc # "idle" /\ new.seq = old.seq /\ new.in = old.in
  BY FindEffect, WaitEffect, CopyEffect DEF OrderInv, StillStep, Ring
<1>2. old.in \in BuffersOf("consumer")
  BY <1>1 DEF DataInv, Source, At
<1>3. \A b \in BuffersOf("producer") : content'[b] = content[b]
  <2>1. \/ content' = content
        \/ content' = [content EXCEPT ![old.in] = content[old.src]]
    BY FindEffect, WaitEffect, CopyEffect DEF OrderInv
  <2> QED BY <1>2, <2>1, BuffersApart DEF OrderInv, PoolType
<1>4. Fresh'
  BY <1>1, <1>3, RingFacts DEF DataInv, Fresh, At
<1>5. InOrder' /\ Spread'
  BY <1>1 DEF DataInv, InOrder, Spread, First, At
<1>6. Recent("consumer")' <=> Recent("consumer")
  BY <1>1 DEF Recent
<1>7. Source' /\ Reads'
  <2>1. CASE new.pc \in {"find", "wait", "run"} /\ new.src = NoBuffer
    <3>1. Source'
      BY <1>1, <1>2, <2>1 DEF Source, At
    <3>2. Reads'
      BY <1>1, <1>3, <2>1 DEF DataInv, Reads, At
    <3> QED BY <3>1, <3>2
  <2>2. CASE FindReference
    <3>1. old.src = NoBuffer
      BY <2>2 DEF FindReference, DataInv, Source
    <3>2. CASE new.pc \in {"wait", "run"} /\ new.src = old.src
      BY <2>1, <3>1, <3>2
    <3>3. CASE /\ new.pc = "copy" /\ Last(Ring).sequence >= old.seq - 1
               /\ \E k \in DOMAIN Ring :
                    /\ new.src = Ring[k].buffer /\ new.ref = Ring[k].sequence
                    /\ \A n \in DOMAIN Ring : n > k => Ring[n].sequence >= old.seq
      <4>1. \E k \in DOMAIN Ring' : SourceAt(k)'
        BY <1>1, <3>3 DEF SourceAt
      <4>2. Source'
        BY <1>1, <1>2, <3>3, <4>1 DEF Source, At
      <4>3. Reads'
        BY <1>1, <1>3, <3>3 DEF DataInv, Reads, At
      <4> QED BY <4>2, <4>3
    <3> QED BY <2>2, <3>2, <3>3, FindEffect DEF OrderInv
  <2>3. CASE WaitTimesOut
    <3>1. old.src = NoBuffer
      BY <2>3 DEF WaitTimesOut, DataInv, Source
    <3> QED BY <2>1, <2>3, <3>1, WaitEffect DEF OrderInv
  <2>4. CASE CopyReference
    <3>1. /\ At("consumer", "copy") /\ new.pc = "run"
          /\ content' = [content EXCEPT ![old.in] = content[old.src]]
          /\ new.src = old.src /\ new.ref = old.ref
      BY <2>4, CopyEffect DEF OrderInv
    <3>2. content'[old.in] = content[old.src]
      BY <1>2, <3>1, BuffersApart DEF OrderInv, PoolType
    <3>3. ASSUME old.ref # -1, Recent("consumer") PROVE content[old.src] = old.ref
      <4>1. PICK k \in DOMAIN Ring : SourceAt(k)
        BY <3>1, <3>3 DEF DataInv, Source
      <4> QED BY <3>3, <4>1 DEF DataInv, Fresh, SourceAt
    <3>4. Source'
      BY <1>1, <1>2, <3>1 DEF Source, At
    <3>5. Reads'
      BY <1>1, <1>3, <1>6, <3>1, <3>2, <3>3 DEF DataInv, Reads, At
    <3> QED BY <3>4, <3>5
  <2> QED BY <2>2, <2>3, <2>4
<1> QED BY <1>4, <1>5, <1>7 DEF DataInv

\* No data is expected of the references that createReferBuffers makes.
LEMMA InitData ==
  ASSUME Init
  PROVE  DataInv
<1>1. /\ OrderInv /\ tasks = <<>> /\ newest = -1
      /\ pg["producer"].pc = "idle" /\ pg["consumer"].pc = "idle"
  BY InitOrder DEF Init, Idle, Pipes
<1>2. /\ \A n \in DOMAIN Ring : Ring[n].sequence = -1
      /\ \A m, n \in DOMAIN Ring : m # n => Ring[m].buffer # Ring[n].buffer
  <2>1. "producer" \in Pipes
    BY DEF Pipes
  <2>2. Ring = SetToSeq({[sequence |-> -1, buffer |-> b] : b \in BuffersOf("producer")})
    BY <2>1 DEF Init, Ring
  <2> QED BY <2>1, <2>2, RingMade
<1>3. Fresh /\ Spread
  BY <1>1, <1>2 DEF Fresh, Spread, At
<1>4. InOrder
  <2>1. Last(Ring).sequence = -1
    BY <1>1, <1>2, RingFacts
  <2>2. DOMAIN tasks = {}
    BY <1>1
  <2> QED BY <1>1, <2>1, <2>2 DEF InOrder, At
<1>5. Source /\ Reads
  BY <1>1 DEF Source, Reads, At
<1> QED BY <1>3, <1>4, <1>5 DEF DataInv

\* Every step keeps the data where the pipes expect it.
LEMMA NextData ==
  ASSUME StillOnlyAgain, OrderInv, DataInv, [Next]_vars
  PROVE  DataInv'
<1>1. ASSUME NextFrame \/ ReprocessFrame PROVE DataInv'
  BY <1>1, NewTaskData
<1>2. ASSUME NEW pipe \in Pipes, AcquireBuffer(pipe) PROVE DataInv'
  BY <1>2, VideoAcquireData, StillAcquireData DEF Pipes
<1>3. ASSUME NEW pipe \in Pipes, ReleaseBuffer(pipe) PROVE DataInv'
  BY <1>3, VideoReleaseData, StillReleaseData DEF Pipes
<1>4. ASSUME FindReference \/ WaitTimesOut \/ CopyReference PROVE DataInv'
  BY <1>4, StillStepData
<1>5. CASE UNCHANGED vars
  <2>1. Ring' = Ring /\ UNCHANGED <<content, pg, tasks, newest>>
    BY <1>5 DEF vars, Ring
  <2>2. Recent("consumer")' <=> Recent("consumer")
    BY <2>1 DEF Recent
  <2>3. Fresh' /\ Spread' /\ InOrder'
    BY <2>1 DEF DataInv, Fresh, Spread, InOrder, First, At
  <2>4. Source' /\ Reads'
    BY <2>1, <2>2 DEF DataInv, Source, SourceAt, Reads, At
  <2> QED BY <2>3, <2>4 DEF DataInv
<1> QED BY <1>1, <1>2, <1>3, <1>4, <1>5 DEF Next

\* The still pipe's copy, made without the lock, is of the frame that findReferBuffer
\* found: the video pipe does not take that buffer for a new output before, as long as
\* the still frame is among the MaxRawDataNum - 1 newest and the kept frames are only run
\* by the still pipe.
THEOREM ReferencesAreRight ==
  ASSUME StillOnlyAgain
  PROVE  Spec => []RightReference
<1>1. Init => OrderInv /\ DataInv
  BY InitOrder, InitData
<1>2. OrderInv /\ DataInv /\ [Next]_vars => (OrderInv /\ DataInv)'
  BY NextOrder, NextData
<1>3. DataInv => RightReference
  BY DEF DataInv, Reads, RightReference, Recent, Pipes
<1> QED BY <1>1, <1>2, <1>3, PTL DEF Spec

=============================================================================
