------------------------- MODULE AiqEngine_proofs -------------------------
(***************************************************************************)
(* Proofs about AiqEngine: the types, the statistics a run has locked, the  *)
(* order of the effect sequences, and the result that is found for a frame, *)
(* for every sensor and any number of frames, runs and sessions.  The last  *)
(* needs a ring that is large enough, and a run that stores its result in   *)
(* time.                                                                   *)
(***************************************************************************)
EXTENDS AiqEngine, FiniteSetTheorems, SequenceTheorems, WellFoundedInduction, TLAPS

-----------------------------------------------------------------------------
(* The inductive invariant.                                                *)

Running == run.pc \in {"expose", "done", "unlock"}

\* no SOF event is handled twice, and before the first run there is no SOF
SofInv ==
    /\ sof.seq = frame
    /\ mLastSofSequence <= sof.seq
    /\ "3A" \in sof.left => mLastSofSequence < sof.seq
FirstInv ==
    mFirstAiqRunning =>
        /\ frame = -1 /\ mLastSofSequence = -1 /\ DOMAIN mExposureDataMap = {}
        /\ run.skip = 0
        /\ run.pc \in {"unlock", "return"} => AiqMayFail
        /\ used.sessions = 1 => LatestResult.mSequence = -1

IdleInv == run.pc = "idle" => run.skip = 0

\* what needRun3A() has left room for
SizeInv ==
    ~ mAiqRunningForPerframe =>
        /\ Size <= kMaxExposureAppliedDelay - ExposureLag + 1 + NumSkip
        /\ run.pc = "expose" => Size <= kMaxExposureAppliedDelay - ExposureLag
        /\ run.pc = "done" =>
              Size + run.skip <= kMaxExposureAppliedDelay - ExposureLag + 1 + NumSkip

\* one slot is locked at most, and it is still the one the run found
LockInv ==
    /\ \A i \in Slots : mAiqStatistics[i].mInUse => Running /\ run.stats = i
    /\ Running /\ run.stats # -1 =>
          /\ mAiqStatistics[run.stats].mInUse /\ run.seq # -1
          /\ mAiqStatistics[run.stats].mSequence = run.seq
    /\ run.pc = "idle" => run.stats = -1
\* one other is being filled, and it is the next one
FillInv ==
    /\ decoder.pc \in {"fill", "update"} <=> decoder.slot # -1
    /\ decoder.pc # "idle" => decoder.seq = decoder.last /\ decoder.seq # -1
    /\ decoder.pc = "decode" => ~ decoder.pending
    /\ decoder.slot # -1 =>
          /\ decoder.slot = NextStats(mCurrentAiqStatsIndex)
          /\ ~ mAiqStatistics[decoder.slot].mInUse
    /\ decoder.pc = "update" =>
          /\ mAiqStatistics[decoder.slot].mSequence = decoder.seq
          /\ mAiqStatistics[decoder.slot].mTimestamp = decoder.seq
          /\ mAiqStatistics[decoder.slot].mPendingDecode = decoder.pending
\* the slots that a run may read: the one it has locked, and the one it may lock
Readable(i) == i \in Slots /\ (i = mCurrentAiqStatsIndex \/ mAiqStatistics[i].mInUse)
LastPublished ==
    IF decoder.pc \in {"fill", "update"} THEN decoder.last - 1 ELSE decoder.last
WholeInv ==
    \A i \in Slots : Readable(i) =>
        /\ mAiqStatistics[i].mSequence # -1
        /\ mAiqStatistics[i].mTimestamp = mAiqStatistics[i].mSequence
        /\ mAiqStatistics[i].mPendingDecode => decoder.pending
\* the executor decodes: only the newest statistics may be not decoded yet
BehindInv ==
    ~ decoder.pending =>
        /\ decodedStats >= IF decoder.pc = "decode" THEN LastPublished - 1
                                                  ELSE LastPublished
        /\ \A i \in Slots : Readable(i) => mAiqStatistics[i].mSequence <= LastPublished
\* 3A decodes: what does not wait is what was decoded last
PendingInv ==
    decoder.pending => \A i \in Slots : Readable(i) =>
        /\ ~ mAiqStatistics[i].mPendingDecode => decodedStats = mAiqStatistics[i].mSequence
        /\ Running /\ run.stats # -1 /\ run.stats # i => mAiqStatistics[i].mPendingDecode
DataInv ==
    Running /\ run.stats # -1 /\ run.aiqRun =>
        IF decoder.pending THEN run.data = run.seq ELSE run.data >= run.seq - 1

\* an effect sequence that the next prediction cannot be before
Reach(effect) ==
    \/ effect <= InitialSkipFrame
    \/ mLastSofSequence >= 0 /\ effect <= mLastSofSequence + ExposureLag + Size
EffectInv ==
    /\ mFirstAiqRunning => requests.effect = -1
    /\ ~ mFirstAiqRunning =>
          /\ mCurrentIndex # -1
          /\ requests.effect <= LatestResult.mSequence
          /\ Reach(LatestResult.mSequence)
    /\ run.pc = "done" =>
          /\ Reach(run.effect)
          /\ ~ mFirstAiqRunning => LatestResult.mSequence <= run.effect
SessionInv == used.sessions >= 1 /\ (used.sessions = 1 \/ used.sessions <= MaxSessions)

-----------------------------------------------------------------------------
(* The sensor.                                                             *)

\* "exposure" is a register, and the delay of a register is an integer.
LEMMA RegisterFacts ==
    /\ "exposure" \in Registers
    /\ \A x \in Registers : Delay(x) \in Int
    /\ Delay("exposure") = 0
  BY SensorAssumption DEF Registers, Delay

\* A write to a register replaces its last value.
LEMMA WriteType ==
    ASSUME NEW s \in Seq(Nat), Len(s) >= 1, NEW v \in Nat
    PROVE  /\ [s EXCEPT ![Len(s)] = v] \in Seq(Nat)
           /\ Len([s EXCEPT ![Len(s)] = v]) = Len(s)
<1>1. Len(s) \in 1..Len(s)  OBVIOUS
<1> QED  BY <1>1, ExceptSeq

\* The numbers updateSensorExposure() computes with.
LEMMA SensorNumbers ==
    ASSUME SensorType, NEW a \in Frames
    PROVE  /\ Size \in Nat /\ IsFiniteSet(DOMAIN mExposureDataMap)
           /\ sensorSeq(a) \in Int /\ Predicted \in Nat
           /\ Predicted = 0 <=> mLastSofSequence < 0
           /\ mLastSofSequence >= 0 => Predicted = mLastSofSequence + ExposureLag
<1>1. IsFiniteSet(DOMAIN mExposureDataMap)
  BY RegisterFacts DEF SensorType, mExposureDataMap
<1>2. Size \in Nat  BY <1>1, FS_CardinalityType DEF Size
<1>3. mLastSofSequence \in Frames  BY DEF SensorType
<1> QED
  BY <1>1, <1>2, <1>3, SensorAssumption DEF Frames, sensorSeq, Predicted

\* updateSensorExposure() keeps the types and the frame, and enters the exposure in
\* mExposureDataMap unless it writes it at once.
LEMMA UpdateExposure ==
    ASSUME SensorType, NEW n \in Nat, NEW a \in Frames, updateSensorExposure(n, a)
    PROVE  /\ SensorType' /\ frame' = frame
           /\ sof' = sof /\ mLastSofSequence' = mLastSofSequence
           /\ DOMAIN (mExposureDataMap') =
                 IF mLastSofSequence < 0 THEN DOMAIN mExposureDataMap
                 ELSE DOMAIN mExposureDataMap
                         \cup ({sensorSeq(a)} \ {mLastSofSequence})
<1> DEFINE key(x) == sensorSeq(a) + Delay(x)
           now    == IF Predicted = 0 THEN Registers
                     ELSE {x \in Registers : key(x) = mLastSofSequence}
<1>1. /\ sensorSeq(a) \in Int /\ mLastSofSequence \in Int
      /\ Predicted = 0 <=> mLastSofSequence < 0
  BY SensorNumbers DEF SensorType, Frames
<1>2. \A x \in Registers : key(x) \in Int  BY <1>1, RegisterFacts
<1>3. sof' = sof /\ mLastSofSequence' = mLastSofSequence
  BY DEF updateSensorExposure
<1>4. written' = [x \in Registers |-> IF x \in now THEN Write(x, n) ELSE written[x]]
  BY DEF updateSensorExposure
<1>5. waiting' = [x \in Registers |->
                    IF x \in now THEN waiting[x] ELSE Enter(waiting[x], key(x), n)]
  BY DEF updateSensorExposure
<1>6. missed' \subseteq missed \cup {n}  BY DEF updateSensorExposure
<1> HIDE DEF key, now
<1>7. /\ written \in [Registers -> Seq(Nat)] /\ frame \in Frames
      /\ \A x \in Registers : Len(written[x]) = frame + 2
  BY DEF SensorType
<1>8. \A x \in Registers : written'[x] \in Seq(Nat) /\ Len(written'[x]) = frame + 2
  <2> TAKE x \in Registers
  <2>1. written[x] \in Seq(Nat) /\ Len(written[x]) = frame + 2 /\ Len(written[x]) >= 1
    BY <1>7 DEF Frames
  <2>2. Write(x, n) \in Seq(Nat) /\ Len(Write(x, n)) = frame + 2
    BY <2>1, WriteType DEF Write
  <2>3. CASE x \in now
    <3>1. written'[x] = Write(x, n)  BY <1>4, <2>3
    <3> QED  BY <2>2, <3>1
  <2>4. CASE x \notin now
    <3>1. written'[x] = written[x]  BY <1>4, <2>4
    <3> QED  BY <2>1, <3>1
  <2> QED  BY <2>3, <2>4
<1>9. written' \in [Registers -> Seq(Nat)]  BY <1>4, <1>8
<1>10. frame' = frame
  BY <1>7, <1>8, RegisterFacts DEF frame, Frames
<1>11. \A x \in Registers :
          /\ DOMAIN waiting'[x] = IF x \in now THEN DOMAIN waiting[x]
                                  ELSE {key(x)} \cup DOMAIN waiting[x]
          /\ \A s \in DOMAIN waiting'[x] : waiting'[x][s] \in Nat
  <2> TAKE x \in Registers
  <2>1. \A s \in DOMAIN waiting[x] : waiting[x][s] \in Nat  BY DEF SensorType
  <2>2. CASE x \in now
    <3>1. waiting'[x] = waiting[x]  BY <1>5, <2>2
    <3> QED  BY <2>1, <2>2, <3>1
  <2>3. CASE x \notin now
    <3> DEFINE k == key(x)
               w == waiting[x]
    <3>1. waiting'[x] = Enter(w, k, n)  BY <1>5, <2>3
    <3> HIDE DEF k, w
    <3>3. DOMAIN waiting'[x] = {k} \cup DOMAIN w  BY <3>1 DEF Enter
    <3>4. \A y \in DOMAIN waiting'[x] : waiting'[x][y] = IF y = k THEN n ELSE w[y]
      BY <3>1 DEF Enter
    <3> QED  BY <2>1, <2>3, <3>3, <3>4 DEF k, w
  <2> QED  BY <2>2, <2>3
<1>12. \A x \in Registers :
          DOMAIN waiting'[x] \subseteq Int /\ IsFiniteSet(DOMAIN waiting'[x])
  <2> TAKE x \in Registers
  <2>1. DOMAIN waiting[x] \subseteq Int /\ IsFiniteSet(DOMAIN waiting[x])
    BY DEF SensorType
  <2>2. IsFiniteSet(DOMAIN waiting[x] \cup {key(x)})  BY <2>1, FS_AddElement
  <2>3. DOMAIN waiting[x] \cup {key(x)} = {key(x)} \cup DOMAIN waiting[x]  OBVIOUS
  <2> QED  BY <1>2, <1>11, <2>1, <2>2, <2>3
<1>13. DOMAIN waiting' = Registers  BY <1>5
<1>14. missed' \subseteq Nat  BY <1>6 DEF SensorType
<1>15. SensorType'
  BY <1>3, <1>7, <1>8, <1>9, <1>10, <1>11, <1>12, <1>13, <1>14 DEF SensorType
<1>16. "exposure" \in now <=>
          mLastSofSequence < 0 \/ sensorSeq(a) = mLastSofSequence
  <2>1. key("exposure") = sensorSeq(a)  BY <1>1, RegisterFacts DEF key
  <2> QED  BY <1>1, <2>1, RegisterFacts DEF now
<1>17. DOMAIN (mExposureDataMap') =
          IF mLastSofSequence < 0 THEN DOMAIN mExposureDataMap
          ELSE DOMAIN mExposureDataMap \cup ({sensorSeq(a)} \ {mLastSofSequence})
  <2>1. key("exposure") = sensorSeq(a)  BY <1>1, RegisterFacts DEF key
  <2>2. DOMAIN waiting'["exposure"] =
           IF "exposure" \in now THEN DOMAIN waiting["exposure"]
           ELSE {sensorSeq(a)} \cup DOMAIN waiting["exposure"]
    BY <1>11, <2>1, RegisterFacts
  <2> QED  BY <1>16, <2>2 DEF mExposureDataMap
<1> QED  BY <1>3, <1>10, <1>15, <1>17

\* The next frame repeats the registers' values.
LEMMA FrameBegins ==
    ASSUME SensorType, NEW lost \in BOOLEAN, NextFrame(lost)
    PROVE  /\ SensorType' /\ frame' = frame + 1
           /\ sof.left = {} /\ sof'.seq = frame + 1
           /\ mLastSofSequence' = mLastSofSequence /\ waiting' = waiting
<1>1. /\ written \in [Registers -> Seq(Nat)] /\ frame \in Frames
      /\ \A x \in Registers : Len(written[x]) = frame + 2
  BY DEF SensorType
<1>2. /\ written' = [x \in Registers |-> Append(written[x], Last(written[x]))]
      /\ sof.left = {}
      /\ sof' = [seq |-> frame + 1, left |-> IF lost THEN {} ELSE {"3A", "requests"}]
      /\ mLastSofSequence' = mLastSofSequence /\ waiting' = waiting
  BY DEF NextFrame
<1>3. \A x \in Registers : written'[x] \in Seq(Nat) /\ Len(written'[x]) = frame + 3
  <2> TAKE x \in Registers
  <2>1. written[x] \in Seq(Nat) /\ Len(written[x]) = frame + 2 /\ Len(written[x]) >= 1
    BY <1>1 DEF Frames
  <2>2. Last(written[x]) \in Nat  BY <2>1 DEF Last
  <2>3. written'[x] = Append(written[x], Last(written[x]))  BY <1>2
  <2> QED  BY <1>1, <2>1, <2>2, <2>3 DEF Frames
<1>4. written' \in [Registers -> Seq(Nat)]  BY <1>2, <1>3
<1>5. frame' = frame + 1
  <2>1. Len(written'["exposure"]) = frame + 3  BY <1>3, RegisterFacts
  <2>2. frame' = Len(written'["exposure"]) - 2  BY DEF frame
  <2> QED  BY <1>1, <2>1, <2>2 DEF Frames
<1>6. frame' \in Frames /\ frame + 1 \in Frames  BY <1>1, <1>5 DEF Frames
<1>7. sof' \in [seq : Frames, left : SUBSET {"3A", "requests"}]  BY <1>2, <1>6
<1>8. missed' \subseteq Nat
  <2>1. \A x \in Registers : \A s \in DOMAIN waiting[x] : waiting[x][s] \in Nat
    BY DEF SensorType
  <2>2. missed \subseteq Nat  BY DEF SensorType
  <2> QED  BY <2>1, <2>2 DEF NextFrame
<1>9. \A x \in Registers : Len(written'[x]) = frame' + 2
  BY <1>1, <1>3, <1>5 DEF Frames
<1>10. SensorType'
  BY <1>2, <1>4, <1>6, <1>7, <1>8, <1>9 DEF SensorType
<1> QED  BY <1>2, <1>5, <1>10

\* handleSofEvent() takes the entries of its sequence out of the maps.
LEMMA SofHandled ==
    ASSUME SensorType, handleSofEvent
    PROVE  /\ SensorType' /\ frame' = frame
           /\ "3A" \in sof.left /\ sof' = [sof EXCEPT !.left = @ \ {"3A"}]
           /\ mLastSofSequence' = sof.seq
           /\ DOMAIN (mExposureDataMap') = DOMAIN mExposureDataMap \ {sof.seq}
<1> DEFINE seq == sof.seq
<1>1. /\ written \in [Registers -> Seq(Nat)] /\ frame \in Frames
      /\ \A x \in Registers : Len(written[x]) = frame + 2
      /\ sof \in [seq : Frames, left : SUBSET {"3A", "requests"}]
  BY DEF SensorType
<1>2. /\ "3A" \in sof.left /\ sof' = [sof EXCEPT !.left = @ \ {"3A"}]
      /\ mLastSofSequence' = seq /\ missed' = missed
  BY DEF handleSofEvent
<1>3. /\ written' = [x \in Registers |->
            IF seq \in DOMAIN waiting[x] THEN Write(x, waiting[x][seq]) ELSE written[x]]
      /\ waiting' = [x \in Registers |->
            [s \in {s \in DOMAIN waiting[x] : s # seq} |-> waiting[x][s]]]
  BY DEF handleSofEvent, handleSensorExposure, RestrictDomain, Restrict
<1> HIDE DEF seq
<1>4. \A x \in Registers : written'[x] \in Seq(Nat) /\ Len(written'[x]) = frame + 2
  <2> TAKE x \in Registers
  <2>1. written[x] \in Seq(Nat) /\ Len(written[x]) = frame + 2 /\ Len(written[x]) >= 1
    BY <1>1 DEF Frames
  <2>2. CASE seq \in DOMAIN waiting[x]
    <3>1. waiting[x][seq] \in Nat  BY <2>2 DEF SensorType
    <3>2. written'[x] = Write(x, waiting[x][seq])  BY <1>3, <2>2
    <3> QED  BY <2>1, <3>1, <3>2, WriteType DEF Write
  <2>3. CASE seq \notin DOMAIN waiting[x]
    <3>1. written'[x] = written[x]  BY <1>3, <2>3
    <3> QED  BY <2>1, <3>1
  <2> QED  BY <2>2, <2>3
<1>5. written' \in [Registers -> Seq(Nat)]  BY <1>3, <1>4
<1>6. frame' = frame
  BY <1>1, <1>4, RegisterFacts DEF frame, Frames
<1>7. \A x \in Registers :
         /\ DOMAIN waiting'[x] = DOMAIN waiting[x] \ {seq}
         /\ \A s \in DOMAIN waiting'[x] : waiting'[x][s] \in Nat
  <2> TAKE x \in Registers
  <2>1. \A s \in DOMAIN waiting[x] : waiting[x][s] \in Nat  BY DEF SensorType
  <2>2. waiting'[x] = [s \in {s \in DOMAIN waiting[x] : s # seq} |-> waiting[x][s]]
    BY <1>3
  <2> QED  BY <2>1, <2>2
<1>8. \A x \in Registers :
         DOMAIN waiting'[x] \subseteq Int /\ IsFiniteSet(DOMAIN waiting'[x])
  <2> TAKE x \in Registers
  <2>1. DOMAIN waiting[x] \subseteq Int /\ IsFiniteSet(DOMAIN waiting[x])
    BY DEF SensorType
  <2>2. DOMAIN waiting'[x] \subseteq DOMAIN waiting[x]  BY <1>7
  <2> QED  BY <2>1, <2>2, FS_Subset
<1>9. DOMAIN waiting' = Registers  BY <1>3
<1>10. mLastSofSequence' \in Frames /\ sof' \in [seq : Frames, left : SUBSET {"3A", "requests"}]
  BY <1>1, <1>2 DEF seq
<1>11. SensorType'
  BY <1>1, <1>2, <1>4, <1>5, <1>6, <1>7, <1>8, <1>9, <1>10 DEF SensorType
<1>12. DOMAIN (mExposureDataMap') = DOMAIN mExposureDataMap \ {sof.seq}
  BY <1>7, RegisterFacts DEF mExposureDataMap, seq
<1> QED  BY <1>2, <1>6, <1>11, <1>12 DEF seq

\* A stopped sensor keeps the values of its registers and nothing else.
LEMMA SensorReset ==
    ASSUME SensorType, ResetSensor
    PROVE  /\ SensorType' /\ frame' = -1
           /\ sof' = [seq |-> -1, left |-> {}] /\ mLastSofSequence' = -1
           /\ DOMAIN (mExposureDataMap') = {}
<1>1. /\ written \in [Registers -> Seq(Nat)] /\ frame \in Frames
      /\ \A x \in Registers : Len(written[x]) = frame + 2
  BY DEF SensorType
<1>2. /\ written' = [x \in Registers |-> <<Last(written[x])>>]
      /\ sof' = [seq |-> -1, left |-> {}]
      /\ mLastSofSequence' = -1 /\ missed' = {}
      /\ waiting' = [x \in Registers |-> <<>>]
  BY DEF ResetSensor
<1>3. \A x \in Registers : written'[x] \in Seq(Nat) /\ Len(written'[x]) = 1
  <2> TAKE x \in Registers
  <2>1. written[x] \in Seq(Nat) /\ Len(written[x]) >= 1  BY <1>1 DEF Frames
  <2>2. Last(written[x]) \in Nat  BY <2>1 DEF Last
  <2> QED  BY <1>2, <2>2
<1>4. written' \in [Registers -> Seq(Nat)]  BY <1>2, <1>3
<1>5. frame' = -1
  <2>1. Len(written'["exposure"]) = 1  BY <1>3, RegisterFacts
  <2>2. frame' = Len(written'["exposure"]) - 2  BY DEF frame
  <2> QED  BY <2>1, <2>2
<1>6. \A x \in Registers : DOMAIN waiting'[x] = {}  BY <1>2
<1>7. IsFiniteSet({})  BY FS_EmptySet
<1>8. sof' \in [seq : Frames, left : SUBSET {"3A", "requests"}] /\ -1 \in Frames
  BY <1>2 DEF Frames
<1>9. SensorType'
  BY <1>2, <1>3, <1>4, <1>5, <1>6, <1>7, <1>8 DEF SensorType
<1>10. DOMAIN (mExposureDataMap') = {}  BY <1>6, RegisterFacts DEF mExposureDataMap
<1> QED  BY <1>2, <1>5, <1>9, <1>10

\* The first prediction after the first SOF is not before InitialSkipFrame.
SkipWithinLag == InitialSkipFrame <= ExposureLag + 1

\* A prediction is not before one that was within reach, and it is within reach
\* itself when the exposure has been entered.
LEMMA PredictionReaches ==
    ASSUME SensorType, SkipWithinLag, NEW a \in Frames, NEW e \in Int
    PROVE  /\ effectSeq(a) \in Nat
           /\ Reach(e) => e <= effectSeq(a)
<1> DEFINE M == DOMAIN mExposureDataMap
           K == {sensorSeq(a)} \ {mLastSofSequence}
<1>1. /\ Size \in Nat /\ IsFiniteSet(M) /\ sensorSeq(a) \in Int
      /\ Predicted = 0 <=> mLastSofSequence < 0
      /\ mLastSofSequence >= 0 => Predicted = mLastSofSequence + ExposureLag
      /\ Size = Cardinality(M)
  BY SensorNumbers DEF Size
<1>2. mLastSofSequence \in Frames /\ InitialSkipFrame \in Nat /\ ExposureLag \in Nat
  BY SensorAssumption DEF SensorType
<1>3. IsFiniteSet(M \cup K)
  <2>1. IsFiniteSet(M \cup {sensorSeq(a)})  BY <1>1, FS_AddElement
  <2>2. M \cup K \subseteq M \cup {sensorSeq(a)}  OBVIOUS
  <2> QED  BY <2>1, <2>2, FS_Subset
<1>4. Cardinality(M \cup K) \in Nat /\ Cardinality(M) <= Cardinality(M \cup K)
  BY <1>1, <1>3, FS_Subset, FS_CardinalityType
<1>5. mLastSofSequence = 0 /\ Size = 0 => Cardinality(M \cup K) >= 1
  <2> SUFFICES ASSUME mLastSofSequence = 0, Size = 0
               PROVE  Cardinality(M \cup K) >= 1
    OBVIOUS
  <2>1. sensorSeq(a) = 1  BY <1>2 DEF sensorSeq, Frames
  <2>2. 1 \in M \cup K  BY <2>1
  <2>3. Cardinality(M \cup K) # 0  BY <1>3, <2>2, FS_EmptySet
  <2> QED  BY <1>4, <2>3
<1>6. CASE mLastSofSequence < 0
  <2>1. effectSeq(a) = InitialSkipFrame  BY <1>1, <1>6 DEF effectSeq
  <2> QED  BY <1>2, <1>6, <2>1 DEF Reach, Frames
<1>7. CASE mLastSofSequence >= 0
  <2>1. effectSeq(a) = mLastSofSequence + ExposureLag + Cardinality(M \cup K)
    BY <1>1, <1>2, <1>7 DEF effectSeq, Frames
  <2> HIDE DEF M, K
  <2>2. effectSeq(a) \in Nat  BY <1>2, <1>4, <1>7, <2>1 DEF Frames
  <2>3. ExposureLag + 1 <= effectSeq(a)
    BY <1>1, <1>2, <1>4, <1>5, <1>7, <2>1 DEF Frames
  <2> QED
    BY <1>1, <1>2, <1>4, <1>7, <2>1, <2>2, <2>3, SkipWithinLag
    DEF Reach, Frames, SkipWithinLag
<1> QED  BY <1>2, <1>6, <1>7 DEF Frames

\* The exposures that wait after an update: at most one more, and the prediction of
\* the update is within reach.
LEMMA UpdateReaches ==
    ASSUME SensorType, NEW n \in Nat, NEW a \in Frames, updateSensorExposure(n, a)
    PROVE  /\ Size' \in Nat /\ Size <= Size' /\ Size' <= Size + 1
           /\ \/ effectSeq(a) <= InitialSkipFrame
              \/ /\ mLastSofSequence' >= 0
                 /\ effectSeq(a) <= mLastSofSequence' + ExposureLag + Size'
<1> DEFINE M == DOMAIN mExposureDataMap
           K == {sensorSeq(a)} \ {mLastSofSequence}
<1>1. /\ Size \in Nat /\ IsFiniteSet(M) /\ sensorSeq(a) \in Int
      /\ Predicted = 0 <=> mLastSofSequence < 0
      /\ mLastSofSequence >= 0 => Predicted = mLastSofSequence + ExposureLag
      /\ Size = Cardinality(M)
  BY SensorNumbers DEF Size
<1>2. /\ mLastSofSequence \in Frames /\ InitialSkipFrame \in Nat /\ ExposureLag \in Nat
      /\ mLastSofSequence' = mLastSofSequence
  BY SensorAssumption, UpdateExposure DEF SensorType
<1>3. DOMAIN (mExposureDataMap') = IF mLastSofSequence < 0 THEN M ELSE M \cup K
  BY UpdateExposure
<1>4. Size' = Cardinality(IF mLastSofSequence < 0 THEN M ELSE M \cup K)
  BY <1>3 DEF Size
<1>5. CASE mLastSofSequence < 0
  <2>1. effectSeq(a) = InitialSkipFrame  BY <1>1, <1>5 DEF effectSeq
  <2>2. Size' = Size  BY <1>1, <1>4, <1>5
  <2> QED  BY <1>1, <1>2, <2>1, <2>2
<1>6. CASE mLastSofSequence >= 0
  <2>1. Size' = Cardinality(M \cup K)  BY <1>2, <1>4, <1>6 DEF Frames
  <2>2. effectSeq(a) = mLastSofSequence + ExposureLag + Cardinality(M \cup K)
    BY <1>1, <1>2, <1>6 DEF effectSeq, Frames
  <2>5. sensorSeq(a) = mLastSofSequence \/ sensorSeq(a) # mLastSofSequence  OBVIOUS
  <2>3. ASSUME sensorSeq(a) = mLastSofSequence
        PROVE  Cardinality(M \cup K) \in {Size, Size + 1}
    <3>1. M \cup K = M  BY <2>3
    <3> QED  BY <1>1, <3>1
  <2>4. ASSUME sensorSeq(a) # mLastSofSequence
        PROVE  Cardinality(M \cup K) \in {Size, Size + 1}
    <3>1. M \cup K = M \cup {sensorSeq(a)}  BY <2>4
    <3> HIDE DEF M
    <3>2. /\ IsFiniteSet(M \cup {sensorSeq(a)})
          /\ Cardinality(M \cup {sensorSeq(a)}) =
                IF sensorSeq(a) \in M THEN Cardinality(M) ELSE Cardinality(M) + 1
      BY <1>1, FS_AddElement
    <3> QED  BY <1>1, <3>1, <3>2
  <2> HIDE DEF M, K
  <2>6. Cardinality(M \cup K) \in {Size, Size + 1}  BY <2>3, <2>4, <2>5
  <2> QED  BY <1>1, <1>2, <1>6, <2>1, <2>2, <2>6 DEF Frames
<1> QED  BY <1>2, <1>5, <1>6 DEF Frames

\* An SOF event takes one exposure at most, and what was within reach stays it.
LEMMA SofReaches ==
    ASSUME SensorType, SofInv, handleSofEvent
    PROVE  /\ Size' \in Nat /\ Size' <= Size
           /\ \A e \in Int : Reach(e) => \/ e <= InitialSkipFrame
                                         \/ /\ mLastSofSequence' >= 0
                                            /\ e <= mLastSofSequence' + ExposureLag + Size'
<1> DEFINE M == DOMAIN mExposureDataMap
<1>1. Size \in Nat /\ IsFiniteSet(M) /\ Size = Cardinality(M)
  <2>1. -1 \in Frames  BY DEF Frames
  <2> QED  BY <2>1, SensorNumbers DEF Size
<1>2. /\ mLastSofSequence \in Frames /\ InitialSkipFrame \in Nat /\ ExposureLag \in Nat
      /\ sof.seq \in Frames /\ mLastSofSequence < sof.seq
  BY SensorAssumption, SofHandled DEF SensorType, SofInv
<1>3. DOMAIN (mExposureDataMap') = M \ {sof.seq} /\ mLastSofSequence' = sof.seq
  BY SofHandled
<1>4. Size' = Cardinality(M \ {sof.seq})  BY <1>3 DEF Size
<1>5. Size' \in Nat /\ Size' <= Size /\ Size <= Size' + 1
  <2> HIDE DEF M
  <2>1. /\ IsFiniteSet(M \ {sof.seq})
        /\ Cardinality(M \ {sof.seq}) =
              IF sof.seq \in M THEN Cardinality(M) - 1 ELSE Cardinality(M)
    BY <1>1, FS_RemoveElement
  <2>2. Cardinality(M \ {sof.seq}) \in Nat  BY <2>1, FS_CardinalityType
  <2> QED  BY <1>1, <1>4, <2>1, <2>2
<1> QED  BY <1>1, <1>2, <1>3, <1>5 DEF Reach, Frames

-----------------------------------------------------------------------------
(* The two rings.                                                          *)

\* The next index of a ring of two places or more is another one.
LEMMA RingNext ==
    ASSUME NEW n \in Nat, n >= 2, NEW i \in -1..(n - 1)
    PROVE  (i + 1) % n \in 0..(n - 1) /\ (i + 1) % n # i
<1>1. CASE i = n - 1
  <2>1. (i + 1) % n = 0  BY <1>1
  <2> QED  BY <1>1, <2>1
<1>2. CASE i # n - 1
  <2>1. i + 1 \in 0..(n - 1)  BY <1>2
  <2>2. (i + 1) % n = i + 1  BY <2>1
  <2> QED  BY <2>1, <2>2
<1> QED  BY <1>1, <1>2

\* The sizes of the rings.
LEMMA RingSizes ==
    /\ StorageSize \in Nat /\ StorageSize >= 2
    /\ kAiqStatsStorageSize \in Nat /\ kAiqStatsStorageSize >= 2
  BY StorageAssumption

\* The slots the storage goes on to.
LEMMA NextSlots ==
    ASSUME StorageType
    PROVE  /\ \A i \in Slots \cup {-1} : NextStats(i) \in Slots /\ NextStats(i) # i
           /\ NextIndex \in 0..(StorageSize - 1) /\ NextIndex # mCurrentIndex
           /\ (NextIndex + 1) % StorageSize \in 0..(StorageSize - 1)
           /\ (NextIndex + 1) % StorageSize # NextIndex
<1>1. \A i \in Slots \cup {-1} : i \in -1..(kAiqStatsStorageSize - 1)
  BY RingSizes DEF Slots
<1>2. \A i \in Slots \cup {-1} : NextStats(i) \in Slots /\ NextStats(i) # i
  BY <1>1, RingSizes, RingNext DEF NextStats, Slots
<1>3. mCurrentIndex \in -1..(StorageSize - 1)  BY DEF StorageType
<1>4. NextIndex \in 0..(StorageSize - 1) /\ NextIndex # mCurrentIndex
  BY <1>3, RingSizes, RingNext DEF NextIndex
<1>5. NextIndex \in -1..(StorageSize - 1)  BY <1>4, RingSizes
<1> QED  BY <1>2, <1>4, <1>5, RingSizes, RingNext

-----------------------------------------------------------------------------
(* Types.                                                                  *)

Types == SensorType /\ StorageType /\ ThreadType

\* A step that leaves the sensor alone leaves its types and the map alone.
LEMMA SensorSame ==
    ASSUME SensorType, UNCHANGED sensorVars
    PROVE  /\ SensorType' /\ frame' = frame /\ Size' = Size
           /\ sof' = sof /\ mLastSofSequence' = mLastSofSequence
           /\ mExposureDataMap' = mExposureDataMap
<1>1. /\ written' = written /\ sof' = sof /\ mLastSofSequence' = mLastSofSequence
      /\ waiting' = waiting /\ missed' = missed
  BY DEF sensorVars
<1>2. mExposureDataMap' = mExposureDataMap  BY <1>1 DEF mExposureDataMap
<1>3. frame' = frame  BY <1>1 DEF frame
<1> QED  BY <1>1, <1>2, <1>3 DEF SensorType, Size

\* The types of a changed result ...
LEMMA ResultsType ==
    ASSUME NEW f \in [0..(StorageSize - 1) -> Results], NEW i \in 0..(StorageSize - 1),
           NEW r \in Results
    PROVE  /\ [f EXCEPT ![i] = r] \in [0..(StorageSize - 1) -> Results]
           /\ [f EXCEPT ![i].mSequence = -1] \in [0..(StorageSize - 1) -> Results]
<1>1. [f[i] EXCEPT !.mSequence = -1] \in Results  BY DEF Results, Frames
<1> QED  BY <1>1

\* ... of the statistics.
LEMMA StatisticsType ==
    ASSUME NEW f \in [Slots -> Statistics], NEW i \in Slots, NEW n \in Frames,
           NEW b \in BOOLEAN
    PROVE  /\ [f EXCEPT ![i].mSequence = n] \in [Slots -> Statistics]
           /\ [f EXCEPT ![i].mTimestamp = n] \in [Slots -> Statistics]
           /\ [f EXCEPT ![i].mPendingDecode = b] \in [Slots -> Statistics]
           /\ [f EXCEPT ![i].mInUse = TRUE] \in [Slots -> Statistics]
<1>1. /\ [f[i] EXCEPT !.mSequence = n] \in Statistics
      /\ [f[i] EXCEPT !.mTimestamp = n] \in Statistics
      /\ [f[i] EXCEPT !.mPendingDecode = b] \in Statistics
      /\ [f[i] EXCEPT !.mInUse = TRUE] \in Statistics
  BY DEF Statistics
<1> QED  BY <1>1

\* acquireAiqStatistics() takes the next slot that is not in use.
LEMMA StatsSlotType ==
    ASSUME StorageType
    PROVE  StatsSlot \in Slots /\ NextStats(mCurrentAiqStatsIndex) \in Slots
<1>1. mCurrentAiqStatsIndex \in Slots \cup {-1}  BY DEF StorageType
<1>2. NextStats(mCurrentAiqStatsIndex) \in Slots  BY <1>1, NextSlots
<1>3. NextStats(NextStats(mCurrentAiqStatsIndex)) \in Slots  BY <1>2, NextSlots
<1> QED  BY <1>2, <1>3 DEF StatsSlot

\* The types hold initially.
LEMMA TypesInit == Init => Types
<1> SUFFICES ASSUME Init PROVE Types
  OBVIOUS
<1>1. -1 \in Frames /\ 0 \in Nat  BY DEF Frames
<1>2. SensorType
  <2>1. \A x \in Registers : written[x] = <<0>>  BY DEF Init
  <2>2. <<0>> \in Seq(Nat) /\ Len(<<0>>) = 1  OBVIOUS
  <2>3. written \in [Registers -> Seq(Nat)]  BY <2>2 DEF Init
  <2>4. frame = -1  BY <2>1, <2>2, RegisterFacts DEF frame
  <2>5. \A x \in Registers : DOMAIN waiting[x] = {}  BY DEF Init
  <2>6. DOMAIN waiting = Registers  BY DEF Init
  <2>7. sof = [seq |-> -1, left |-> {}] /\ mLastSofSequence = -1 /\ missed = {}
    BY DEF Init
  <2>8. IsFiniteSet({})  BY FS_EmptySet
  <2>9. sof \in [seq : Frames, left : SUBSET {"3A", "requests"}]  BY <1>1, <2>7
  <2>10. \A x \in Registers : Len(written[x]) = frame + 2  BY <2>1, <2>2, <2>4
  <2> QED
    BY <1>1, <2>3, <2>4, <2>5, <2>6, <2>7, <2>8, <2>9, <2>10 DEF SensorType
<1>3. StorageType
  <2>1. NewResult \in Results  BY <1>1 DEF NewResult, Results
  <2>2. mAiqResults \in [0..(StorageSize - 1) -> Results]  BY <2>1 DEF Init
  <2>3. [mSequence |-> -1, mTimestamp |-> -1, mPendingDecode |-> FALSE, mInUse |-> FALSE]
           \in Statistics
    BY <1>1 DEF Statistics
  <2>4. mAiqStatistics \in [Slots -> Statistics]  BY <2>3 DEF Init, Slots
  <2>5. mCurrentIndex \in -1..(StorageSize - 1)  BY RingSizes DEF Init
  <2> QED  BY <1>1, <2>2, <2>4, <2>5 DEF StorageType, Init
<1>4. ThreadType
  <2>1. run = NoRun /\ requests = NewRequests  BY DEF Init
  <2>2. NoRun \in [pc : Points, applyingSeq : Frames, stats : Slots \cup {-1}, seq : Frames,
                   data : Frames, effect : Frames, skip : Nat, aiqRun : BOOLEAN]
    BY <1>1 DEF NoRun, Points
  <2>3. decoder \in [pc : {"idle", "fill", "update", "decode"}, slot : Slots \cup {-1},
                     seq : Frames, last : Frames, pending : BOOLEAN]
    <3>1. PICK pending \in StatsRunningRate : decoder = NoDecoder(pending)  BY DEF Init
    <3>2. pending \in BOOLEAN  BY EngineAssumption
    <3> QED  BY <1>1, <3>1, <3>2 DEF NoDecoder
  <2>4. NewRequests \in [sof : Frames, applied : Frames, effect : Frames]
    BY <1>1 DEF NewRequests
  <2>5. mAiqRunningForPerframe \in BOOLEAN  BY EngineAssumption DEF Init
  <2> QED  BY <1>1, <2>1, <2>2, <2>3, <2>4, <2>5 DEF ThreadType, Init
<1> QED  BY <1>2, <1>3, <1>4 DEF Types

\* A prediction is the number of a frame.
LEMMA EffectType == ASSUME SensorType, NEW a \in Frames PROVE effectSeq(a) \in Nat
<1> DEFINE S == DOMAIN mExposureDataMap \cup ({sensorSeq(a)} \ {mLastSofSequence})
<1>1. /\ IsFiniteSet(DOMAIN mExposureDataMap) /\ Predicted \in Nat
  BY SensorNumbers
<1>2. IsFiniteSet(DOMAIN mExposureDataMap \cup {sensorSeq(a)})
  BY <1>1, FS_AddElement
<1>3. S \subseteq DOMAIN mExposureDataMap \cup {sensorSeq(a)}  OBVIOUS
<1>4. IsFiniteSet(S)  BY <1>2, <1>3, FS_Subset
<1>5. Cardinality(S) \in Nat  BY <1>4, FS_CardinalityType
<1>6. effectSeq(a) = IF Predicted = 0 THEN InitialSkipFrame
                     ELSE Predicted + Cardinality(S)
  BY DEF effectSeq
<1> HIDE DEF S
<1> QED  BY <1>1, <1>5, <1>6, SensorAssumption

\* The newest result is in the storage.
LEMMA LatestType == ASSUME StorageType PROVE LatestResult.mSequence \in Frames
<1>1. (IF mCurrentIndex = -1 THEN 0 ELSE mCurrentIndex) \in 0..(StorageSize - 1)
  BY RingSizes DEF StorageType
<1>2. LatestResult \in Results  BY <1>1 DEF StorageType, LatestResult
<1> QED  BY <1>2 DEF Results

Runs == [pc : Points, applyingSeq : Frames, stats : Slots \cup {-1}, seq : Frames,
         data : Frames, effect : Frames, skip : Nat, aiqRun : BOOLEAN]
Counts == [frames : Nat, runs : Nat, lost : Nat, switches : Nat, sessions : Nat]
RequestMarks == [sof : Frames, applied : Frames, effect : Frames]
Decoders == [pc : {"idle", "fill", "update", "decode"}, slot : Slots \cup {-1},
             seq : Frames, last : Frames, pending : BOOLEAN]

\* The SOFs a request may be for.
LEMMA ApplyingType == ASSUME ThreadType PROVE ApplyingSeqs \subseteq Frames
  BY DEF ThreadType, ApplyingSeqs, Frames

\* Every step keeps the types.
LEMMA TypesStep == ASSUME Types, [Next]_vars PROVE Types'
<1>0. SensorType /\ StorageType /\ ThreadType  BY DEF Types
<1>t. /\ run \in Runs /\ used \in Counts /\ requests \in RequestMarks
      /\ decoder \in Decoders /\ mAiqRunningForPerframe \in BOOLEAN
      /\ mFirstAiqRunning \in BOOLEAN /\ statsSequnce \in Frames
  BY <1>0 DEF ThreadType, Runs, Counts, RequestMarks, Decoders
<1>s. /\ mAiqResults \in [0..(StorageSize - 1) -> Results]
      /\ mCurrentIndex \in -1..(StorageSize - 1)
      /\ mAiqStatistics \in [Slots -> Statistics]
      /\ mCurrentAiqStatsIndex \in Slots \cup {-1} /\ decodedStats \in Frames
  BY <1>0 DEF StorageType
<1>m. -1 \in Frames /\ NumSkip \in Nat /\ MaxRuns \in Nat
  BY EngineAssumption DEF Frames
<1>n. /\ NextIndex \in 0..(StorageSize - 1)
      /\ (NextIndex + 1) % StorageSize \in 0..(StorageSize - 1)
      /\ \A i \in 0..(StorageSize - 1) : i \in -1..(StorageSize - 1)
  BY <1>0, NextSlots, RingSizes
<1>r. \A skip \in BOOLEAN : Result(skip) \in Results
  BY <1>t DEF Result, Results, Runs, Counts
\* the frames of the sensor
<1>1. CASE SensorFrame
  <2>1. PICK lost \in BOOLEAN :
           /\ NextFrame(lost)
           /\ used' = [used EXCEPT !.frames = @ + 1, !.lost = IF lost THEN @ + 1 ELSE @]
    BY <1>1 DEF SensorFrame
  <2>2. SensorType'  BY <1>0, <2>1, FrameBegins
  <2>3. used' \in Counts
    <3>1. used \in Counts /\ used.frames + 1 \in Nat /\ used.lost + 1 \in Nat
      BY <1>t DEF Counts
    <3> QED  BY <2>1, <3>1 DEF Counts
  <2>4. UNCHANGED <<resultVars, statsVars, engineVars, run, decoder, requests>>
    BY <1>1 DEF SensorFrame
  <2> QED
    BY <1>s, <1>t, <2>2, <2>3, <2>4 DEF Types, StorageType, ThreadType, resultVars,
       statsVars, engineVars, Runs, Counts, RequestMarks, Decoders
<1>2. CASE handleEvent
  <2>1. SensorType'  BY <1>0, <1>2, SofHandled DEF handleEvent
  <2>2. UNCHANGED <<resultVars, statsVars, engineVars, run, decoder, requests, used>>
    BY <1>2 DEF handleEvent
  <2> QED
    BY <1>s, <1>t, <2>1, <2>2 DEF Types, StorageType, ThreadType, resultVars, statsVars,
       engineVars, Runs, Counts, RequestMarks, Decoders
<1>3. CASE RequestsSof
  <2>1. /\ requests' = [requests EXCEPT !.sof = sof.seq]
        /\ sof' = [sof EXCEPT !.left = @ \ {"requests"}]
        /\ UNCHANGED <<written, mLastSofSequence, waiting, missed, resultVars, statsVars,
                       engineVars, run, decoder, used>>
    BY <1>3 DEF RequestsSof
  <2>2. sof \in [seq : Frames, left : SUBSET {"3A", "requests"}]
    BY <1>0 DEF SensorType
  <2>3. requests' \in RequestMarks  BY <1>t, <2>1, <2>2 DEF RequestMarks
  <2>4. sof' \in [seq : Frames, left : SUBSET {"3A", "requests"}]  BY <2>1, <2>2
  <2>5. frame' = frame  BY <2>1 DEF frame
  <2>6. SensorType'  BY <1>0, <2>1, <2>4, <2>5 DEF SensorType
  <2> QED
    BY <1>s, <1>t, <2>1, <2>3, <2>6 DEF Types, StorageType, ThreadType, resultVars,
       statsVars, engineVars, Runs, Counts, RequestMarks, Decoders
\* the statistics
<1>4. CASE AcquireStats
  <2>1. /\ decoder' = [decoder EXCEPT !.pc = "fill", !.slot = StatsSlot,
                             !.seq = decoder.last + 1, !.last = decoder.last + 1]
        /\ mCurrentAiqStatsIndex' = IF StatsSlot = NextStats(mCurrentAiqStatsIndex)
                                    THEN mCurrentAiqStatsIndex
                                    ELSE NextStats(mCurrentAiqStatsIndex)
        /\ mAiqStatistics' = [mAiqStatistics EXCEPT ![StatsSlot].mSequence = -1]
        /\ UNCHANGED <<sensorVars, resultVars, decodedStats, engineVars, run, requests, used>>
    BY <1>4 DEF AcquireStats, acquireAiqStatistics
  <2>2. StatsSlot \in Slots /\ NextStats(mCurrentAiqStatsIndex) \in Slots
    BY <1>0, StatsSlotType
  <2>3. mAiqStatistics' \in [Slots -> Statistics]
    BY <1>m, <1>s, <2>1, <2>2, StatisticsType
  <2>4. decoder' \in Decoders
    <3> DEFINE t1 == [decoder EXCEPT !.pc = "fill"]
               t2 == [t1 EXCEPT !.slot = StatsSlot]
               t3 == [t2 EXCEPT !.seq = decoder.last + 1]
               t4 == [t3 EXCEPT !.last = decoder.last + 1]
    <3>1. decoder.last + 1 \in Frames  BY <1>t DEF Decoders, Frames
    <3>2. t1 \in Decoders  BY <1>t DEF Decoders
    <3> HIDE DEF t1
    <3>3. t2 \in Decoders  BY <2>2, <3>2, SMTT(30) DEF Decoders
    <3> HIDE DEF t2
    <3>4. t3 \in Decoders  BY <3>1, <3>3, SMTT(30) DEF Decoders
    <3> HIDE DEF t3
    <3>5. t4 \in Decoders  BY <3>1, <3>4, SMTT(30) DEF Decoders
    <3>6. decoder' = t4  BY <1>t, <2>1 DEF t1, t2, t3, Decoders
    <3> QED  BY <3>5, <3>6
  <2>5. SensorType'  BY <1>0, <2>1, SensorSame
  <2> QED
    BY <1>s, <1>t, <2>1, <2>2, <2>3, <2>4, <2>5 DEF Types, StorageType, ThreadType,
       resultVars, engineVars, Runs, Counts, RequestMarks, Decoders
<1>5. CASE FillStats
  <2> DEFINE one == [mAiqStatistics EXCEPT ![decoder.slot].mSequence = decoder.seq]
             two == [one EXCEPT ![decoder.slot].mTimestamp = decoder.seq]
  <2>1. /\ decoder' = [decoder EXCEPT !.pc = "update"]
        /\ mAiqStatistics' = [two EXCEPT ![decoder.slot].mPendingDecode = decoder.pending]
        /\ UNCHANGED <<sensorVars, resultVars, mCurrentAiqStatsIndex, decodedStats,
                       engineVars, run, requests, used>>
    BY <1>5 DEF FillStats
  <2>2. decoder.seq \in Frames /\ decoder.pending \in BOOLEAN /\ decoder' \in Decoders
    BY <1>t, <2>1 DEF Decoders
  <2>3. mAiqStatistics' \in [Slots -> Statistics]
    <3>1. CASE decoder.slot \in Slots
      <4>1. one \in [Slots -> Statistics]  BY <1>s, <2>2, <3>1, StatisticsType
      <4> HIDE DEF one
      <4>2. two \in [Slots -> Statistics]  BY <2>2, <3>1, <4>1, StatisticsType
      <4> HIDE DEF two
      <4> QED  BY <2>1, <2>2, <3>1, <4>2, StatisticsType
    <3>2. CASE decoder.slot \notin Slots
      <4>1. mAiqStatistics' = mAiqStatistics  BY <1>s, <2>1, <3>2
      <4> QED  BY <1>s, <4>1
    <3> QED  BY <3>1, <3>2
  <2>4. SensorType'  BY <1>0, <2>1, SensorSame
  <2> QED
    BY <1>s, <1>t, <2>1, <2>2, <2>3, <2>4 DEF Types, StorageType, ThreadType,
       resultVars, engineVars, Runs, Counts, RequestMarks, Decoders
<1>15. CASE UpdateStats
  <2> DEFINE next == NextStats(mCurrentAiqStatsIndex)
  <2>1. /\ decoder' = [decoder EXCEPT !.pc = IF decoder.pending THEN "idle" ELSE "decode",
                                      !.slot = -1]
        /\ mCurrentAiqStatsIndex' = next
        /\ mAiqStatistics' = [mAiqStatistics EXCEPT ![next].mSequence = decoder.seq]
        /\ UNCHANGED <<sensorVars, resultVars, decodedStats, engineVars, run, requests, used>>
    BY <1>15 DEF UpdateStats, updateAiqStatistics
  <2>2. next \in Slots  BY <1>0, StatsSlotType
  <2>3. decoder.seq \in Frames  BY <1>t DEF Decoders
  <2> HIDE DEF next
  <2>5. mAiqStatistics' \in [Slots -> Statistics]
    BY <1>s, <2>1, <2>2, <2>3, StatisticsType
  <2>6. decoder' \in Decoders  BY <1>t, <2>1 DEF Decoders
  <2>7. SensorType'  BY <1>0, <2>1, SensorSame
  <2> QED
    BY <1>s, <1>t, <2>1, <2>2, <2>5, <2>6, <2>7 DEF Types, StorageType, ThreadType,
       resultVars, engineVars, Runs, Counts, RequestMarks, Decoders
<1>16. CASE DecodeStats
  <2>1. /\ decoder' = [decoder EXCEPT !.pc = "idle"] /\ decodedStats' = decoder.seq
        /\ UNCHANGED <<sensorVars, resultVars, mAiqStatistics, mCurrentAiqStatsIndex,
                       engineVars, run, requests, used>>
    BY <1>16 DEF DecodeStats
  <2>2. decoder' \in Decoders /\ decodedStats' \in Frames  BY <1>t, <2>1 DEF Decoders
  <2>3. SensorType'  BY <1>0, <2>1, SensorSame
  <2> QED
    BY <1>s, <1>t, <2>1, <2>2, <2>3 DEF Types, StorageType, ThreadType, resultVars,
       engineVars, Runs, Counts, RequestMarks, Decoders
\* the request thread
<1>6. CASE GiveUp
  <2>1. PICK seq \in ApplyingSeqs : requests' = [requests EXCEPT !.applied = seq]
    BY <1>6 DEF GiveUp
  <2>2. requests' \in RequestMarks
    BY <1>0, <1>t, <2>1, ApplyingType DEF RequestMarks
  <2>3. UNCHANGED <<sensorVars, resultVars, statsVars, engineVars, run, decoder, used>>
    BY <1>6 DEF GiveUp
  <2>4. SensorType'  BY <1>0, <2>3, SensorSame
  <2> QED
    BY <1>s, <1>t, <2>2, <2>3, <2>4 DEF Types, StorageType, ThreadType, resultVars,
       statsVars, engineVars, Runs, Counts, RequestMarks, Decoders
<1>7. CASE run3A
  <2> DEFINE stats == IF mFirstAiqRunning THEN -1 ELSE LockableStats
  <2>1. PICK seq \in IF mAiqRunningForPerframe THEN ApplyingSeqs ELSE {-1} :
           /\ requests' = [requests EXCEPT !.applied = seq]
           /\ run' = [NoRun EXCEPT !.pc = IF needRun3A(stats) THEN "expose" ELSE "unlock",
                                   !.applyingSeq = seq, !.stats = stats,
                                   !.seq = IF stats = -1 THEN -1
                                           ELSE mAiqStatistics[stats].mSequence]
    BY <1>7 DEF run3A
  <2>2. seq \in Frames  BY <1>0, <1>m, <2>1, ApplyingType
  <2>3. stats \in Slots \cup {-1}  BY <1>s DEF LockableStats
  <2>4. LockStats(stats) /\ acquireAiqResult  BY <1>7 DEF run3A
  <2>5. UNCHANGED <<sensorVars, mCurrentIndex, mCurrentAiqStatsIndex, decodedStats,
                    engineVars, decoder, used>>
    BY <1>7 DEF run3A
  <2> HIDE DEF stats
  <2>11. (IF stats = -1 THEN -1 ELSE mAiqStatistics[stats].mSequence) \in Frames
    BY <1>m, <1>s, <2>3 DEF Statistics
  <2>6. run' \in Runs  BY <1>m, <2>1, <2>2, <2>3, <2>11 DEF Runs, NoRun, Points
  <2>7. requests' \in RequestMarks  BY <1>t, <2>1, <2>2 DEF RequestMarks
  <2>8. mAiqStatistics' \in [Slots -> Statistics]
    BY <1>m, <1>s, <2>3, <2>4, StatisticsType DEF LockStats
  <2>9. mAiqResults' \in [0..(StorageSize - 1) -> Results]
    BY <1>n, <1>r, <1>s, <2>4, ResultsType DEF acquireAiqResult
  <2>10. SensorType'  BY <1>0, <2>5, SensorSame
  <2> QED
    BY <1>s, <1>t, <2>5, <2>6, <2>7, <2>8, <2>9, <2>10 DEF Types, StorageType,
       ThreadType, engineVars, Runs, Counts, RequestMarks, Decoders
<1>8. CASE runAiq
  <2>1. PICK fails \in {AiqMayFail, FALSE}, switch \in BOOLEAN :
           /\ used' = [used EXCEPT !.runs = @ + 1,
                                   !.switches = IF switch THEN @ + 1 ELSE @]
           /\ run' = [run EXCEPT !.pc = IF fails THEN "unlock" ELSE "done",
                                 !.effect = effectSeq(run.applyingSeq),
                                 !.aiqRun = ~ fails, !.data = decodedStats',
                                 !.skip = IF switch THEN NumSkip ELSE 0]
    BY <1>8 DEF runAiq
  <2>2. run.applyingSeq \in Frames /\ used.runs + 1 \in Nat
    BY <1>t DEF Runs, Counts
  <2>3. updateSensorExposure(used.runs + 1, run.applyingSeq)  BY <1>8 DEF runAiq
  <2>4. effectSeq(run.applyingSeq) \in Nat  BY <1>0, <2>2, EffectType
  <2>9. /\ decodedStats' \in Frames /\ mAiqStatistics' \in [Slots -> Statistics]
        /\ mCurrentAiqStatsIndex' = mCurrentAiqStatsIndex
    <3>1. setStatsParams  BY <1>8 DEF runAiq
    <3>2. run.stats \in Slots \cup {-1}  BY <1>t DEF Runs
    <3>3. CASE run.stats # -1 /\ mAiqStatistics[run.stats].mPendingDecode
      <4>1. /\ decodedStats' = mAiqStatistics[run.stats].mSequence
            /\ mCurrentAiqStatsIndex' = mCurrentAiqStatsIndex
        BY <3>1, <3>3 DEF setStatsParams
      <4>2. PICK bypassed \in BOOLEAN : mAiqStatistics' =
               [mAiqStatistics EXCEPT ![run.stats].mPendingDecode = bypassed]
        BY <3>1, <3>3 DEF setStatsParams
      <4>3. mAiqStatistics' \in [Slots -> Statistics]
        BY <1>m, <1>s, <3>2, <3>3, <4>2, StatisticsType
      <4>4. mAiqStatistics[run.stats].mSequence \in Frames
        BY <1>s, <3>2, <3>3 DEF Statistics
      <4> QED  BY <4>1, <4>3, <4>4
    <3>4. CASE ~ (run.stats # -1 /\ mAiqStatistics[run.stats].mPendingDecode)
      <4>1. UNCHANGED statsVars  BY <3>1, <3>4 DEF setStatsParams
      <4> QED  BY <1>s, <4>1 DEF statsVars
    <3> QED  BY <3>3, <3>4
  <2>5. run' \in Runs  BY <1>m, <1>t, <2>1, <2>4, <2>9 DEF Runs, Points, Frames
  <2>6. used' \in Counts
    <3>1. used \in Counts /\ used.runs + 1 \in Nat /\ used.switches + 1 \in Nat
      BY <1>t DEF Counts
    <3> QED  BY <2>1, <3>1 DEF Counts
  <2>7. SensorType'  BY <1>0, <2>2, <2>3, UpdateExposure
  <2>8. UNCHANGED <<resultVars, engineVars, decoder, requests>>
    BY <1>8 DEF runAiq
  <2> QED
    BY <1>s, <1>t, <2>5, <2>6, <2>7, <2>8, <2>9 DEF Types, StorageType, ThreadType,
       resultVars, engineVars, Runs, Counts, RequestMarks, Decoders
<1>9. CASE SkipResult
  <2> DEFINE stored == [mAiqResults EXCEPT ![NextIndex] = Result(TRUE)]
  <2>1. /\ run.skip > 0
        /\ mAiqResults' = [stored EXCEPT ![(NextIndex + 1) % StorageSize].mSequence = -1]
        /\ mCurrentIndex' = NextIndex
        /\ updateSensorExposure(used.runs, -1)
        /\ run' = [run EXCEPT !.skip = @ - 1, !.effect = effectSeq(-1)]
        /\ UNCHANGED <<statsVars, engineVars, decoder, requests, used>>
    BY <1>9 DEF SkipResult
  <2>2. stored \in [0..(StorageSize - 1) -> Results]
    BY <1>n, <1>r, <1>s, ResultsType
  <2> HIDE DEF stored
  <2>3. mAiqResults' \in [0..(StorageSize - 1) -> Results]
    BY <1>n, <1>r, <2>1, <2>2, ResultsType
  <2>4. effectSeq(-1) \in Nat /\ used.runs \in Nat
    BY <1>0, <1>m, <1>t, EffectType DEF Counts
  <2>5. run' \in Runs
    <3>1. run \in Runs /\ run.skip - 1 \in Nat  BY <1>t, <2>1 DEF Runs
    <3> QED  BY <2>1, <2>4, <3>1 DEF Runs, Frames
  <2>6. SensorType'  BY <1>0, <1>m, <2>1, <2>4, UpdateExposure
  <2> QED
    BY <1>n, <1>s, <1>t, <2>1, <2>3, <2>5, <2>6 DEF Types, StorageType, ThreadType,
       statsVars, engineVars, Runs, Counts, RequestMarks, Decoders
<1>10. CASE done
  <2>1. /\ mAiqResults' = [mAiqResults EXCEPT ![NextIndex] = Result(FALSE)]
        /\ mCurrentIndex' = NextIndex /\ mFirstAiqRunning' = FALSE
        /\ run' = [run EXCEPT !.pc = "unlock"]
        /\ UNCHANGED <<sensorVars, statsVars, mAiqRunningForPerframe, statsSequnce,
                       decoder, requests, used>>
    BY <1>10 DEF done, updateAiqResult
  <2>2. mAiqResults' \in [0..(StorageSize - 1) -> Results]
    BY <1>n, <1>r, <1>s, <2>1, ResultsType
  <2>3. run' \in Runs  BY <1>t, <2>1 DEF Runs, Points
  <2>4. SensorType'  BY <1>0, <2>1, SensorSame
  <2> QED
    BY <1>n, <1>s, <1>t, <2>1, <2>2, <2>3, <2>4 DEF Types, StorageType, ThreadType,
       statsVars, Runs, Counts, RequestMarks, Decoders
<1>11. CASE UnlockStats
  <2>1. /\ mAiqStatistics' = [i \in DOMAIN mAiqStatistics |->
                                [mAiqStatistics[i] EXCEPT !.mInUse = FALSE]]
        /\ run' = [run EXCEPT !.pc = "return"]
        /\ UNCHANGED <<sensorVars, resultVars, mCurrentAiqStatsIndex, decodedStats,
                       engineVars, decoder, requests, used>>
    BY <1>11 DEF UnlockStats, unLockAiqStatistics
  <2>2. mAiqStatistics' \in [Slots -> Statistics]
    <3>1. \A i \in Slots : [mAiqStatistics[i] EXCEPT !.mInUse = FALSE] \in Statistics
      BY <1>s DEF Statistics
    <3> QED  BY <1>s, <2>1, <3>1
  <2>3. run' \in Runs  BY <1>t, <2>1 DEF Runs, Points
  <2>4. SensorType'  BY <1>0, <2>1, SensorSame
  <2> QED
    BY <1>s, <1>t, <2>1, <2>2, <2>3, <2>4 DEF Types, StorageType, ThreadType,
       resultVars, engineVars, Runs, Counts, RequestMarks, Decoders
<1>12. CASE Return
  <2>1. /\ statsSequnce' = IF ~ run.aiqRun THEN statsSequnce
                           ELSE IF run.stats = -1 THEN -1
                           ELSE mAiqStatistics[run.stats].mSequence
        /\ requests' = [requests EXCEPT !.effect = LatestResult.mSequence]
        /\ run' = NoRun
        /\ UNCHANGED <<sensorVars, resultVars, statsVars, mAiqRunningForPerframe,
                       mFirstAiqRunning, decoder, used>>
    BY <1>12 DEF Return
  <2>2. statsSequnce' \in Frames
    BY <1>m, <1>s, <1>t, <2>1 DEF Runs, Statistics
  <2>3. LatestResult.mSequence \in Frames
    BY <1>0, LatestType
  <2>4. requests' \in RequestMarks  BY <1>t, <2>1, <2>3 DEF RequestMarks
  <2>5. run' \in Runs  BY <1>m, <2>1 DEF Runs, NoRun, Points
  <2>6. SensorType'  BY <1>0, <2>1, SensorSame
  <2> QED
    BY <1>s, <1>t, <2>1, <2>2, <2>4, <2>5, <2>6 DEF Types, StorageType, ThreadType,
       resultVars, statsVars, Runs, Counts, RequestMarks, Decoders
\* a restart
<1>13. CASE startEngine
  <2>1. /\ used' = [used EXCEPT !.sessions = @ + 1, !.frames = @ + 1]
        /\ mFirstAiqRunning' = TRUE /\ mCurrentAiqStatsIndex' = -1 /\ decodedStats' = -1
        /\ ResetSensor
        /\ decoder' = NoDecoder(decoder.pending) /\ requests' = NewRequests
        /\ UNCHANGED <<resultVars, mAiqStatistics, mAiqRunningForPerframe, statsSequnce,
                       run>>
    BY <1>13 DEF startEngine
  <2>2. used' \in Counts
    <3>1. used \in Counts /\ used.sessions + 1 \in Nat /\ used.frames + 1 \in Nat
      BY <1>t DEF Counts
    <3> QED  BY <2>1, <3>1 DEF Counts
  <2>3. decoder' \in Decoders  BY <1>m, <1>t, <2>1 DEF Decoders, NoDecoder
  <2>4. requests' \in RequestMarks  BY <1>m, <2>1 DEF RequestMarks, NewRequests
  <2>5. SensorType'  BY <1>0, <2>1, SensorReset
  <2> QED
    BY <1>m, <1>s, <1>t, <2>1, <2>2, <2>3, <2>4, <2>5 DEF Types, StorageType, ThreadType,
       resultVars, Runs, Counts, RequestMarks, Decoders
<1>14. CASE UNCHANGED vars
  <2>1. SensorType'  BY <1>0, <1>14, SensorSame DEF vars
  <2> QED
    BY <1>s, <1>t, <1>14, <2>1 DEF Types, StorageType, ThreadType, vars, resultVars,
       statsVars, engineVars, Runs, Counts, RequestMarks, Decoders
<1> QED
  BY <1>1, <1>2, <1>3, <1>4, <1>5, <1>6, <1>7, <1>8, <1>9, <1>10, <1>11, <1>12, <1>13,
     <1>14, <1>15, <1>16 DEF Next, decodeStatsData

-----------------------------------------------------------------------------
(* The statistics.                                                         *)

StatsInv == LockInv /\ FillInv /\ WholeInv /\ BehindInv /\ PendingInv /\ DataInv

\* A step of a thread that neither locks nor unlocks, fills nor returns a slot.
LEMMA StatsSame ==
    ASSUME StatsInv, UNCHANGED <<statsVars, decoder>>,
           run'.stats = run.stats, run'.seq = run.seq, run'.data = run.data,
           run'.aiqRun = run.aiqRun,
           Running' <=> Running, run'.pc = "idle" => run.pc = "idle"
    PROVE  StatsInv'
<1>1. /\ mAiqStatistics' = mAiqStatistics /\ decodedStats' = decodedStats
      /\ mCurrentAiqStatsIndex' = mCurrentAiqStatsIndex
  BY DEF statsVars
<1>2. LockInv'  BY <1>1 DEF StatsInv, LockInv
<1>3. FillInv'  BY <1>1 DEF StatsInv, FillInv
<1>4. WholeInv'  BY <1>1 DEF StatsInv, WholeInv, Readable
<1>5. BehindInv'  BY <1>1 DEF StatsInv, BehindInv, Readable, LastPublished
<1>6. PendingInv'  BY <1>1 DEF StatsInv, PendingInv, Readable
<1>7. DataInv'  BY <1>1 DEF StatsInv, DataInv
<1> QED  BY <1>2, <1>3, <1>4, <1>5, <1>6, <1>7 DEF StatsInv

\* The slot to fill is the one after the current one, which moves over a slot that is
\* in use, and it is never in use itself.
LEMMA SlotIsFree ==
    ASSUME Types, LockInv, AcquireStats
    PROVE  /\ StatsSlot \in Slots /\ ~ mAiqStatistics[StatsSlot].mInUse
           /\ StatsSlot = NextStats(mCurrentAiqStatsIndex')
           /\ mCurrentAiqStatsIndex' # StatsSlot
           /\ \/ mCurrentAiqStatsIndex' = mCurrentAiqStatsIndex
              \/ mAiqStatistics[mCurrentAiqStatsIndex'].mInUse
<1>1. StatsSlot \in Slots /\ NextStats(mCurrentAiqStatsIndex) \in Slots
  BY StatsSlotType DEF Types
<1> DEFINE next == NextStats(mCurrentAiqStatsIndex)
<1>2. NextStats(next) \in Slots /\ NextStats(next) # next
  BY <1>1, NextSlots DEF Types
<1>3. mCurrentAiqStatsIndex' = IF StatsSlot = next THEN mCurrentAiqStatsIndex ELSE next
  BY DEF AcquireStats, acquireAiqStatistics
<1>4. StatsSlot = IF mAiqStatistics[next].mInUse THEN NextStats(next) ELSE next
  BY DEF StatsSlot
<1>5. mCurrentAiqStatsIndex \in Slots \cup {-1}  BY DEF Types, StorageType
<1>6. ~ mAiqStatistics[StatsSlot].mInUse
  <2>1. CASE mAiqStatistics[next].mInUse
    <3>1. run.stats = next  BY <1>1, <2>1 DEF LockInv
    <3>2. StatsSlot # next  BY <1>2, <1>4, <2>1
    <3> QED  BY <1>1, <3>1, <3>2 DEF LockInv
  <2>2. CASE ~ mAiqStatistics[next].mInUse
    <3>1. StatsSlot = next  BY <1>4, <2>2
    <3> QED  BY <2>2, <3>1
  <2> QED  BY <2>1, <2>2
<1>7. next # mCurrentAiqStatsIndex
  <2>1. CASE mCurrentAiqStatsIndex = -1
    BY <1>1, <2>1 DEF Slots
  <2>2. CASE mCurrentAiqStatsIndex \in Slots
    BY <2>2, NextSlots DEF Types
  <2> QED  BY <1>5, <2>1, <2>2
<1> HIDE DEF next
<1>8. StatsSlot = NextStats(mCurrentAiqStatsIndex')
  BY <1>2, <1>3, <1>4 DEF next
<1> QED  BY <1>1, <1>2, <1>3, <1>4, <1>6, <1>7, <1>8

\* The slot that is filled is none that a run may read.
LEMMA FilledIsHidden ==
    ASSUME Types, LockInv, FillInv, decoder.slot # -1
    PROVE  decoder.slot \in Slots /\ ~ Readable(decoder.slot)
<1>1. decoder.slot \in Slots  BY DEF Types, ThreadType
<1>2. mCurrentAiqStatsIndex \in Slots \cup {-1}  BY DEF Types, StorageType
<1>3. NextStats(mCurrentAiqStatsIndex) # mCurrentAiqStatsIndex
  <2>1. CASE mCurrentAiqStatsIndex = -1
    <3>1. NextStats(mCurrentAiqStatsIndex) \in Slots  BY StatsSlotType DEF Types
    <3> QED  BY <2>1, <3>1 DEF Slots
  <2>2. CASE mCurrentAiqStatsIndex \in Slots
    BY <2>2, NextSlots DEF Types
  <2> QED  BY <1>2, <2>1, <2>2
<1> QED  BY <1>1, <1>3 DEF FillInv, Readable

\* The invariant of the statistics holds initially.
LEMMA StatsInit == Init => StatsInv
<1> SUFFICES ASSUME Init PROVE StatsInv
  OBVIOUS
<1>1. \A i \in Slots : ~ mAiqStatistics[i].mInUse
  BY DEF Init, Slots
<1>2. run = NoRun /\ mCurrentAiqStatsIndex = -1 /\ decodedStats = -1  BY DEF Init
<1>3. PICK pending \in StatsRunningRate : decoder = NoDecoder(pending)  BY DEF Init
<1>4. decoder.pc = "idle" /\ decoder.slot = -1 /\ decoder.last = -1
  BY <1>3 DEF NoDecoder
<1>5. \A i \in Slots : ~ Readable(i)  BY <1>1, <1>2 DEF Readable, Slots
<1>6. run.pc = "idle" /\ run.stats = -1  BY <1>2 DEF NoRun
<1>7. LockInv /\ DataInv  BY <1>1, <1>6 DEF LockInv, Running, DataInv
<1>8. FillInv  BY <1>4 DEF FillInv
<1>9. WholeInv /\ PendingInv  BY <1>5 DEF WholeInv, PendingInv
<1>10. BehindInv  BY <1>2, <1>4, <1>5 DEF BehindInv, LastPublished
<1> QED  BY <1>7, <1>8, <1>9, <1>10 DEF StatsInv

\* The executor keeps it: it takes a slot, ...
LEMMA StatsAcquired == ASSUME Types, StatsInv, AcquireStats PROVE StatsInv'
<1>t. decoder \in Decoders  BY DEF Types, ThreadType, Decoders
<1>s. mAiqStatistics \in [Slots -> Statistics] /\ decodedStats \in Frames
  BY DEF Types, StorageType
<1>i. LockInv /\ FillInv /\ WholeInv /\ BehindInv /\ PendingInv /\ DataInv  BY DEF StatsInv
<1>1. /\ decoder.pc = "idle"
      /\ decoder' = [decoder EXCEPT !.pc = "fill", !.slot = StatsSlot,
                        !.seq = decoder.last + 1, !.last = decoder.last + 1]
      /\ mAiqStatistics' = [mAiqStatistics EXCEPT ![StatsSlot].mSequence = -1]
      /\ run' = run /\ decodedStats' = decodedStats
  BY DEF AcquireStats, acquireAiqStatistics
<1>2. /\ decoder'.pc = "fill" /\ decoder'.slot = StatsSlot
      /\ decoder'.seq = decoder.last + 1 /\ decoder'.last = decoder.last + 1
      /\ decoder'.pending = decoder.pending /\ decoder.last \in Frames
  BY <1>1, <1>t DEF Decoders
<1>3. /\ StatsSlot \in Slots /\ ~ mAiqStatistics[StatsSlot].mInUse
      /\ StatsSlot = NextStats(mCurrentAiqStatsIndex')
      /\ mCurrentAiqStatsIndex' # StatsSlot
      /\ \/ mCurrentAiqStatsIndex' = mCurrentAiqStatsIndex
         \/ mAiqStatistics[mCurrentAiqStatsIndex'].mInUse
  BY <1>i, SlotIsFree
<1>4. \A i \in Slots :
         /\ mAiqStatistics'[i].mInUse = mAiqStatistics[i].mInUse
         /\ i # StatsSlot => mAiqStatistics'[i] = mAiqStatistics[i]
  BY <1>1, <1>3, <1>s DEF Statistics
<1>5. \A i \in Slots : Readable(i)' => Readable(i) /\ i # StatsSlot
  BY <1>3, <1>4 DEF Readable
<1>6. LockInv'
  <2>1. \A i \in Slots : mAiqStatistics'[i].mInUse => Running /\ run.stats = i
    BY <1>4, <1>i DEF LockInv
  <2>2. ASSUME Running, run.stats # -1
        PROVE  mAiqStatistics'[run.stats] = mAiqStatistics[run.stats]
    <3>1. run.stats \in Slots  BY <2>2 DEF Types, ThreadType
    <3>2. mAiqStatistics[run.stats].mInUse  BY <1>i, <2>2 DEF LockInv
    <3> QED  BY <1>3, <1>4, <3>1, <3>2
  <2> QED  BY <1>1, <1>i, <2>1, <2>2 DEF LockInv, Running
<1>7. FillInv'
  <2>1. decoder.last + 1 # -1  BY <1>2 DEF Frames
  <2>2. StatsSlot # -1  BY <1>3 DEF Slots
  <2>3. ~ mAiqStatistics'[StatsSlot].mInUse  BY <1>3, <1>4
  <2> QED  BY <1>2, <1>3, <2>1, <2>2, <2>3 DEF FillInv
<1>8. WholeInv'  BY <1>2, <1>4, <1>5, <1>i DEF WholeInv
<1>9. BehindInv'
  <2>1. LastPublished = decoder.last /\ LastPublished' = decoder.last
    BY <1>1, <1>2 DEF LastPublished, Frames
  <2> QED  BY <1>1, <1>2, <1>4, <1>5, <1>i, <2>1 DEF BehindInv
<1>10. PendingInv'  BY <1>1, <1>2, <1>4, <1>5, <1>i DEF PendingInv, Running
<1>11. DataInv'  BY <1>1, <1>2, <1>i DEF DataInv, Running
<1> QED  BY <1>6, <1>7, <1>8, <1>9, <1>10, <1>11 DEF StatsInv

\* ... fills it, ...
LEMMA StatsFilled == ASSUME Types, StatsInv, FillStats PROVE StatsInv'
<1>t. decoder \in Decoders  BY DEF Types, ThreadType, Decoders
<1>s. mAiqStatistics \in [Slots -> Statistics]  BY DEF Types, StorageType
<1>i. LockInv /\ FillInv /\ WholeInv /\ BehindInv /\ PendingInv /\ DataInv  BY DEF StatsInv
<1> DEFINE n == decoder.slot
<1>1. /\ decoder.pc = "fill" /\ decoder' = [decoder EXCEPT !.pc = "update"]
      /\ mAiqStatistics' = [mAiqStatistics EXCEPT
            ![n].mSequence = decoder.seq, ![n].mTimestamp = decoder.seq,
            ![n].mPendingDecode = decoder.pending]
      /\ mCurrentAiqStatsIndex' = mCurrentAiqStatsIndex
      /\ run' = run /\ decodedStats' = decodedStats
  BY DEF FillStats
<1>2. /\ decoder'.pc = "update" /\ decoder'.slot = n /\ decoder'.seq = decoder.seq
      /\ decoder'.last = decoder.last /\ decoder'.pending = decoder.pending
  BY <1>1, <1>t DEF Decoders
<1>3. n # -1  BY <1>1, <1>i DEF FillInv
<1>4. n \in Slots /\ ~ Readable(n)  BY <1>3, <1>i, FilledIsHidden
<1>5. /\ mAiqStatistics'[n].mSequence = decoder.seq
      /\ mAiqStatistics'[n].mTimestamp = decoder.seq
      /\ mAiqStatistics'[n].mPendingDecode = decoder.pending
      /\ mAiqStatistics'[n].mInUse = mAiqStatistics[n].mInUse
      /\ \A i \in Slots : i # n => mAiqStatistics'[i] = mAiqStatistics[i]
  BY <1>1, <1>4, <1>s DEF Statistics
<1> HIDE DEF n
<1>6. \A i \in Slots : Readable(i)' => Readable(i) /\ i # n
  BY <1>1, <1>4, <1>5 DEF Readable
<1>7. LockInv'
  <2>1. \A i \in Slots : mAiqStatistics'[i].mInUse => Running /\ run.stats = i
    BY <1>5, <1>i DEF LockInv
  <2>2. ASSUME Running, run.stats # -1
        PROVE  mAiqStatistics'[run.stats] = mAiqStatistics[run.stats]
    <3>1. run.stats \in Slots  BY <2>2 DEF Types, ThreadType
    <3>2. Readable(run.stats)  BY <1>i, <2>2, <3>1 DEF LockInv, Readable
    <3> QED  BY <1>4, <1>5, <3>1, <3>2
  <2> QED  BY <1>1, <1>i, <2>1, <2>2 DEF LockInv, Running
<1>8. FillInv'  BY <1>1, <1>2, <1>3, <1>5, <1>i DEF FillInv, n
<1>9. WholeInv'  BY <1>2, <1>5, <1>6, <1>i DEF WholeInv
<1>10. BehindInv'
  <2>1. LastPublished' = LastPublished  BY <1>1, <1>2 DEF LastPublished
  <2> QED  BY <1>1, <1>2, <1>5, <1>6, <1>i, <2>1 DEF BehindInv
<1>11. PendingInv'  BY <1>1, <1>2, <1>5, <1>6, <1>i DEF PendingInv, Running
<1>12. DataInv'  BY <1>1, <1>2, <1>i DEF DataInv, Running
<1> QED  BY <1>7, <1>8, <1>9, <1>10, <1>11, <1>12 DEF StatsInv

\* ... publishes it, ...
LEMMA StatsPublished == ASSUME Types, StatsInv, UpdateStats PROVE StatsInv'
<1>t. decoder \in Decoders  BY DEF Types, ThreadType, Decoders
<1>s. mAiqStatistics \in [Slots -> Statistics] /\ decodedStats \in Frames
  BY DEF Types, StorageType
<1>i. LockInv /\ FillInv /\ WholeInv /\ BehindInv /\ PendingInv /\ DataInv  BY DEF StatsInv
<1> DEFINE n == decoder.slot
<1>1. decoder.pc = "update"  BY DEF UpdateStats
<1>2. n # -1 /\ n = NextStats(mCurrentAiqStatsIndex)  BY <1>1, <1>i DEF FillInv
<1>3. /\ mCurrentAiqStatsIndex' = n
      /\ mAiqStatistics' = [mAiqStatistics EXCEPT ![n].mSequence = decoder.seq]
      /\ decoder' = [decoder EXCEPT !.pc = IF decoder.pending THEN "idle" ELSE "decode",
                                    !.slot = -1]
      /\ run' = run /\ decodedStats' = decodedStats
  BY <1>2 DEF UpdateStats, updateAiqStatistics
<1>4. /\ decoder'.pc = IF decoder.pending THEN "idle" ELSE "decode"
      /\ decoder'.slot = -1 /\ decoder'.seq = decoder.seq
      /\ decoder'.last = decoder.last /\ decoder'.pending = decoder.pending
      /\ decoder.last \in Frames
  BY <1>3, <1>t DEF Decoders
<1>5. n \in Slots /\ ~ Readable(n)  BY <1>2, <1>i, FilledIsHidden
<1>6. /\ mAiqStatistics[n].mSequence = decoder.seq
      /\ mAiqStatistics[n].mTimestamp = decoder.seq
      /\ mAiqStatistics[n].mPendingDecode = decoder.pending
      /\ decoder.seq = decoder.last /\ decoder.seq # -1
  BY <1>1, <1>i DEF FillInv
<1>7. mAiqStatistics' = mAiqStatistics
  BY <1>3, <1>5, <1>6, <1>s DEF Statistics
<1> HIDE DEF n
<1>8. \A i \in Slots : Readable(i)' => Readable(i) \/ i = n
  BY <1>3, <1>7 DEF Readable
<1>9. LockInv'  BY <1>3, <1>7, <1>i DEF LockInv, Running
<1>10. FillInv'  BY <1>4, <1>6 DEF FillInv
<1>11. WholeInv'  BY <1>4, <1>6, <1>7, <1>8, <1>i DEF WholeInv
<1>12. BehindInv'
  <2> SUFFICES ASSUME ~ decoder.pending PROVE BehindInv'
    BY <1>4 DEF BehindInv
  <2>1. LastPublished' = decoder.last /\ LastPublished = decoder.last - 1
    BY <1>1, <1>4 DEF LastPublished
  <2>2. decodedStats >= decoder.last - 1  BY <1>1, <1>i, <2>1 DEF BehindInv
  <2>3. \A i \in Slots : Readable(i)' => mAiqStatistics'[i].mSequence <= decoder.last
    <3> SUFFICES ASSUME NEW i \in Slots, Readable(i)'
                 PROVE  mAiqStatistics[i].mSequence <= decoder.last
      BY <1>7
    <3>1. CASE Readable(i)
      <4>1. mAiqStatistics[i].mSequence <= decoder.last - 1
        BY <1>i, <2>1, <3>1 DEF BehindInv
      <4>2. mAiqStatistics[i].mSequence \in Frames  BY <1>s DEF Statistics
      <4> QED  BY <1>4, <4>1, <4>2 DEF Frames
    <3>2. CASE i = n
      BY <1>4, <1>6, <3>2 DEF Frames
    <3> QED  BY <1>8, <3>1, <3>2
  <2> QED  BY <1>3, <1>4, <2>1, <2>2, <2>3 DEF BehindInv
<1>13. PendingInv'
  <2> SUFFICES ASSUME decoder.pending, NEW i \in Slots, Readable(i)'
               PROVE  /\ ~ mAiqStatistics[i].mPendingDecode
                           => decodedStats = mAiqStatistics[i].mSequence
                      /\ Running /\ run.stats # -1 /\ run.stats # i
                           => mAiqStatistics[i].mPendingDecode
    BY <1>3, <1>4, <1>7 DEF PendingInv, Running
  <2>1. CASE Readable(i)
    BY <1>i, <2>1 DEF PendingInv
  <2>2. CASE i = n
    BY <1>6, <2>2
  <2> QED  BY <1>8, <2>1, <2>2
<1>14. DataInv'  BY <1>3, <1>4, <1>i DEF DataInv, Running
<1> QED  BY <1>9, <1>10, <1>11, <1>12, <1>13, <1>14 DEF StatsInv

\* ... and decodes the statistics.
LEMMA StatsDecoded == ASSUME Types, StatsInv, DecodeStats PROVE StatsInv'
<1>t. decoder \in Decoders  BY DEF Types, ThreadType, Decoders
<1>i. LockInv /\ FillInv /\ WholeInv /\ BehindInv /\ PendingInv /\ DataInv  BY DEF StatsInv
<1>1. /\ decoder.pc = "decode" /\ decodedStats' = decoder.seq
      /\ decoder' = [decoder EXCEPT !.pc = "idle"]
      /\ UNCHANGED <<mAiqStatistics, mCurrentAiqStatsIndex, run>>
  BY DEF DecodeStats
<1>2. /\ decoder'.pc = "idle" /\ decoder'.slot = decoder.slot
      /\ decoder'.last = decoder.last /\ decoder'.pending = decoder.pending
      /\ decoder.last \in Frames
  BY <1>1, <1>t DEF Decoders
<1>3. ~ decoder.pending /\ decoder.seq = decoder.last /\ decoder.slot = -1
  BY <1>1, <1>i DEF FillInv
<1>4. \A i \in Slots : Readable(i)' <=> Readable(i)  BY <1>1 DEF Readable
<1>5. LockInv' /\ DataInv'  BY <1>1, <1>2, <1>i DEF LockInv, DataInv, Running
<1>6. FillInv'  BY <1>2, <1>3 DEF FillInv
<1>7. WholeInv'  BY <1>1, <1>2, <1>4, <1>i DEF WholeInv
<1>8. BehindInv'
  <2>1. LastPublished' = decoder.last /\ LastPublished = decoder.last
    BY <1>1, <1>2 DEF LastPublished
  <2> QED  BY <1>1, <1>2, <1>3, <1>4, <1>i, <2>1 DEF BehindInv, Frames
<1>9. PendingInv'  BY <1>2, <1>3 DEF PendingInv
<1> QED  BY <1>5, <1>6, <1>7, <1>8, <1>9 DEF StatsInv

\* A run keeps it: it locks the newest statistics, ...
LEMMA StatsLocked == ASSUME Types, StatsInv, run3A PROVE StatsInv'
<1>t. run \in Runs /\ decoder \in Decoders
  BY DEF Types, ThreadType, Runs, Decoders
<1>s. mAiqStatistics \in [Slots -> Statistics] /\ mCurrentAiqStatsIndex \in Slots \cup {-1}
  BY DEF Types, StorageType
<1>i. LockInv /\ FillInv /\ WholeInv /\ BehindInv /\ PendingInv /\ DataInv  BY DEF StatsInv
<1> DEFINE stats == IF mFirstAiqRunning THEN -1 ELSE LockableStats
           frameOf == IF stats = -1 THEN -1 ELSE mAiqStatistics[stats].mSequence
<1>1. /\ run.pc = "idle" /\ LockStats(stats)
      /\ run'.stats = stats /\ run'.seq = frameOf /\ run'.aiqRun = FALSE
      /\ run'.pc \in {"expose", "unlock"}
      /\ UNCHANGED <<mCurrentAiqStatsIndex, decoder, decodedStats>>
  <2>1. PICK seq \in IF mAiqRunningForPerframe THEN ApplyingSeqs ELSE {-1} :
           run' = [NoRun EXCEPT !.pc = IF needRun3A(stats) THEN "expose" ELSE "unlock",
                                !.applyingSeq = seq, !.stats = stats, !.seq = frameOf]
    BY DEF run3A
  <2>2. /\ run.pc = "idle" /\ LockStats(stats)
        /\ UNCHANGED <<mCurrentAiqStatsIndex, decoder, decodedStats>>
    BY DEF run3A
  <2> HIDE DEF stats, frameOf
  <2>3. /\ run'.stats = stats /\ run'.pc \in {"expose", "unlock"}
        /\ run'.seq = frameOf /\ run'.aiqRun = FALSE
    BY <2>1 DEF NoRun
  <2> QED  BY <2>2, <2>3
<1>2. stats = -1 \/ (stats \in Slots /\ stats = mCurrentAiqStatsIndex)
  BY <1>s DEF LockableStats
<1> HIDE DEF stats
<1>3. Running' /\ ~ Running  BY <1>1 DEF Running
<1>4. \A i \in Slots : ~ mAiqStatistics[i].mInUse
  BY <1>i, <1>3 DEF LockInv
<1>5. \A i \in Slots :
         /\ mAiqStatistics'[i].mTimestamp = mAiqStatistics[i].mTimestamp
         /\ mAiqStatistics'[i].mSequence = mAiqStatistics[i].mSequence
         /\ mAiqStatistics'[i].mPendingDecode = mAiqStatistics[i].mPendingDecode
         /\ mAiqStatistics'[i].mInUse <=> i = stats
  <2>1. CASE stats = -1
    <3>1. mAiqStatistics' = mAiqStatistics  BY <1>1, <2>1 DEF LockStats
    <3> QED  BY <1>4, <2>1, <3>1 DEF Slots
  <2>2. CASE stats # -1
    <3>1. mAiqStatistics' = [mAiqStatistics EXCEPT ![stats].mInUse = TRUE]
      BY <1>1, <2>2 DEF LockStats
    <3> QED  BY <1>2, <1>4, <1>s, <2>2, <3>1 DEF Statistics
  <2> QED  BY <2>1, <2>2
<1>6. \A i \in Slots : /\ Readable(i)' => Readable(i)
                       /\ Readable(i)' => i = mCurrentAiqStatsIndex
  <2> SUFFICES ASSUME NEW i \in Slots, Readable(i)' PROVE i = mCurrentAiqStatsIndex
    BY DEF Readable
  <2>1. i = mCurrentAiqStatsIndex' \/ mAiqStatistics'[i].mInUse  BY DEF Readable
  <2> QED  BY <1>1, <1>2, <1>5, <2>1 DEF Slots
<1>7. stats # -1 => Readable(stats)  BY <1>2 DEF Readable
<1>8. LockInv'
  <2>1. run'.pc # "idle"  BY <1>1
  <2>2. stats # -1 => stats \in Slots /\ mAiqStatistics[stats].mSequence # -1
    BY <1>2, <1>7, <1>i DEF WholeInv
  <2> QED  BY <1>1, <1>3, <1>5, <2>1, <2>2 DEF LockInv
<1>9. FillInv'
  <2>1. decoder.slot # -1 => decoder.slot \in Slots /\ decoder.slot # stats
    <3>1. decoder.slot # -1 => decoder.slot \in Slots /\ ~ Readable(decoder.slot)
      BY <1>i, FilledIsHidden
    <3> QED  BY <1>7, <3>1
  <2> QED  BY <1>1, <1>5, <1>i, <2>1 DEF FillInv
<1>10. WholeInv'  BY <1>1, <1>5, <1>6, <1>i DEF WholeInv
<1>11. BehindInv'
  <2>1. LastPublished' = LastPublished  BY <1>1 DEF LastPublished
  <2> QED  BY <1>1, <1>5, <1>6, <1>i, <2>1 DEF BehindInv
<1>12. PendingInv'  BY <1>1, <1>2, <1>5, <1>6, <1>i DEF PendingInv
<1>13. DataInv'  BY <1>1 DEF DataInv
<1> QED  BY <1>8, <1>9, <1>10, <1>11, <1>12, <1>13 DEF StatsInv

\* ... computes with them, ...
LEMMA StatsComputed == ASSUME Types, StatsInv, runAiq PROVE StatsInv'
<1>t. run \in Runs /\ decoder \in Decoders
  BY DEF Types, ThreadType, Runs, Decoders
<1>s. mAiqStatistics \in [Slots -> Statistics] /\ decodedStats \in Frames
  BY DEF Types, StorageType
<1>i. LockInv /\ FillInv /\ WholeInv /\ BehindInv /\ PendingInv /\ DataInv  BY DEF StatsInv
<1>1. /\ run.pc = "expose" /\ setStatsParams /\ decoder' = decoder
      /\ run'.stats = run.stats /\ run'.seq = run.seq /\ run'.data = decodedStats'
      /\ run'.pc \in {"unlock", "done"}
  <2>1. PICK fails \in {AiqMayFail, FALSE}, switch \in BOOLEAN :
           run' = [run EXCEPT !.pc = IF fails THEN "unlock" ELSE "done",
                              !.effect = effectSeq(run.applyingSeq),
                              !.aiqRun = ~ fails, !.data = decodedStats',
                              !.skip = IF switch THEN NumSkip ELSE 0]
    BY DEF runAiq
  <2>2. run.pc = "expose" /\ setStatsParams /\ decoder' = decoder  BY DEF runAiq
  <2>3. /\ run'.stats = run.stats /\ run'.seq = run.seq /\ run'.data = decodedStats'
        /\ run'.pc \in {"unlock", "done"}
    BY <1>t, <2>1 DEF Runs
  <2> QED  BY <2>2, <2>3
<1>2. Running /\ Running'  BY <1>1 DEF Running
<1> DEFINE n == run.stats
           waits == n # -1 /\ mAiqStatistics[n].mPendingDecode
<1>3. n \in Slots \cup {-1}  BY <1>t DEF Runs
<1>4. n # -1 => /\ mAiqStatistics[n].mInUse /\ mAiqStatistics[n].mSequence = run.seq
                /\ run.seq # -1 /\ Readable(n)
  BY <1>2, <1>3, <1>i DEF LockInv, Readable
<1>5. CASE ~ waits
  <2>1. UNCHANGED statsVars  BY <1>1, <1>5 DEF setStatsParams
  <2>2. /\ mAiqStatistics' = mAiqStatistics /\ decodedStats' = decodedStats
        /\ mCurrentAiqStatsIndex' = mCurrentAiqStatsIndex
    BY <2>1 DEF statsVars
  <2>3. LockInv'  BY <1>1, <1>2, <1>i, <2>2 DEF LockInv
  <2>4. FillInv'  BY <1>1, <1>i, <2>2 DEF FillInv
  <2>5. WholeInv'  BY <1>1, <1>i, <2>2 DEF WholeInv, Readable
  <2>6. BehindInv'  BY <1>1, <1>i, <2>2 DEF BehindInv, Readable, LastPublished
  <2>7. PendingInv'  BY <1>1, <1>2, <1>i, <2>2 DEF PendingInv, Readable
  <2>8. DataInv'
    <3> SUFFICES ASSUME n # -1
                 PROVE  IF decoder.pending THEN decodedStats = run.seq
                                           ELSE decodedStats >= run.seq - 1
      BY <1>1, <2>2 DEF DataInv
    <3>1. CASE decoder.pending
      BY <1>3, <1>4, <1>5, <1>i, <3>1 DEF PendingInv
    <3>2. CASE ~ decoder.pending
      <4>1. run.seq \in Int /\ LastPublished \in Int /\ decodedStats \in Int
        BY <1>s, <1>t DEF Runs, Frames, LastPublished, Decoders
      <4> HIDE DEF n
      <4>2. mAiqStatistics[n].mSequence <= LastPublished
        BY <1>3, <1>4, <1>i, <3>2 DEF BehindInv
      <4>3. \/ decodedStats >= LastPublished - 1
            \/ decodedStats >= LastPublished
        BY <1>i, <3>2 DEF BehindInv
      <4> QED  BY <1>4, <3>2, <4>1, <4>2, <4>3
    <3> QED  BY <3>1, <3>2
  <2> QED  BY <2>3, <2>4, <2>5, <2>6, <2>7, <2>8 DEF StatsInv
<1>6. CASE waits
  <2>1. decodedStats' = run.seq /\ mCurrentAiqStatsIndex' = mCurrentAiqStatsIndex
    BY <1>1, <1>4, <1>6 DEF setStatsParams
  <2>2. PICK bypassed \in BOOLEAN :
           mAiqStatistics' = [mAiqStatistics EXCEPT ![n].mPendingDecode = bypassed]
    BY <1>1, <1>6 DEF setStatsParams
  <2>3. n \in Slots  BY <1>3, <1>6
  <2>4. decoder.pending  BY <1>4, <1>6, <1>i, <2>3 DEF WholeInv
  <2> HIDE DEF n
  <2>5. \A i \in Slots :
           /\ mAiqStatistics'[i].mTimestamp = mAiqStatistics[i].mTimestamp
           /\ mAiqStatistics'[i].mSequence = mAiqStatistics[i].mSequence
           /\ mAiqStatistics'[i].mInUse = mAiqStatistics[i].mInUse
           /\ i # n => mAiqStatistics'[i] = mAiqStatistics[i]
    BY <1>s, <2>2, <2>3 DEF Statistics
  <2>6. \A i \in Slots : Readable(i)' <=> Readable(i)  BY <2>1, <2>5 DEF Readable
  <2>7. LockInv'
    <3>1. \A i \in Slots : mAiqStatistics'[i].mInUse => run'.stats = i
      BY <1>1, <1>i, <2>5 DEF LockInv
    <3>2. mAiqStatistics'[n].mInUse /\ mAiqStatistics'[n].mSequence = run.seq /\ run.seq # -1
      BY <1>4, <2>3, <2>5, <1>6
    <3> QED  BY <1>1, <1>2, <3>1, <3>2 DEF LockInv, n
  <2>8. FillInv'
    <3>1. decoder.slot # -1 => decoder.slot \in Slots /\ decoder.slot # n
      <4>1. decoder.slot # -1 => decoder.slot \in Slots /\ ~ Readable(decoder.slot)
        BY <1>i, FilledIsHidden
      <4> QED  BY <1>4, <1>6, <4>1
    <3>2. decoder.pc = "update" => decoder.slot # -1  BY <1>i DEF FillInv
    <3> QED  BY <1>1, <1>i, <2>1, <2>5, <3>1, <3>2 DEF FillInv
  <2>9. WholeInv'  BY <1>1, <1>i, <2>4, <2>5, <2>6 DEF WholeInv
  <2>10. BehindInv'  BY <1>1, <2>4 DEF BehindInv
  <2>11. PendingInv'
    <3> SUFFICES ASSUME NEW i \in Slots, Readable(i)
                 PROVE  /\ ~ mAiqStatistics'[i].mPendingDecode
                             => decodedStats' = mAiqStatistics'[i].mSequence
                        /\ n # i => mAiqStatistics'[i].mPendingDecode
      BY <1>1, <2>6 DEF PendingInv, n
    <3>1. CASE i = n
      BY <1>4, <1>6, <2>1, <2>5, <3>1
    <3>2. CASE i # n
      <4>1. mAiqStatistics[i].mPendingDecode
        BY <1>2, <1>6, <1>i, <2>4, <3>2 DEF PendingInv, n
      <4> QED  BY <2>5, <3>2, <4>1
    <3> QED  BY <3>1, <3>2
  <2>12. DataInv'  BY <1>1, <2>1, <2>4 DEF DataInv
  <2> QED  BY <2>7, <2>8, <2>9, <2>10, <2>11, <2>12 DEF StatsInv
<1> QED  BY <1>5, <1>6

\* ... and unlocks them.
LEMMA StatsUnlocked == ASSUME Types, StatsInv, UnlockStats PROVE StatsInv'
<1>t. run \in Runs /\ decoder \in Decoders
  BY DEF Types, ThreadType, Runs, Decoders
<1>s. mAiqStatistics \in [Slots -> Statistics]  BY DEF Types, StorageType
<1>i. LockInv /\ FillInv /\ WholeInv /\ BehindInv /\ PendingInv /\ DataInv  BY DEF StatsInv
<1>1. /\ mAiqStatistics' = [i \in DOMAIN mAiqStatistics |->
                              [mAiqStatistics[i] EXCEPT !.mInUse = FALSE]]
      /\ run' = [run EXCEPT !.pc = "return"]
      /\ UNCHANGED <<mCurrentAiqStatsIndex, decodedStats, decoder>>
  BY DEF UnlockStats, unLockAiqStatistics
<1>2. \A i \in Slots :
         /\ mAiqStatistics'[i].mTimestamp = mAiqStatistics[i].mTimestamp
         /\ mAiqStatistics'[i].mSequence = mAiqStatistics[i].mSequence
         /\ mAiqStatistics'[i].mPendingDecode = mAiqStatistics[i].mPendingDecode
         /\ mAiqStatistics'[i].mInUse = FALSE
  BY <1>1, <1>s DEF Statistics
<1>3. run'.pc = "return"  BY <1>1, <1>t DEF Runs
<1>4. ~ Running'  BY <1>3 DEF Running
<1>5. \A i \in Slots : Readable(i)' => Readable(i)  BY <1>1, <1>2 DEF Readable
<1>6. LockInv' /\ DataInv'  BY <1>2, <1>3, <1>4 DEF LockInv, DataInv
<1>7. FillInv'
  <2>1. decoder.slot # -1 => decoder.slot \in Slots  BY <1>t DEF Decoders
  <2> QED  BY <1>1, <1>2, <1>i, <2>1 DEF FillInv
<1>8. WholeInv'  BY <1>1, <1>2, <1>5, <1>i DEF WholeInv
<1>9. BehindInv'
  <2>1. LastPublished' = LastPublished  BY <1>1 DEF LastPublished
  <2> QED  BY <1>1, <1>2, <1>5, <1>i, <2>1 DEF BehindInv
<1>10. PendingInv'  BY <1>1, <1>2, <1>4, <1>5, <1>i DEF PendingInv
<1> QED  BY <1>6, <1>7, <1>8, <1>9, <1>10 DEF StatsInv

\* Every step keeps it.
LEMMA StatsStep == ASSUME Types, StatsInv, [Next]_vars PROVE StatsInv'
<1>t. run \in Runs /\ decoder \in Decoders
  BY DEF Types, ThreadType, Runs, Decoders
<1>i. LockInv /\ FillInv /\ WholeInv /\ BehindInv /\ PendingInv /\ DataInv  BY DEF StatsInv
<1>1. CASE SensorFrame \/ handleEvent \/ RequestsSof \/ GiveUp \/ UNCHANGED vars
  <2>1. UNCHANGED <<statsVars, decoder, run>>
    BY <1>1 DEF SensorFrame, handleEvent, RequestsSof, GiveUp, vars
  <2> QED  BY <2>1, StatsSame DEF Running
<1>2. CASE decodeStatsData
  BY <1>2, StatsAcquired, StatsFilled, StatsPublished, StatsDecoded DEF decodeStatsData
<1>3. CASE run3A \/ runAiq \/ UnlockStats
  BY <1>3, StatsLocked, StatsComputed, StatsUnlocked
<1>4. CASE SkipResult \/ done
  <2>1. UNCHANGED <<statsVars, decoder>> /\ run.pc = "done"
    BY <1>4 DEF SkipResult, done
  <2>2. \/ run' = [run EXCEPT !.skip = @ - 1, !.effect = effectSeq(-1)]
        \/ run' = [run EXCEPT !.pc = "unlock"]
    BY <1>4 DEF SkipResult, done
  <2>3. /\ run'.stats = run.stats /\ run'.seq = run.seq /\ run'.data = run.data
        /\ run'.aiqRun = run.aiqRun /\ run'.pc \in {"done", "unlock"}
    BY <1>t, <2>1, <2>2 DEF Runs
  <2> QED  BY <2>1, <2>3, StatsSame DEF Running
<1>5. CASE Return
  <2>1. run.pc = "return" /\ run' = NoRun /\ UNCHANGED <<statsVars, decoder>>
    BY <1>5 DEF Return
  <2>2. /\ mAiqStatistics' = mAiqStatistics /\ decodedStats' = decodedStats
        /\ mCurrentAiqStatsIndex' = mCurrentAiqStatsIndex
    BY <2>1 DEF statsVars
  <2>3. run'.pc = "idle" /\ run'.stats = -1 /\ ~ Running /\ ~ Running'
    BY <2>1 DEF NoRun, Running
  <2>4. LockInv' /\ DataInv'  BY <1>i, <2>2, <2>3 DEF LockInv, DataInv
  <2>5. FillInv' /\ WholeInv'  BY <1>i, <2>1, <2>2 DEF FillInv, WholeInv, Readable
  <2>6. BehindInv'  BY <1>i, <2>1, <2>2 DEF BehindInv, Readable, LastPublished
  <2>7. PendingInv'  BY <1>i, <2>1, <2>2, <2>3 DEF PendingInv, Readable
  <2> QED  BY <2>4, <2>5, <2>6, <2>7 DEF StatsInv
<1>6. CASE startEngine
  <2>1. /\ decoder' = NoDecoder(decoder.pending) /\ run.pc = "idle"
        /\ mCurrentAiqStatsIndex' = -1 /\ decodedStats' = -1
        /\ UNCHANGED <<mAiqStatistics, run>>
    BY <1>6 DEF startEngine
  <2>2. decoder'.slot = -1 /\ decoder'.pc = "idle" /\ decoder'.last = -1
    BY <2>1 DEF NoDecoder
  <2>3. ~ Running /\ ~ Running'  BY <2>1 DEF Running
  <2>4. \A i \in Slots : ~ Readable(i)'  BY <1>i, <2>1, <2>3 DEF LockInv, Readable, Slots
  <2>5. LockInv' /\ DataInv'  BY <1>i, <2>1, <2>3 DEF LockInv, DataInv
  <2>6. FillInv'  BY <2>2 DEF FillInv
  <2>7. WholeInv' /\ PendingInv'  BY <2>4 DEF WholeInv, PendingInv
  <2>8. BehindInv'  BY <2>1, <2>2, <2>4 DEF BehindInv, LastPublished
  <2> QED  BY <2>5, <2>6, <2>7, <2>8 DEF StatsInv
<1> QED  BY <1>1, <1>2, <1>3, <1>4, <1>5, <1>6 DEF Next

\* What a run reads of the statistics it has locked is of one frame until it unlocks
\* them, for every size of the ring from two on and however many frames the executors
\* decode meanwhile: the slot being filled is never one that getAndLockAiqStatistics()
\* may return.  Statistics are published before they are decoded, so 3A may compute with
\* others; they are never older than the ones published before, and exactly the ones
\* it has locked when decoding is left to 3A.
THEOREM StatsAreWhole == Spec => []StatsWhole
<1>1. Init => Types /\ StatsInv  BY TypesInit, StatsInit
<1>2. Types /\ StatsInv /\ [Next]_vars => (Types /\ StatsInv)'
  BY TypesStep, StatsStep
<1>3. Types /\ StatsInv => StatsWhole
  <2> SUFFICES ASSUME Types, StatsInv, run.pc # "return", run.stats # -1
               PROVE  LET slot == mAiqStatistics[run.stats]
                      IN  /\ slot.mInUse /\ slot.mSequence = run.seq
                          /\ slot.mTimestamp = run.seq
                          /\ run.aiqRun => IF decoder.pending THEN run.data = run.seq
                                           ELSE run.data >= run.seq - 1
    BY DEF StatsWhole
  <2>1. run \in Runs  BY DEF Types, ThreadType, Runs
  <2>2. run.pc # "idle"  BY DEF StatsInv, LockInv
  <2>3. Running  BY <2>1, <2>2 DEF Runs, Points, Running
  <2>4. run.stats \in Slots  BY <2>1 DEF Runs
  <2>5. mAiqStatistics[run.stats].mInUse /\ mAiqStatistics[run.stats].mSequence = run.seq
    BY <2>3 DEF StatsInv, LockInv
  <2>6. mAiqStatistics[run.stats].mTimestamp = mAiqStatistics[run.stats].mSequence
    BY <2>4, <2>5 DEF StatsInv, WholeInv, Readable
  <2> QED  BY <2>3, <2>5, <2>6 DEF StatsInv, DataInv
<1> QED  BY <1>1, <1>2, <1>3, PTL DEF Spec

-----------------------------------------------------------------------------
(* The first run, and the exposures that wait.                             *)

BoundInv == SofInv /\ FirstInv /\ IdleInv /\ SizeInv /\ SessionInv

\* The newest result stays when the next one is acquired.
LEMMA LatestAcquired ==
    ASSUME StorageType, acquireAiqResult, mCurrentIndex' = mCurrentIndex
    PROVE  /\ mCurrentIndex # -1 => LatestResult' = LatestResult
           /\ mCurrentIndex = -1 => LatestResult'.mSequence = -1
<1>1. /\ mAiqResults \in [0..(StorageSize - 1) -> Results]
      /\ mCurrentIndex \in -1..(StorageSize - 1)
  BY DEF StorageType
<1>2. NextIndex \in 0..(StorageSize - 1) /\ NextIndex # mCurrentIndex
  BY NextSlots
<1>3. mAiqResults' = [mAiqResults EXCEPT ![NextIndex].mSequence = -1]
  BY DEF acquireAiqResult
<1>4. CASE mCurrentIndex # -1
  <2>1. mCurrentIndex \in 0..(StorageSize - 1)  BY <1>1, <1>4
  <2>2. mAiqResults'[mCurrentIndex] = mAiqResults[mCurrentIndex]
    BY <1>1, <1>2, <1>3, <2>1
  <2>3. LatestResult' = mAiqResults'[mCurrentIndex]  BY <1>4 DEF LatestResult
  <2>4. LatestResult = mAiqResults[mCurrentIndex]  BY <1>4 DEF LatestResult
  <2> QED  BY <1>4, <2>2, <2>3, <2>4
<1>5. CASE mCurrentIndex = -1
  <2>1. NextIndex = 0  BY <1>5, RingSizes DEF NextIndex
  <2>2. mAiqResults'[0].mSequence = -1  BY <1>1, <1>2, <1>3, <2>1 DEF Results
  <2>3. LatestResult' = mAiqResults'[0]  BY <1>5 DEF LatestResult
  <2> QED  BY <1>5, <2>2, <2>3
<1> QED  BY <1>4, <1>5

\* A result that is stored becomes the newest one.
LEMMA LatestStored ==
    ASSUME Types, done \/ SkipResult
    PROVE  LatestResult'.mSequence = run.effect /\ mCurrentIndex' # -1
<1>1. mAiqResults \in [0..(StorageSize - 1) -> Results]
  BY DEF Types, StorageType
<1>2. /\ NextIndex \in 0..(StorageSize - 1)
      /\ (NextIndex + 1) % StorageSize \in 0..(StorageSize - 1)
      /\ (NextIndex + 1) % StorageSize # NextIndex
  BY NextSlots DEF Types
<1>3. mCurrentIndex' = NextIndex /\ NextIndex # -1
  <2>1. mCurrentIndex' = NextIndex  BY DEF done, SkipResult, updateAiqResult
  <2>2. NextIndex # -1  BY <1>2, RingSizes
  <2> QED  BY <2>1, <2>2
<1>4. LatestResult' = mAiqResults'[NextIndex]  BY <1>3 DEF LatestResult
<1>5. CASE done
  <2>1. mAiqResults' = [mAiqResults EXCEPT ![NextIndex] = Result(FALSE)]
    BY <1>5 DEF done, updateAiqResult
  <2> QED  BY <1>1, <1>2, <1>3, <1>4, <2>1 DEF Result
<1>6. CASE SkipResult
  <2>1. mAiqResults' = [mAiqResults EXCEPT ![NextIndex] = Result(TRUE),
                          ![(NextIndex + 1) % StorageSize].mSequence = -1]
    BY <1>6 DEF SkipResult
  <2>2. mAiqResults'[NextIndex] = Result(TRUE)  BY <1>1, <1>2, <2>1
  <2> QED  BY <1>3, <1>4, <2>2 DEF Result
<1> QED  BY <1>5, <1>6

\* The numbers of the bounds.
LEMMA BoundNumbers ==
    /\ kMaxExposureAppliedDelay \in Nat /\ ExposureLag \in Nat /\ NumSkip \in Nat
    /\ kMaxExposureAppliedDelay >= ExposureLag /\ MaxSessions \in Nat
    /\ InitialSkipFrame \in Nat /\ ExposureLag >= 1
  BY EngineAssumption, SensorAssumption

\* The bounds hold initially.
LEMMA BoundInit == Init => BoundInv
<1> SUFFICES ASSUME Init PROVE BoundInv
  OBVIOUS
<1>1. written["exposure"] = <<0>> /\ waiting["exposure"] = <<>>
  BY RegisterFacts DEF Init
<1>2. frame = -1  BY <1>1 DEF frame
<1>3. DOMAIN mExposureDataMap = {}  BY <1>1 DEF mExposureDataMap
<1>4. Size = 0  BY <1>3, FS_EmptySet DEF Size
<1>5. /\ sof = [seq |-> -1, left |-> {}] /\ mLastSofSequence = -1 /\ run = NoRun
      /\ requests = NewRequests /\ used.sessions = 1 /\ mCurrentIndex = -1
  BY DEF Init
<1>6. LatestResult.mSequence = -1
  <2>1. 0 \in 0..(StorageSize - 1)  BY RingSizes
  <2>2. mAiqResults[0] = NewResult  BY <2>1 DEF Init
  <2> QED  BY <1>5, <2>2 DEF LatestResult, NewResult
<1>7. SofInv  BY <1>2, <1>5 DEF SofInv
<1>8. FirstInv  BY <1>2, <1>3, <1>5, <1>6 DEF FirstInv, NoRun
<1>9. SizeInv
  <2>1. run.pc = "idle"  BY <1>5 DEF NoRun
  <2> QED  BY <1>4, <2>1, BoundNumbers DEF SizeInv
<1>10. SessionInv  BY <1>5 DEF SessionInv
<1>11. IdleInv  BY <1>5 DEF IdleInv, NoRun
<1> QED  BY <1>7, <1>8, <1>9, <1>10, <1>11 DEF BoundInv

\* Every step keeps the bounds.
LEMMA BoundStep == ASSUME Types, BoundInv, [Next]_vars PROVE BoundInv'
<1>0. SensorType /\ StorageType /\ ThreadType  BY DEF Types
<1>i. SofInv /\ FirstInv /\ IdleInv /\ SizeInv /\ SessionInv  BY DEF BoundInv
<1>t. /\ run \in Runs /\ used \in Counts /\ requests \in RequestMarks
      /\ mAiqRunningForPerframe \in BOOLEAN /\ mFirstAiqRunning \in BOOLEAN
  BY <1>0 DEF ThreadType, Runs, Counts, RequestMarks
<1>n. /\ Size \in Nat /\ run.skip \in Nat /\ run.applyingSeq \in Frames /\ -1 \in Frames
      /\ used.runs \in Nat /\ used.runs + 1 \in Nat /\ used.sessions \in Nat
      /\ frame \in Frames /\ mLastSofSequence \in Frames /\ sof.seq \in Frames
  <2>1. -1 \in Frames  BY DEF Frames
  <2> QED  BY <1>0, <1>t, <2>1, SensorNumbers, SMTT(30) DEF Runs, Counts, SensorType
<1>1. CASE SensorFrame
  <2>1. PICK lost \in BOOLEAN :
           /\ NextFrame(lost)
           /\ used' = [used EXCEPT !.frames = @ + 1, !.lost = IF lost THEN @ + 1 ELSE @]
    BY <1>1 DEF SensorFrame
  <2>2. /\ ~ mFirstAiqRunning
        /\ UNCHANGED <<resultVars, statsVars, engineVars, run, decoder, requests>>
    BY <1>1 DEF SensorFrame
  <2>3. /\ frame' = frame + 1 /\ sof'.seq = frame + 1
        /\ mLastSofSequence' = mLastSofSequence /\ waiting' = waiting
    BY <1>0, <2>1, FrameBegins
  <2>4. Size' = Size  BY <2>3 DEF Size, mExposureDataMap
  <2>5. used'.sessions = used.sessions  BY <1>t, <2>1 DEF Counts
  <2>6. SofInv'
    <3>1. mLastSofSequence <= frame  BY <1>i DEF SofInv
    <3>2. mLastSofSequence' <= sof'.seq /\ mLastSofSequence' < sof'.seq
      BY <1>n, <2>3, <3>1 DEF Frames
    <3> QED  BY <2>3, <3>2 DEF SofInv
  <2>7. FirstInv'  BY <2>2 DEF FirstInv, engineVars
  <2>8. SizeInv'  BY <1>i, <2>2, <2>4 DEF SizeInv, engineVars
  <2>9. SessionInv'  BY <1>i, <2>5 DEF SessionInv
  <2>x. IdleInv'  BY <1>i, <2>2 DEF IdleInv
  <2> QED  BY <2>x, <2>6, <2>7, <2>8, <2>9 DEF BoundInv
<1>2. CASE handleEvent
  <2>1. run.pc = "idle" /\ handleSofEvent  BY <1>2 DEF handleEvent
  <2>2. UNCHANGED <<resultVars, statsVars, engineVars, run, decoder, requests, used>>
    BY <1>2 DEF handleEvent
  <2>3. /\ frame' = frame /\ "3A" \in sof.left /\ mLastSofSequence' = sof.seq
        /\ sof' = [sof EXCEPT !.left = @ \ {"3A"}]
    BY <1>0, <2>1, SofHandled
  <2>4. Size' \in Nat /\ Size' <= Size  BY <1>0, <1>i, <2>1, SofReaches
  <2>5. ~ mFirstAiqRunning
    <3>1. mLastSofSequence < frame  BY <1>i, <2>3 DEF SofInv
    <3> QED  BY <1>i, <3>1 DEF FirstInv
  <2>6. sof \in [seq : Frames, left : SUBSET {"3A", "requests"}]
    BY <1>0 DEF SensorType
  <2>7. sof'.seq = sof.seq /\ "3A" \notin sof'.left  BY <2>3, <2>6
  <2>8. SofInv'  BY <1>i, <1>n, <2>3, <2>7 DEF SofInv, Frames
  <2>9. FirstInv'  BY <2>2, <2>5 DEF FirstInv, engineVars
  <2>10. SizeInv'
    BY <1>i, <1>n, <2>1, <2>2, <2>4, BoundNumbers DEF SizeInv, engineVars
  <2>11. SessionInv'  BY <1>i, <2>2 DEF SessionInv
  <2>x. IdleInv'  BY <1>i, <2>2 DEF IdleInv
  <2> QED  BY <2>x, <2>8, <2>9, <2>10, <2>11 DEF BoundInv
<1>3. CASE RequestsSof
  <2>1. /\ requests' = [requests EXCEPT !.sof = sof.seq]
        /\ sof' = [sof EXCEPT !.left = @ \ {"requests"}]
        /\ UNCHANGED <<written, mLastSofSequence, waiting, missed, resultVars, statsVars,
                       engineVars, run, decoder, used>>
    BY <1>3 DEF RequestsSof
  <2>2. frame' = frame /\ mExposureDataMap' = mExposureDataMap
    BY <2>1 DEF frame, mExposureDataMap
  <2>3. Size' = Size  BY <2>2 DEF Size
  <2>5. sof \in [seq : Frames, left : SUBSET {"3A", "requests"}]
    BY <1>0 DEF SensorType
  <2>6. sof'.seq = sof.seq /\ sof'.left \subseteq sof.left  BY <2>1, <2>5
  <2>7. LatestResult' = LatestResult  BY <2>1 DEF resultVars, LatestResult
  <2>8. SofInv'  BY <1>i, <2>1, <2>2, <2>6 DEF SofInv
  <2>9. FirstInv'  BY <1>i, <2>1, <2>2, <2>7 DEF FirstInv, engineVars
  <2>10. SizeInv'  BY <1>i, <2>1, <2>3 DEF SizeInv, engineVars
  <2>11. SessionInv'  BY <1>i, <2>1 DEF SessionInv
  <2>x. IdleInv'  BY <1>i, <2>1 DEF IdleInv
  <2> QED  BY <2>x, <2>8, <2>9, <2>10, <2>11 DEF BoundInv
<1>4. CASE decodeStatsData \/ GiveUp \/ UNCHANGED vars
  <2>1. UNCHANGED <<sensorVars, resultVars, engineVars, run, used>>
    BY <1>4 DEF decodeStatsData,
       AcquireStats, FillStats, UpdateStats, DecodeStats, GiveUp, vars
  <2>3. /\ frame' = frame /\ Size' = Size /\ sof' = sof
        /\ mLastSofSequence' = mLastSofSequence
        /\ mExposureDataMap' = mExposureDataMap
    BY <1>0, <2>1, SensorSame
  <2>4. LatestResult' = LatestResult  BY <2>1 DEF resultVars, LatestResult
  <2>5. SofInv'  BY <1>i, <2>3 DEF SofInv
  <2>6. FirstInv'  BY <1>i, <2>1, <2>3, <2>4 DEF FirstInv, engineVars
  <2>7. SizeInv'  BY <1>i, <2>1, <2>3 DEF SizeInv, engineVars
  <2>8. SessionInv'  BY <1>i, <2>1 DEF SessionInv
  <2>x. IdleInv'  BY <1>i, <2>1 DEF IdleInv
  <2> QED  BY <2>x, <2>5, <2>6, <2>7, <2>8 DEF BoundInv
<1>5. CASE run3A
  <2> DEFINE stats == IF mFirstAiqRunning THEN -1 ELSE LockableStats
  <2>1. PICK seq \in IF mAiqRunningForPerframe THEN ApplyingSeqs ELSE {-1} :
           /\ requests' = [requests EXCEPT !.applied = seq]
           /\ run' = [NoRun EXCEPT !.pc = IF needRun3A(stats) THEN "expose" ELSE "unlock",
                                   !.applyingSeq = seq, !.stats = stats,
                                   !.seq = IF stats = -1 THEN -1
                                           ELSE mAiqStatistics[stats].mSequence]
    BY <1>5 DEF run3A
  <2>2. /\ acquireAiqResult
        /\ UNCHANGED <<sensorVars, mCurrentIndex, mCurrentAiqStatsIndex, engineVars,
                       decoder, used>>
    BY <1>5 DEF run3A
  <2>4. mFirstAiqRunning => needRun3A(stats)  BY DEF needRun3A
  <2>5. needRun3A(stats) =>
           mAiqRunningForPerframe \/ mFirstAiqRunning
             \/ Size + ExposureLag <= kMaxExposureAppliedDelay
    BY DEF needRun3A, getCurrentExposureAppliedDelay
  <2> HIDE DEF stats
  <2>6. /\ run'.pc = IF needRun3A(stats) THEN "expose" ELSE "unlock"
        /\ run'.skip = 0
    BY <2>1 DEF NoRun
  <2>7. /\ frame' = frame /\ Size' = Size /\ sof' = sof
        /\ mLastSofSequence' = mLastSofSequence
        /\ mExposureDataMap' = mExposureDataMap
    BY <1>0, <2>2, SensorSame
  <2>8. /\ mCurrentIndex # -1 => LatestResult' = LatestResult
        /\ mCurrentIndex = -1 => LatestResult'.mSequence = -1
    BY <1>0, <2>2, LatestAcquired
  <2>9. SofInv'  BY <1>i, <2>7 DEF SofInv
  <2>10. FirstInv'
    <3> SUFFICES ASSUME mFirstAiqRunning' PROVE FirstInv'
      BY DEF FirstInv
    <3>1. mFirstAiqRunning  BY <2>2 DEF engineVars
    <3>2. run'.pc = "expose"  BY <2>4, <2>6, <3>1
    <3>3. used.sessions = 1 => LatestResult'.mSequence = -1
      BY <1>i, <2>8, <3>1 DEF FirstInv
    <3>4. frame = -1 /\ mLastSofSequence = -1 /\ DOMAIN mExposureDataMap = {}
      BY <1>i, <3>1 DEF FirstInv
    <3> QED  BY <2>2, <2>6, <2>7, <3>2, <3>3, <3>4 DEF FirstInv
  <2>11. SizeInv'
    <3> SUFFICES ASSUME ~ mAiqRunningForPerframe' PROVE SizeInv'
      BY DEF SizeInv
    <3>1. ~ mAiqRunningForPerframe  BY <2>2 DEF engineVars
    <3>2. mFirstAiqRunning => Size = 0
      <4>1. mFirstAiqRunning => DOMAIN mExposureDataMap = {}  BY <1>i DEF FirstInv
      <4> QED  BY <4>1, FS_EmptySet DEF Size
    <3>3. needRun3A(stats) => Size <= kMaxExposureAppliedDelay - ExposureLag
      BY <1>n, <2>5, <3>1, <3>2, BoundNumbers
    <3>4. Size <= kMaxExposureAppliedDelay - ExposureLag + 1 + NumSkip
      BY <1>i, <3>1 DEF SizeInv
    <3> QED  BY <2>6, <2>7, <3>3, <3>4 DEF SizeInv
  <2>12. SessionInv'  BY <1>i, <2>2 DEF SessionInv
  <2>x. IdleInv'  BY <2>6 DEF IdleInv
  <2> QED  BY <2>x, <2>9, <2>10, <2>11, <2>12 DEF BoundInv
<1>6. CASE runAiq
  <2>1. PICK fails \in {AiqMayFail, FALSE}, switch \in BOOLEAN :
           /\ switch => ~ mFirstAiqRunning
           /\ used' = [used EXCEPT !.runs = @ + 1,
                                   !.switches = IF switch THEN @ + 1 ELSE @]
           /\ run' = [run EXCEPT !.pc = IF fails THEN "unlock" ELSE "done",
                                 !.effect = effectSeq(run.applyingSeq),
                                 !.aiqRun = ~ fails, !.data = decodedStats',
                                 !.skip = IF switch THEN NumSkip ELSE 0]
    BY <1>6 DEF runAiq
  <2>2. /\ run.pc = "expose" /\ updateSensorExposure(used.runs + 1, run.applyingSeq)
        /\ UNCHANGED <<resultVars, engineVars, decoder, requests>>
    BY <1>6 DEF runAiq
  <2>3. /\ frame' = frame /\ sof' = sof /\ mLastSofSequence' = mLastSofSequence
        /\ mLastSofSequence < 0 =>
              DOMAIN (mExposureDataMap') = DOMAIN mExposureDataMap
    BY <1>0, <1>n, <2>2, UpdateExposure
  <2>4. Size' \in Nat /\ Size' <= Size + 1  BY <1>0, <1>n, <2>2, UpdateReaches
  <2>5. /\ run'.pc = IF fails THEN "unlock" ELSE "done"
        /\ run'.skip = IF switch THEN NumSkip ELSE 0
    BY <1>t, <2>1 DEF Runs
  <2>6. used'.sessions = used.sessions  BY <1>t, <2>1 DEF Counts
  <2>7. LatestResult' = LatestResult  BY <2>2 DEF resultVars, LatestResult
  <2>8. SofInv'  BY <1>i, <2>3 DEF SofInv
  <2>9. FirstInv'
    <3> SUFFICES ASSUME mFirstAiqRunning' PROVE FirstInv'
      BY DEF FirstInv
    <3>1. mFirstAiqRunning  BY <2>2 DEF engineVars
    <3>2. run'.skip = 0  BY <2>1, <2>5, <3>1
    <3>3. run'.pc \in {"unlock", "return"} => AiqMayFail
      <4>1. fails => AiqMayFail  BY <2>1, EngineAssumption
      <4>2. ~ fails => run'.pc = "done"  BY <2>5
      <4> QED  BY <4>1, <4>2
    <3>4. /\ frame = -1 /\ mLastSofSequence = -1 /\ DOMAIN mExposureDataMap = {}
          /\ used.sessions = 1 => LatestResult.mSequence = -1
      BY <1>i, <3>1 DEF FirstInv
    <3>5. DOMAIN (mExposureDataMap') = {}  BY <2>3, <3>4
    <3> QED  BY <2>2, <2>3, <2>6, <2>7, <3>2, <3>3, <3>4, <3>5 DEF FirstInv
  <2>10. SizeInv'
    <3> SUFFICES ASSUME ~ mAiqRunningForPerframe' PROVE SizeInv'
      BY DEF SizeInv
    <3>1. ~ mAiqRunningForPerframe  BY <2>2 DEF engineVars
    <3>2. Size <= kMaxExposureAppliedDelay - ExposureLag
      BY <1>i, <2>2, <3>1 DEF SizeInv
    <3>3. run'.skip \in Nat /\ run'.skip <= NumSkip  BY <2>5, BoundNumbers
    <3>4. /\ Size' <= kMaxExposureAppliedDelay - ExposureLag + 1 + NumSkip
          /\ Size' + run'.skip <= kMaxExposureAppliedDelay - ExposureLag + 1 + NumSkip
      BY <1>n, <2>4, <3>2, <3>3, BoundNumbers
    <3>5. run'.pc # "expose"  BY <2>5
    <3> QED  BY <3>4, <3>5 DEF SizeInv
  <2>11. SessionInv'  BY <1>i, <2>6 DEF SessionInv
  <2>x. IdleInv'  BY <2>5 DEF IdleInv
  <2> QED  BY <2>x, <2>8, <2>9, <2>10, <2>11 DEF BoundInv
<1>7. CASE SkipResult
  <2>1. /\ run.pc = "done" /\ run.skip > 0 /\ updateSensorExposure(used.runs, -1)
        /\ run' = [run EXCEPT !.skip = @ - 1, !.effect = effectSeq(-1)]
        /\ UNCHANGED <<statsVars, engineVars, decoder, requests, used>>
    BY <1>7 DEF SkipResult
  <2>2. frame' = frame /\ sof' = sof /\ mLastSofSequence' = mLastSofSequence
    BY <1>0, <1>n, <2>1, UpdateExposure
  <2>3. Size' \in Nat /\ Size' <= Size + 1  BY <1>0, <1>n, <2>1, UpdateReaches
  <2>4. run'.pc = "done" /\ run'.skip = run.skip - 1  BY <1>t, <2>1 DEF Runs
  <2>5. ~ mFirstAiqRunning  BY <1>i, <1>n, <2>1 DEF FirstInv
  <2>6. SofInv'  BY <1>i, <2>2 DEF SofInv
  <2>7. FirstInv'  BY <2>1, <2>5 DEF FirstInv, engineVars
  <2>8. SizeInv'
    <3> SUFFICES ASSUME ~ mAiqRunningForPerframe' PROVE SizeInv'
      BY DEF SizeInv
    <3>1. ~ mAiqRunningForPerframe  BY <2>1 DEF engineVars
    <3>2. Size + run.skip <= kMaxExposureAppliedDelay - ExposureLag + 1 + NumSkip
      BY <1>i, <2>1, <3>1 DEF SizeInv
    <3>3. /\ Size' <= kMaxExposureAppliedDelay - ExposureLag + 1 + NumSkip
          /\ Size' + run'.skip <= kMaxExposureAppliedDelay - ExposureLag + 1 + NumSkip
      BY <1>n, <2>1, <2>3, <2>4, <3>2, BoundNumbers
    <3> QED  BY <2>4, <3>3 DEF SizeInv
  <2>9. SessionInv'  BY <1>i, <2>1 DEF SessionInv
  <2>x. IdleInv'  BY <2>4 DEF IdleInv
  <2> QED  BY <2>x, <2>6, <2>7, <2>8, <2>9 DEF BoundInv
<1>8. CASE done
  <2>1. /\ run' = [run EXCEPT !.pc = "unlock"] /\ mFirstAiqRunning' = FALSE
        /\ UNCHANGED <<sensorVars, mAiqRunningForPerframe, used>>
    BY <1>8 DEF done
  <2>2. run'.pc = "unlock"  BY <1>t, <2>1 DEF Runs
  <2>3. /\ frame' = frame /\ Size' = Size /\ sof' = sof
        /\ mLastSofSequence' = mLastSofSequence
    BY <1>0, <2>1, SensorSame
  <2>4. SofInv'  BY <1>i, <2>3 DEF SofInv
  <2>5. FirstInv'  BY <2>1 DEF FirstInv
  <2>6. SizeInv'  BY <1>i, <2>1, <2>2, <2>3 DEF SizeInv
  <2>7. SessionInv'  BY <1>i, <2>1 DEF SessionInv
  <2>x. IdleInv'  BY <2>2 DEF IdleInv
  <2> QED  BY <2>x, <2>4, <2>5, <2>6, <2>7 DEF BoundInv
<1>9. CASE UnlockStats
  <2>1. /\ run.pc = "unlock" /\ run' = [run EXCEPT !.pc = "return"]
        /\ UNCHANGED <<sensorVars, resultVars, engineVars, requests, used>>
    BY <1>9 DEF UnlockStats
  <2>2. run'.pc = "return" /\ run'.skip = run.skip  BY <1>t, <2>1 DEF Runs
  <2>3. /\ frame' = frame /\ Size' = Size /\ sof' = sof
        /\ mLastSofSequence' = mLastSofSequence
        /\ mExposureDataMap' = mExposureDataMap
    BY <1>0, <2>1, SensorSame
  <2>4. LatestResult' = LatestResult  BY <2>1 DEF resultVars, LatestResult
  <2>5. SofInv'  BY <1>i, <2>3 DEF SofInv
  <2>6. FirstInv'  BY <1>i, <2>1, <2>2, <2>3, <2>4 DEF FirstInv, engineVars
  <2>7. SizeInv'  BY <1>i, <2>1, <2>2, <2>3 DEF SizeInv, engineVars
  <2>8. SessionInv'  BY <1>i, <2>1 DEF SessionInv
  <2>x. IdleInv'  BY <2>2 DEF IdleInv
  <2> QED  BY <2>x, <2>5, <2>6, <2>7, <2>8 DEF BoundInv
<1>11. CASE startEngine
  <2>1. /\ used' = [used EXCEPT !.sessions = @ + 1, !.frames = @ + 1]
        /\ ResetSensor /\ used.sessions < MaxSessions /\ run.pc = "idle"
        /\ requests' = NewRequests /\ run' = run
        /\ mAiqRunningForPerframe' = mAiqRunningForPerframe
    BY <1>11 DEF startEngine
  <2>2. /\ frame' = -1 /\ sof' = [seq |-> -1, left |-> {}] /\ mLastSofSequence' = -1
        /\ DOMAIN (mExposureDataMap') = {}
    BY <1>0, <2>1, SensorReset
  <2>3. Size' = 0  BY <2>2, FS_EmptySet DEF Size
  <2>4. used'.sessions = used.sessions + 1  BY <1>t, <2>1 DEF Counts
  <2>5. used'.sessions # 1 /\ SessionInv'
    BY <1>i, <1>n, <2>1, <2>4, BoundNumbers DEF SessionInv
  <2>6. SofInv'  BY <2>2 DEF SofInv
  <2>7. run'.skip = 0  BY <1>i, <2>1 DEF IdleInv
  <2>9. FirstInv'  BY <2>1, <2>2, <2>5, <2>7 DEF FirstInv
  <2>10. SizeInv'  BY <2>1, <2>3, BoundNumbers DEF SizeInv
  <2>x. IdleInv'  BY <2>7 DEF IdleInv
  <2> QED  BY <2>x, <2>5, <2>6, <2>9, <2>10 DEF BoundInv
<1>10. CASE Return
  <2>1. /\ run' = NoRun
        /\ UNCHANGED <<sensorVars, resultVars, mAiqRunningForPerframe, mFirstAiqRunning,
                       used>>
    BY <1>10 DEF Return
  <2>2. run'.pc = "idle" /\ run'.skip = 0  BY <2>1 DEF NoRun
  <2>3. /\ frame' = frame /\ Size' = Size /\ sof' = sof
        /\ mLastSofSequence' = mLastSofSequence
        /\ mExposureDataMap' = mExposureDataMap
    BY <1>0, <2>1, SensorSame
  <2>4. LatestResult' = LatestResult  BY <2>1 DEF resultVars, LatestResult
  <2>5. SofInv'  BY <1>i, <2>3 DEF SofInv
  <2>6. FirstInv'  BY <1>i, <2>1, <2>2, <2>3, <2>4 DEF FirstInv
  <2>7. SizeInv'  BY <1>i, <2>1, <2>2, <2>3 DEF SizeInv
  <2>8. SessionInv'  BY <1>i, <2>1 DEF SessionInv
  <2>x. IdleInv'  BY <2>2 DEF IdleInv
  <2> QED  BY <2>x, <2>5, <2>6, <2>7, <2>8 DEF BoundInv
<1> QED
  BY <1>1, <1>2, <1>3, <1>4, <1>5, <1>6, <1>7, <1>8, <1>9, <1>10, <1>11 DEF Next

\* The members and the threads keep their types, for every sensor, and without
\* per-frame control mExposureDataMap stays within what needRun3A() allows, however
\* many SOFs are lost.
THEOREM TypeCorrect == Spec => []TypeOK
<1>1. Init => Types /\ BoundInv  BY TypesInit, BoundInit
<1>2. Types /\ BoundInv /\ [Next]_vars => (Types /\ BoundInv)'
  BY TypesStep, BoundStep
<1>3. Types /\ BoundInv => TypeOK
  BY DEF Types, BoundInv, SizeInv, TypeOK
<1> QED  BY <1>1, <1>2, <1>3, PTL DEF Spec

-----------------------------------------------------------------------------
(* The order of the effect sequences.                                      *)

\* A run that fails leaves the result of the session before as the newest one.
NoFailureAfterRestart == ~ AiqMayFail \/ MaxSessions <= 1

\* What was within reach stays within reach when the last SOF stays the same and no
\* exposure is taken out of the map.
LEMMA ReachKept ==
    ASSUME SensorType, Size' \in Nat, Size <= Size', mLastSofSequence' = mLastSofSequence,
           NEW e \in Int, Reach(e)
    PROVE  \/ e <= InitialSkipFrame
           \/ mLastSofSequence' >= 0 /\ e <= mLastSofSequence' + ExposureLag + Size'
<1>1. Size \in Nat /\ mLastSofSequence \in Int
  <2>1. -1 \in Frames  BY DEF Frames
  <2> QED  BY <2>1, SensorNumbers DEF SensorType, Frames
<1> DEFINE size == Size
           after == Size'
<1>2. size \in Nat /\ after \in Nat /\ size <= after  BY <1>1
<1>3. e <= InitialSkipFrame \/ (mLastSofSequence >= 0 /\ e <= mLastSofSequence + ExposureLag + size)
  BY DEF Reach
<1> HIDE DEF size, after
<1>4. \/ e <= InitialSkipFrame
      \/ mLastSofSequence >= 0 /\ e <= mLastSofSequence + ExposureLag + after
  BY <1>1, <1>2, <1>3, BoundNumbers
<1> QED  BY <1>4 DEF after

\* The order holds initially.
LEMMA EffectInit == Init => EffectInv
  BY DEF Init, EffectInv, NewRequests, NoRun

\* Every step keeps it.
LEMMA EffectStep ==
    ASSUME SkipWithinLag, NoFailureAfterRestart, Types, BoundInv, EffectInv, [Next]_vars
    PROVE  /\ EffectInv'
           /\ requests'.effect >= requests.effect \/ used'.sessions > used.sessions
<1>0. SensorType /\ StorageType /\ ThreadType  BY DEF Types
<1>i. SofInv /\ FirstInv /\ SessionInv  BY DEF BoundInv
<1>t. run \in Runs /\ used \in Counts /\ requests \in RequestMarks
  BY <1>0 DEF ThreadType, Runs, Counts, RequestMarks
<1>n. /\ Size \in Nat /\ run.applyingSeq \in Frames /\ -1 \in Frames
      /\ used.runs \in Nat /\ used.runs + 1 \in Nat /\ used.sessions \in Nat
      /\ run.effect \in Int /\ requests.effect \in Int
      /\ LatestResult.mSequence \in Int
  <2>1. -1 \in Frames  BY DEF Frames
  <2>2. LatestResult.mSequence \in Frames  BY <1>0, LatestType
  <2> QED
    BY <1>0, <1>t, <2>1, <2>2, SensorNumbers DEF Runs, Counts, RequestMarks, Frames
\* the threads that have no part in the order
<1>1. CASE SensorFrame \/ RequestsSof \/ decodeStatsData \/ GiveUp
              \/ UNCHANGED vars
  <2>1. /\ UNCHANGED <<resultVars, engineVars, run>>
        /\ waiting' = waiting /\ mLastSofSequence' = mLastSofSequence
    BY <1>1 DEF SensorFrame, RequestsSof, decodeStatsData,
       AcquireStats, FillStats, UpdateStats, DecodeStats, GiveUp, vars,
       NextFrame, sensorVars
  <2>2. requests'.effect = requests.effect
    BY <1>1, <1>t
    DEF SensorFrame, RequestsSof, decodeStatsData,
       AcquireStats, FillStats, UpdateStats, DecodeStats, GiveUp, vars, RequestMarks
  <2>3. Size' = Size  BY <2>1 DEF Size, mExposureDataMap
  <2>4. LatestResult' = LatestResult /\ mCurrentIndex' = mCurrentIndex
    BY <2>1 DEF resultVars, LatestResult
  <2>5. EffectInv'
    BY <2>1, <2>2, <2>3, <2>4 DEF EffectInv, Reach, engineVars
  <2> QED  BY <1>n, <2>2, <2>5
<1>2. CASE handleEvent
  <2>1. run.pc = "idle" /\ handleSofEvent  BY <1>2 DEF handleEvent
  <2>2. UNCHANGED <<resultVars, engineVars, run, requests>>  BY <1>2 DEF handleEvent
  <2>3. \A e \in Int : Reach(e) =>
           \/ e <= InitialSkipFrame
           \/ mLastSofSequence' >= 0 /\ e <= mLastSofSequence' + ExposureLag + Size'
    BY <1>0, <1>i, <2>1, SofReaches
  <2>4. LatestResult' = LatestResult /\ mCurrentIndex' = mCurrentIndex
    BY <2>2 DEF resultVars, LatestResult
  <2>5. EffectInv'
    BY <1>n, <2>1, <2>2, <2>3, <2>4 DEF EffectInv, Reach, engineVars
  <2> QED  BY <1>n, <2>2, <2>5
<1>3. CASE run3A
  <2> DEFINE stats == IF mFirstAiqRunning THEN -1 ELSE LockableStats
  <2>1. PICK seq \in IF mAiqRunningForPerframe THEN ApplyingSeqs ELSE {-1} :
           /\ requests' = [requests EXCEPT !.applied = seq]
           /\ run' = [NoRun EXCEPT !.pc = IF needRun3A(stats) THEN "expose" ELSE "unlock",
                                   !.applyingSeq = seq, !.stats = stats,
                                   !.seq = IF stats = -1 THEN -1
                                           ELSE mAiqStatistics[stats].mSequence]
    BY <1>3 DEF run3A
  <2> HIDE DEF stats
  <2>2. acquireAiqResult /\ UNCHANGED <<sensorVars, mCurrentIndex, engineVars>>
    BY <1>3 DEF run3A
  <2>3. requests'.effect = requests.effect  BY <1>t, <2>1 DEF RequestMarks
  <2>4. run'.pc # "done"  BY <2>1 DEF NoRun
  <2>5. Size' = Size /\ mLastSofSequence' = mLastSofSequence
    BY <1>0, <2>2, SensorSame
  <2>6. mCurrentIndex # -1 => LatestResult' = LatestResult
    BY <1>0, <2>2, LatestAcquired
  <2>7. EffectInv'
    BY <2>2, <2>3, <2>4, <2>5, <2>6 DEF EffectInv, Reach, engineVars
  <2> QED  BY <1>n, <2>3, <2>7
\* a prediction
<1>4. CASE runAiq
  <2>1. PICK fails \in {AiqMayFail, FALSE}, switch \in BOOLEAN :
           run' = [run EXCEPT !.pc = IF fails THEN "unlock" ELSE "done",
                              !.effect = effectSeq(run.applyingSeq),
                              !.aiqRun = ~ fails, !.data = decodedStats',
                              !.skip = IF switch THEN NumSkip ELSE 0]
    BY <1>4 DEF runAiq
  <2>2. /\ updateSensorExposure(used.runs + 1, run.applyingSeq)
        /\ UNCHANGED <<resultVars, engineVars, requests>>
    BY <1>4 DEF runAiq
  <2>3. run'.effect = effectSeq(run.applyingSeq)  BY <1>t, <2>1 DEF Runs
  <2>4. mLastSofSequence' = mLastSofSequence  BY <1>0, <1>n, <2>2, UpdateExposure
  <2>5. /\ Size' \in Nat /\ Size <= Size'
        /\ \/ run'.effect <= InitialSkipFrame
           \/ mLastSofSequence' >= 0 /\ run'.effect <= mLastSofSequence' + ExposureLag + Size'
    BY <1>0, <1>n, <2>2, <2>3, UpdateReaches
  <2>6. LatestResult' = LatestResult /\ mCurrentIndex' = mCurrentIndex
    BY <2>2 DEF resultVars, LatestResult
  <2>7. Reach(LatestResult.mSequence) => LatestResult.mSequence <= run'.effect
    BY <1>0, <1>n, <2>3, PredictionReaches
  <2>8. Reach(LatestResult.mSequence) =>
           \/ LatestResult.mSequence <= InitialSkipFrame
           \/ /\ mLastSofSequence' >= 0
              /\ LatestResult.mSequence <= mLastSofSequence' + ExposureLag + Size'
    BY <1>0, <1>n, <2>4, <2>5, ReachKept
  <2>9. EffectInv'
    BY <2>2, <2>5, <2>6, <2>7, <2>8 DEF EffectInv, Reach, engineVars
  <2> QED  BY <1>n, <2>2, <2>9
<1>5. CASE SkipResult
  <2>1. /\ run.pc = "done" /\ run.skip > 0 /\ updateSensorExposure(used.runs, -1)
        /\ run' = [run EXCEPT !.skip = @ - 1, !.effect = effectSeq(-1)]
        /\ UNCHANGED <<engineVars, requests>>
    BY <1>5 DEF SkipResult
  <2>2. run'.effect = effectSeq(-1)  BY <1>t, <2>1 DEF Runs
  <2>3. ~ mFirstAiqRunning  BY <1>i, <2>1 DEF FirstInv
  <2>4. mLastSofSequence' = mLastSofSequence  BY <1>0, <1>n, <2>1, UpdateExposure
  <2>5. /\ Size' \in Nat /\ Size <= Size'
        /\ \/ run'.effect <= InitialSkipFrame
           \/ mLastSofSequence' >= 0 /\ run'.effect <= mLastSofSequence' + ExposureLag + Size'
    BY <1>0, <1>n, <2>1, <2>2, UpdateReaches
  <2>6. LatestResult'.mSequence = run.effect /\ mCurrentIndex' # -1
    BY <1>5, LatestStored
  <2>7. /\ Reach(run.effect) /\ LatestResult.mSequence <= run.effect
        /\ requests.effect <= LatestResult.mSequence
    BY <2>1, <2>3 DEF EffectInv
  <2>8. run.effect <= run'.effect  BY <1>0, <1>n, <2>2, <2>7, PredictionReaches
  <2>9. \/ run.effect <= InitialSkipFrame
        \/ mLastSofSequence' >= 0 /\ run.effect <= mLastSofSequence' + ExposureLag + Size'
    BY <1>0, <1>n, <2>4, <2>5, <2>7, ReachKept
  <2>10. requests.effect <= run.effect  BY <1>n, <2>7
  <2>11. mFirstAiqRunning' = mFirstAiqRunning /\ requests' = requests
    BY <2>1 DEF engineVars
  <2>12. EffectInv'
    BY <2>3, <2>5, <2>6, <2>8, <2>9, <2>10, <2>11 DEF EffectInv, Reach
  <2> QED  BY <1>n, <2>11, <2>12
<1>6. CASE done
  <2>1. /\ run.pc = "done" /\ run' = [run EXCEPT !.pc = "unlock"]
        /\ mFirstAiqRunning' = FALSE /\ UNCHANGED <<sensorVars, requests>>
    BY <1>6 DEF done
  <2>2. run'.pc = "unlock"  BY <1>t, <2>1 DEF Runs
  <2>3. Size' = Size /\ mLastSofSequence' = mLastSofSequence
    BY <1>0, <2>1, SensorSame
  <2>4. LatestResult'.mSequence = run.effect /\ mCurrentIndex' # -1
    BY <1>6, LatestStored
  <2>5. Reach(run.effect)  BY <2>1 DEF EffectInv
  <2>6. requests.effect <= run.effect
    <3>1. CASE mFirstAiqRunning
      <4>1. requests.effect = -1  BY <3>1 DEF EffectInv
      <4>2. run.effect \in Frames  BY <1>t DEF Runs
      <4> QED  BY <4>1, <4>2 DEF Frames
    <3>2. CASE ~ mFirstAiqRunning
      <4>1. /\ requests.effect <= LatestResult.mSequence
            /\ LatestResult.mSequence <= run.effect
        BY <2>1, <3>2 DEF EffectInv
      <4> QED  BY <1>n, <4>1
    <3> QED  BY <3>1, <3>2
  <2>7. EffectInv'
    BY <2>1, <2>2, <2>3, <2>4, <2>5, <2>6 DEF EffectInv, Reach
  <2> QED  BY <1>n, <2>1, <2>7
<1>7. CASE UnlockStats
  <2>1. /\ run' = [run EXCEPT !.pc = "return"]
        /\ UNCHANGED <<sensorVars, resultVars, engineVars, requests>>
    BY <1>7 DEF UnlockStats
  <2>2. run'.pc = "return"  BY <1>t, <2>1 DEF Runs
  <2>3. Size' = Size /\ mLastSofSequence' = mLastSofSequence
    BY <1>0, <2>1, SensorSame
  <2>4. LatestResult' = LatestResult /\ mCurrentIndex' = mCurrentIndex
    BY <2>1 DEF resultVars, LatestResult
  <2>5. EffectInv'
    BY <2>1, <2>2, <2>3, <2>4 DEF EffectInv, Reach, engineVars
  <2> QED  BY <1>n, <2>1, <2>5
\* the effect sequence is reported
<1>8. CASE Return
  <2>1. /\ run.pc = "return" /\ run' = NoRun
        /\ requests' = [requests EXCEPT !.effect = LatestResult.mSequence]
        /\ UNCHANGED <<sensorVars, resultVars, mFirstAiqRunning>>
    BY <1>8 DEF Return
  <2>2. requests'.effect = LatestResult.mSequence  BY <1>t, <2>1 DEF RequestMarks
  <2>3. run'.pc = "idle"  BY <2>1 DEF NoRun
  <2>4. Size' = Size /\ mLastSofSequence' = mLastSofSequence
    BY <1>0, <2>1, SensorSame
  <2>5. LatestResult' = LatestResult /\ mCurrentIndex' = mCurrentIndex
    BY <2>1 DEF resultVars, LatestResult
  <2>6. mFirstAiqRunning => LatestResult.mSequence = -1 /\ requests.effect = -1
    <3> SUFFICES ASSUME mFirstAiqRunning
                 PROVE  LatestResult.mSequence = -1 /\ requests.effect = -1
      OBVIOUS
    <3>1. AiqMayFail  BY <1>i, <2>1 DEF FirstInv
    <3>2. used.sessions = 1
      BY <1>i, <1>n, <3>1, BoundNumbers DEF SessionInv, NoFailureAfterRestart
    <3> QED  BY <1>i, <3>2 DEF FirstInv, EffectInv
  <2>7. requests.effect <= LatestResult.mSequence
    BY <1>n, <2>6 DEF EffectInv
  <2>8. EffectInv'
    BY <1>n, <2>1, <2>2, <2>3, <2>4, <2>5, <2>6 DEF EffectInv, Reach
  <2> QED  BY <1>n, <2>2, <2>7, <2>8
<1>9. CASE startEngine
  <2>1. /\ used' = [used EXCEPT !.sessions = @ + 1, !.frames = @ + 1]
        /\ requests' = NewRequests /\ run' = run /\ run.pc = "idle"
        /\ mFirstAiqRunning' = TRUE
    BY <1>9 DEF startEngine
  <2>2. used'.sessions = used.sessions + 1  BY <1>t, <2>1 DEF Counts
  <2>3. EffectInv'  BY <2>1 DEF EffectInv, NewRequests
  <2> QED  BY <1>n, <2>2, <2>3
<1> QED
  BY <1>1, <1>2, <1>3, <1>4, <1>5, <1>6, <1>7, <1>8, <1>9 DEF Next

\* The effect sequences that run3A() reports to the request thread never go back
\* within a session, however many SOFs are lost, exposures wait, results are skipped
\* or exposures are written at once, for every sensor whose initial skip is within its
\* exposure lag plus one, unless a run fails in a session after the first.
THEOREM EffectsStayInOrder ==
    ASSUME SkipWithinLag, NoFailureAfterRestart
    PROVE  Spec => EffectsInOrder
<1> DEFINE Inv == Types /\ BoundInv /\ EffectInv
<1>1. Init => Inv  BY TypesInit, BoundInit, EffectInit
<1>2. Inv /\ [Next]_vars => Inv'  BY TypesStep, BoundStep, EffectStep
<1>3. Inv /\ [Next]_vars =>
         [requests'.effect >= requests.effect \/ used'.sessions > used.sessions]_vars
  BY EffectStep
<1> QED  BY <1>1, <1>2, <1>3, PTL DEF Spec, EffectsInOrder

-----------------------------------------------------------------------------
(* The result of a frame.  What the registers hold in a frame, or will hold *)
(* when the SOFs to come have been handled, is compared with the result     *)
(* that is found for the frame, also for frames that are still to come.     *)

\* No run fails, 3A sees the first SOF before it runs for it, and the ring holds the
\* results of the frames that are asked for and of all that a run can be ahead.
ResultAssumption ==
    /\ ~ AiqMayFail /\ ~ EarlyFirstSof
    /\ StorageSize >= Behind + kMaxExposureAppliedDelay + NumSkip + 3

\* With per-frame control the results are judged until an exposure is missed.
Judged == mAiqRunningForPerframe => missed = {}

\* the i-th newest place of the ring, and the effect of the newest prediction
At(i) == mAiqResults[(mCurrentIndex + StorageSize - i) % StorageSize]
Latest == LatestResult.mSequence
Newest == IF run.pc = "done" THEN run.effect ELSE Latest

\* the next SOF that is handled, the entries it or a later one takes, and the value
\* of a register in frame g, unless another run changes it
NextSof == IF "3A" \in sof.left THEN sof.seq ELSE sof.seq + 1
Due(x) == {k \in DOMAIN waiting[x] : k >= NextSof}
Holds(x, g, value) ==
    \/ \E k \in Due(x) : /\ k <= g /\ waiting[x][k] = value
                         /\ \A j \in Due(x) : j <= g => j <= k
    \/ /\ \A k \in Due(x) : k > g
       /\ written[x][IF g < frame THEN g + 2 ELSE frame + 2] = value
\* the frame whose value of a register frame f is captured with
SetIn(x, f) == Max({f - Lag(x), -1})

\* The first run is done before the sensor starts; later ones know an SOF.
StartInv ==
    /\ run.pc \in {"expose", "done"} /\ ~ mFirstAiqRunning => mLastSofSequence >= 0
    /\ run.pc = "done" /\ mFirstAiqRunning => run.effect = InitialSkipFrame
    /\ ~ mFirstAiqRunning => mCurrentIndex # -1
    /\ mLastSofSequence = -1 => \A x \in Registers : DOMAIN waiting[x] = {}
    /\ requests.sof <= frame
    /\ run.pc = "expose" => run.applyingSeq <= frame + 1
    /\ run.applyingSeq # -1 => mAiqRunningForPerframe
\* RequestThread knows the newest prediction, and a run is for a later one.
AskInv ==
    ~ mFirstAiqRunning =>
        /\ run.pc = "idle" => requests.effect = Latest
        /\ run.pc = "expose" /\ mAiqRunningForPerframe =>
              Latest < run.applyingSeq + ExposureLag
\* What waits is not for later than the newest prediction, and waits for an SOF that
\* comes, unless it is missed.
WaitInv ==
    \A x \in Registers : \A k \in DOMAIN waiting[x] :
        /\ mLastSofSequence >= 0
        /\ k + Lag(x) <= Newest /\ Newest <= mLastSofSequence + ExposureLag + Size
        /\ k >= NextSof \/ waiting[x][k] \in missed
\* Predictions go up, apart from the first one,
PredictInv ==
    ~ mFirstAiqRunning =>
        /\ \/ Latest = InitialSkipFrame
           \/ mLastSofSequence >= 0 /\ Latest <= mLastSofSequence + ExposureLag + Size
        /\ run.pc = "done" =>
              /\ run.effect = mLastSofSequence + ExposureLag + Size
              /\ Latest = InitialSkipFrame \/ Latest < run.effect
\* and are not far ahead of the sensor.
Ahead == frame + kMaxExposureAppliedDelay + 1 + NumSkip
AheadInv ==
    ~ mFirstAiqRunning /\ Judged =>
        /\ Latest = InitialSkipFrame \/ Latest <= Ahead
        /\ run.pc = "done" => run.effect + run.skip <= Ahead
\* So the ring has the result of every frame in question.
Recent(m) ==
    /\ \A i \in 0..m : At(i).mSequence >= 0
    /\ \A i \in 0..m : \/ At(i).mSequence + i <= At(0).mSequence
                       \/ i = m /\ At(m).mSequence = InitialSkipFrame
    /\ m = StorageSize - 2 \/ At(m).mSequence = InitialSkipFrame
RingInv == ~ mFirstAiqRunning => \E m \in 0..(StorageSize - 2) : Recent(m)
\* The value of the newest result for a frame, and what the registers hold in it.
Value(f) == IF run.pc = "done" /\ f >= run.effect THEN used.runs
            ELSE getAiqResult(f).value
HoldInv ==
    (~ mFirstAiqRunning \/ run.pc = "done") /\ Judged =>
        \A f \in Nat : f >= InitialSkipFrame /\ f >= frame - Behind =>
            \/ Value(f) \in missed
            \/ \A x \in Registers : Holds(x, SetIn(x, f), Value(f))

-----------------------------------------------------------------------------
\* The greater of two numbers.
LEMMA MaxOfTwo ==
    ASSUME NEW a \in Int, NEW b \in Int
    PROVE  Max({a, b}) = IF a >= b THEN a ELSE b
<1> DEFINE m == IF a >= b THEN a ELSE b
<1>1. m \in {a, b} /\ \A y \in {a, b} : m >= y  OBVIOUS
<1>2. \A x \in {a, b} : (\A y \in {a, b} : x >= y) => x = m  OBVIOUS
<1> HIDE DEF m
<1>3. (CHOOSE x \in {a, b} : \A y \in {a, b} : x >= y) = m  BY <1>1, <1>2
<1> QED  BY <1>3 DEF Max, m

\* A set of natural numbers that is not empty has a least element.
LEMMA LeastNatural ==
    ASSUME NEW S \in SUBSET Nat, S # {}
    PROVE  \E x \in S : \A y \in S : x <= y
<1> DEFINE R == OpToRel(<, Nat)
<1>1. \E x \in S : \A y \in S : <<y, x>> \notin R
  BY NatLessThanWellFounded, WFMin, Zenon
<1>2. R = {r \in Nat \X Nat : r[1] < r[2]}  BY Zenon DEF OpToRel
<1> HIDE DEF R
<1>x. PICK x \in S : \A y \in S : <<y, x>> \notin R  BY <1>1
<1>3. \A y \in S : ~ (y < x)  BY <1>x, <1>2
<1> QED  BY <1>3

\* The numbers of the sensor.
LEMMA SofNumbers ==
    ASSUME SensorType, SofInv
    PROVE  /\ frame \in Int /\ frame >= -1 /\ sof.seq = frame
           /\ mLastSofSequence \in Int /\ mLastSofSequence >= -1
           /\ NextSof \in Int /\ mLastSofSequence < NextSof
           /\ NextSof \in {frame, frame + 1}
           /\ "3A" \notin sof.left => NextSof = frame + 1
           /\ "3A" \in sof.left => NextSof = frame
           /\ mLastSofSequence <= frame
  BY DEF SensorType, SofInv, NextSof, Frames

\* A register's delay and lag.
LEMMA LagFacts ==
    ASSUME NEW x \in Registers
    PROVE  /\ Delay(x) \in Int /\ Lag(x) \in Nat /\ ExposureLag \in Nat
           /\ Delay(x) + Lag(x) = ExposureLag
           /\ Delay("exposure") = 0 /\ Lag("exposure") = ExposureLag
  BY SensorAssumption DEF Registers, Delay, Lag

\* The registers after a write, at the last place and at the others.
LEMMA WriteAt ==
    ASSUME SensorType, NEW x \in Registers, NEW v \in Nat
    PROVE  /\ \A i \in 1..(frame + 1) : Write(x, v)[i] = written[x][i]
           /\ Write(x, v)[frame + 2] = v
<1>1. written[x] \in Seq(Nat) /\ Len(written[x]) = frame + 2 /\ frame \in Frames
  BY DEF SensorType
<1>2. frame + 2 \in DOMAIN written[x]  BY <1>1 DEF Frames
<1> QED  BY <1>1, <1>2 DEF Write, Frames

\* What updateSensorExposure() does to a register after the first SOF: it is written
\* now, or an entry for a later SOF is made; if neither is missed, it is in time.
LEMMA UpdateRegister ==
    ASSUME SensorType, SofInv, NEW n \in Nat, NEW a \in Frames,
           updateSensorExposure(n, a), mLastSofSequence >= 0,
           NEW x \in Registers, NEW k, k = sensorSeq(a) + Delay(x)
    PROVE  /\ k \in Int
           /\ k = mLastSofSequence =>
                 /\ written'[x] = Write(x, n) /\ waiting'[x] = waiting[x]
                 /\ n \notin missed' => k >= frame
           /\ k # mLastSofSequence =>
                 /\ written'[x] = written[x] /\ waiting'[x] = Enter(waiting[x], k, n)
                 /\ n \notin missed' => k >= NextSof
<1> DEFINE key(y) == sensorSeq(a) + Delay(y)
           now    == IF Predicted = 0 THEN Registers
                     ELSE {y \in Registers : key(y) = mLastSofSequence}
           late(y) == Predicted # 0 /\ key(y) < (IF y \in now THEN frame ELSE NextSof)
<1>1. /\ sensorSeq(a) \in Int /\ Predicted # 0
  BY SensorNumbers, SofNumbers
<1>2. k \in Int /\ key(x) = k  BY <1>1, RegisterFacts
<1>3. /\ written' = [y \in Registers |-> IF y \in now THEN Write(y, n) ELSE written[y]]
      /\ waiting' = [y \in Registers |->
                        IF y \in now THEN waiting[y] ELSE Enter(waiting[y], key(y), n)]
  BY DEF updateSensorExposure
<1>4. missed' = missed \cup (IF \E y \in Registers : late(y) THEN {n} ELSE {})
  BY DEF updateSensorExposure, NextSof
<1>5. x \in now <=> k = mLastSofSequence  BY <1>1, <1>2
<1>6. n \notin missed' => ~ late(x)  BY <1>4
<1>7. late(x) <=> k < (IF k = mLastSofSequence THEN frame ELSE NextSof)
  BY <1>1, <1>2, <1>5
<1>8. CASE k = mLastSofSequence
  <2>1. written'[x] = Write(x, n) /\ waiting'[x] = waiting[x]  BY <1>3, <1>5, <1>8
  <2>2. n \notin missed' => k >= frame  BY <1>2, <1>6, <1>7, <1>8, SofNumbers
  <2> QED  BY <1>2, <1>8, <2>1, <2>2
<1>9. CASE k # mLastSofSequence
  <2>1. written'[x] = written[x] /\ waiting'[x] = Enter(waiting[x], k, n)
    BY <1>2, <1>3, <1>5, <1>9
  <2>2. n \notin missed' => k >= NextSof  BY <1>2, <1>6, <1>7, <1>9, SofNumbers
  <2> QED  BY <1>2, <1>9, <2>1, <2>2
<1> QED  BY <1>8, <1>9

\* The missed runs are at most one more.
LEMMA MissedGrows ==
    ASSUME NEW n \in Nat, NEW a \in Frames, updateSensorExposure(n, a)
    PROVE  missed \subseteq missed' /\ missed' \subseteq missed \cup {n}
  BY DEF updateSensorExposure

\* The prediction of an update and the SOF it is for, after the first SOF.
LEMMA PredictionFor ==
    ASSUME SensorType, SofInv, NEW n \in Nat, NEW a \in Frames,
           updateSensorExposure(n, a), mLastSofSequence >= 0,
           \A k \in DOMAIN mExposureDataMap : k <= mLastSofSequence + Size
    PROVE  /\ Size' \in Nat /\ Size \in Nat /\ sensorSeq(a) \in Int
           /\ effectSeq(a) = mLastSofSequence + ExposureLag + Size'
           /\ \/ /\ a > 0 /\ a = mLastSofSequence /\ sensorSeq(a) = mLastSofSequence
                 /\ Size' = Size
              \/ /\ ~ (a > 0 /\ a = mLastSofSequence)
                 /\ sensorSeq(a) = mLastSofSequence + Size + 1 /\ Size' = Size + 1
<1> DEFINE M == DOMAIN mExposureDataMap
           K == {sensorSeq(a)} \ {mLastSofSequence}
<1>1. /\ Size \in Nat /\ IsFiniteSet(M) /\ sensorSeq(a) \in Int
      /\ Predicted # 0 /\ Predicted = mLastSofSequence + ExposureLag
      /\ Size = Cardinality(M)
  BY SensorNumbers, SofNumbers DEF Size
<1>2. mLastSofSequence \in Int  BY SofNumbers
<1>3. DOMAIN (mExposureDataMap') = M \cup K  BY <1>2, UpdateExposure
<1>4. Size' = Cardinality(M \cup K)  BY <1>3 DEF Size
<1>5. effectSeq(a) = mLastSofSequence + ExposureLag + Size'
  BY <1>1, <1>4 DEF effectSeq
<1>6. CASE a > 0 /\ a = mLastSofSequence
  <2>1. sensorSeq(a) = mLastSofSequence  BY <1>6 DEF sensorSeq
  <2>2. M \cup K = M  BY <2>1
  <2> QED  BY <1>1, <1>4, <1>5, <1>6, <2>1, <2>2
<1>7. CASE ~ (a > 0 /\ a = mLastSofSequence)
  <2>1. sensorSeq(a) = mLastSofSequence + Size + 1  BY <1>7 DEF sensorSeq
  <2>2. sensorSeq(a) # mLastSofSequence /\ sensorSeq(a) \notin M
    BY <1>1, <1>2, <2>1
  <2>3. M \cup K = M \cup {sensorSeq(a)}  BY <2>2
  <2> HIDE DEF M
  <2>4. Cardinality(M \cup {sensorSeq(a)}) = Cardinality(M) + 1
    BY <1>1, <2>2, FS_AddElement
  <2> QED  BY <1>1, <1>4, <1>5, <1>7, <2>1, <2>3, <2>4
<1> QED  BY <1>6, <1>7

\* The next frame: the values stay, and an entry for a lost SOF is missed.
LEMMA FrameHolds ==
    ASSUME SensorType, SofInv, NEW lost \in BOOLEAN, NextFrame(lost),
           NEW x \in Registers, NEW g \in Int, g >= -1, NEW v, Holds(x, g, v),
           v \notin missed'
    PROVE  Holds(x, g, v)'
<1> DEFINE s == written[x]
<1>1. /\ s \in Seq(Nat) /\ Len(s) = frame + 2 /\ frame \in Int /\ frame >= -1
      /\ NextSof = frame + 1
  BY SofNumbers, FrameBegins DEF SensorType
<1>2. /\ frame' = frame + 1 /\ waiting' = waiting /\ sof'.seq = frame + 1
      /\ sof'.left = IF lost THEN {} ELSE {"3A", "requests"}
      /\ written'[x] = Append(s, Last(s))
  BY FrameBegins DEF NextFrame
<1>3. NextSof' = IF lost THEN frame + 2 ELSE frame + 1  BY <1>1, <1>2 DEF NextSof
<1>4. DOMAIN waiting[x] \subseteq Int  BY DEF SensorType
<1>5. lost /\ frame + 1 \in DOMAIN waiting[x] => waiting[x][frame + 1] \in missed'
  BY DEF NextFrame
<1>6. Due(x)' = {k \in DOMAIN waiting[x] : k >= NextSof'}  BY <1>2 DEF Due
<1>7. \A k \in Due(x) : k \in Due(x)' \/ (lost /\ k = frame + 1)
  <2> TAKE k \in Due(x)
  <2>1. k \in DOMAIN waiting[x] /\ k \in Int /\ k >= frame + 1  BY <1>1, <1>4 DEF Due
  <2>2. k >= NextSof' \/ (lost /\ k = frame + 1)  BY <1>1, <1>3, <2>1
  <2> QED  BY <1>6, <2>1, <2>2
<1>8. Due(x)' \subseteq Due(x) /\ Due(x) \subseteq Int
  BY <1>1, <1>3, <1>4, <1>6 DEF Due
<1>9. CASE \E k \in Due(x) : /\ k <= g /\ waiting[x][k] = v
                             /\ \A j \in Due(x) : j <= g => j <= k
  <2>1. PICK k \in Due(x) : /\ k <= g /\ waiting[x][k] = v
                            /\ \A j \in Due(x) : j <= g => j <= k
    BY <1>9
  <2>2. k \in Due(x)'  BY <1>5, <1>7, <2>1 DEF Due
  <2>3. waiting'[x][k] = v /\ \A j \in Due(x)' : j <= g => j <= k
    BY <1>2, <1>8, <2>1
  <2> QED  BY <2>1, <2>2, <2>3 DEF Holds
<1>10. CASE /\ \A k \in Due(x) : k > g
            /\ s[IF g < frame THEN g + 2 ELSE frame + 2] = v
  <2>1. \A k \in Due(x)' : k > g  BY <1>8, <1>10
  <2>2. \A i \in 1..(frame + 2) : Append(s, Last(s))[i] = s[i]  BY <1>1
  <2>3. Append(s, Last(s))[frame + 3] = s[frame + 2]  BY <1>1 DEF Last
  <2>4. Append(s, Last(s))[IF g < frame + 1 THEN g + 2 ELSE frame + 1 + 2] = v
    <3>1. CASE g < frame + 1
      <4>1. g + 2 \in 1..(frame + 2) /\ s[g + 2] = v  BY <1>1, <1>10, <3>1
      <4> QED  BY <2>2, <3>1, <4>1
    <3>2. CASE ~ (g < frame + 1)
      <4>1. s[frame + 2] = v  BY <1>1, <1>10, <3>2
      <4>2. frame + 1 + 2 = frame + 3  BY <1>1
      <4> QED  BY <2>3, <3>2, <4>1, <4>2
    <3> QED  BY <3>1, <3>2
  <2> QED  BY <1>2, <2>1, <2>4 DEF Holds
<1> QED  BY <1>9, <1>10 DEF Holds

\* An SOF event: the entry of this frame becomes the value of the register.
LEMMA SofHolds ==
    ASSUME SensorType, SofInv, handleSofEvent,
           NEW x \in Registers, NEW g \in Int, g >= -1, NEW v, Holds(x, g, v)
    PROVE  Holds(x, g, v)'
<1> DEFINE q == sof.seq
           s == written[x]
           m == waiting[x]
           last == IF g < frame THEN g + 2 ELSE frame + 2
<1>1. /\ s \in Seq(Nat) /\ Len(s) = frame + 2 /\ frame \in Int /\ frame >= -1
      /\ q = frame /\ NextSof = frame /\ "3A" \in sof.left /\ frame' = frame
      /\ sof' = [sof EXCEPT !.left = @ \ {"3A"}]
  BY SofNumbers, SofHandled DEF SensorType
<1>2. sof \in [seq : Frames, left : SUBSET {"3A", "requests"}] /\ DOMAIN m \subseteq Int
  BY DEF SensorType
<1>3. sof'.seq = frame /\ "3A" \notin sof'.left  BY <1>1, <1>2
<1>4. NextSof' = frame + 1  BY <1>3 DEF NextSof
<1>5. /\ written'[x] = IF q \in DOMAIN m THEN Write(x, m[q]) ELSE s
      /\ waiting'[x] = [j \in {j \in DOMAIN m : j # q} |-> m[j]]
  BY DEF handleSofEvent, handleSensorExposure, RestrictDomain, Restrict
<1> HIDE DEF q, s, m
<1>6. Due(x) = {j \in DOMAIN m : j >= frame}  BY <1>1 DEF Due, m
<1>7. DOMAIN waiting'[x] = {j \in DOMAIN m : j # q}  BY <1>5
<1>8. Due(x)' = {j \in DOMAIN m : j > frame}
  <2>1. Due(x)' = {j \in DOMAIN waiting'[x] : j >= frame + 1}  BY <1>4 DEF Due
  <2> QED  BY <1>1, <1>2, <1>7, <2>1 DEF m
<1>9. \A j \in Due(x)' : j \in Due(x) /\ j # q /\ waiting'[x][j] = m[j] /\ j \in Int
  BY <1>1, <1>2, <1>5, <1>6, <1>8 DEF m
<1>10. CASE \E k \in Due(x) : /\ k <= g /\ waiting[x][k] = v
                              /\ \A j \in Due(x) : j <= g => j <= k
  <2>1. PICK k \in Due(x) : k <= g /\ m[k] = v /\ \A j \in Due(x) : j <= g => j <= k
    BY <1>10 DEF m
  <2>2. k \in DOMAIN m /\ k \in Int /\ k >= frame  BY <1>2, <1>6, <2>1 DEF m
  <2>3. CASE k = q
    <3>1. written'[x] = Write(x, v)  BY <1>5, <2>1, <2>2, <2>3
    <3>2. v \in Nat  BY <2>1, <2>2 DEF SensorType, m
    <3>3. Write(x, v)[frame + 2] = v  BY <3>2, WriteAt
    <3>4. ~ (g < frame)  BY <1>1, <2>1, <2>3
    <3>5. \A j \in Due(x)' : j > g  BY <1>1, <1>8, <1>9, <2>1, <2>3
    <3>6. written'[x][IF g < frame' THEN g + 2 ELSE frame' + 2] = v
      BY <1>1, <3>1, <3>3, <3>4
    <3> QED  BY <3>5, <3>6 DEF Holds
  <2>4. CASE k # q
    <3>1. k \in Due(x)'  BY <1>1, <1>8, <2>2, <2>4
    <3>2. waiting'[x][k] = v  BY <1>9, <2>1, <3>1
    <3>3. \A j \in Due(x)' : j <= g => j <= k  BY <1>9, <2>1
    <3> QED  BY <2>1, <3>1, <3>2, <3>3 DEF Holds
  <2> QED  BY <2>3, <2>4
<1>11. CASE (\A k \in Due(x) : k > g) /\ s[last] = v
  <2>1. \A k \in Due(x)' : k > g  BY <1>9, <1>11
  <2>2. written'[x][last] = v
    <3>1. CASE q \in DOMAIN m
      <4>1. q \in Due(x)  BY <1>1, <1>6, <3>1
      <4>2. g < frame  BY <1>1, <1>11, <4>1
      <4>3. last = g + 2 /\ g + 2 \in 1..(frame + 1)  BY <1>1, <4>2
      <4>4. m[q] \in Nat  BY <3>1 DEF SensorType, m
      <4>5. Write(x, m[q])[g + 2] = s[g + 2]  BY <4>3, <4>4, WriteAt DEF s
      <4> QED  BY <1>5, <1>11, <3>1, <4>3, <4>5
    <3>2. CASE q \notin DOMAIN m
      BY <1>5, <1>11, <3>2
    <3> QED  BY <3>1, <3>2
  <2>3. last = IF g < frame' THEN g + 2 ELSE frame' + 2  BY <1>1
  <2> HIDE DEF last
  <2> QED  BY <2>1, <2>2, <2>3 DEF Holds
<1> QED  BY <1>10, <1>11 DEF Holds, s

\* An update of a register for SOF k, which is later than all that wait: up to then its
\* values stay, and from then on it has the new one, if that is not missed.
LEMMA UpdateHolds ==
    ASSUME SensorType, SofInv, NEW n \in Nat, NEW a \in Frames,
           updateSensorExposure(n, a), mLastSofSequence >= 0,
           NEW x \in Registers, NEW k, k = sensorSeq(a) + Delay(x),
           \A j \in DOMAIN waiting[x] : j < k,
           NEW g \in Int, g >= -1
    PROVE  /\ \A v : Holds(x, g, v) /\ (g < k \/ k < 0) => Holds(x, g, v)'
           /\ g >= k /\ n \notin missed' => Holds(x, g, n)'
<1>1. /\ written[x] \in Seq(Nat) /\ Len(written[x]) = frame + 2 /\ frame \in Int
      /\ frame >= -1 /\ NextSof \in {frame, frame + 1} /\ mLastSofSequence <= frame
      /\ mLastSofSequence < NextSof /\ mLastSofSequence \in Int
  BY SofNumbers DEF SensorType
<1>2. frame' = frame /\ sof' = sof /\ mLastSofSequence' = mLastSofSequence
  BY UpdateExposure
<1>3. NextSof' = NextSof  BY <1>2 DEF NextSof
<1>4. DOMAIN waiting[x] \subseteq Int  BY DEF SensorType
<1>5. CASE k = mLastSofSequence
  <2>1. /\ k \in Int /\ written'[x] = Write(x, n) /\ waiting'[x] = waiting[x]
        /\ n \notin missed' => k >= frame
    BY <1>5, UpdateRegister
  <2>2. Due(x)' = Due(x)  BY <1>3, <2>1 DEF Due
  <2>3. Due(x) = {}  BY <1>1, <1>4, <1>5 DEF Due
  <2>4. ASSUME NEW v, Holds(x, g, v), g < k PROVE Holds(x, g, v)'
    <3>1. g < frame /\ g + 2 \in 1..(frame + 1)  BY <1>1, <1>5, <2>1, <2>4
    <3>2. written[x][g + 2] = v  BY <2>3, <2>4, <3>1 DEF Holds
    <3>3. written'[x][g + 2] = v  BY <2>1, <3>1, <3>2, WriteAt
    <3> QED  BY <1>2, <2>2, <2>3, <3>1, <3>3 DEF Holds
  <2>5. ASSUME g >= k, n \notin missed' PROVE Holds(x, g, n)'
    <3>1. ~ (g < frame)  BY <1>1, <2>1, <2>5
    <3>2. written'[x][frame + 2] = n  BY <2>1, WriteAt
    <3> QED  BY <1>2, <2>2, <2>3, <3>1, <3>2 DEF Holds
  <2>6. ~ (k < 0)  BY <1>5, <2>1
  <2> QED  BY <2>4, <2>5, <2>6
<1>6. CASE k # mLastSofSequence
  <2>1. /\ k \in Int /\ written'[x] = written[x] /\ waiting'[x] = Enter(waiting[x], k, n)
        /\ n \notin missed' => k >= NextSof
    BY <1>6, UpdateRegister
  <2>2. /\ DOMAIN waiting'[x] = DOMAIN waiting[x] \cup {k} /\ waiting'[x][k] = n
        /\ \A j \in DOMAIN waiting[x] : j # k => waiting'[x][j] = waiting[x][j]
    <3> DEFINE m == waiting[x]
    <3>1. waiting'[x] = Enter(m, k, n)  BY <2>1
    <3> HIDE DEF m
    <3>2. /\ DOMAIN waiting'[x] = DOMAIN m \cup {k} /\ waiting'[x][k] = n
          /\ \A j \in DOMAIN m : j # k => waiting'[x][j] = m[j]
      BY <3>1 DEF Enter
    <3> QED  BY <3>2 DEF m
  <2>3. \A j \in Due(x) : j < k /\ j \in Int /\ j \in Due(x)' /\ waiting'[x][j] = waiting[x][j]
    <3> TAKE j \in Due(x)
    <3>1. j \in DOMAIN waiting[x] /\ j >= NextSof  BY DEF Due
    <3>2. j < k /\ j \in Int  BY <1>4, <3>1
    <3>3. j # k  BY <2>1, <3>2
    <3>4. j \in DOMAIN waiting'[x] /\ waiting'[x][j] = waiting[x][j]  BY <2>2, <3>1, <3>3
    <3> QED  BY <1>3, <3>1, <3>2, <3>4 DEF Due
  <2>4. \A j \in Due(x)' : j \in Due(x) \/ (j = k /\ k >= NextSof)
    BY <1>3, <2>2 DEF Due
  <2>5. k >= NextSof => k \in Due(x)'  BY <1>3, <2>2 DEF Due
  <2>6. ASSUME NEW v, Holds(x, g, v), g < k \/ k < 0 PROVE Holds(x, g, v)'
    <3>1. \A j \in Due(x)' : j \in Due(x) \/ j > g  BY <1>1, <2>1, <2>4, <2>6
    <3>2. CASE \E i \in Due(x) : /\ i <= g /\ waiting[x][i] = v
                                 /\ \A j \in Due(x) : j <= g => j <= i
      <4>1. PICK i \in Due(x) : /\ i <= g /\ waiting[x][i] = v
                                /\ \A j \in Due(x) : j <= g => j <= i
        BY <3>2
      <4>2. i \in Due(x)' /\ waiting'[x][i] = v  BY <2>3, <4>1
      <4>3. \A j \in Due(x)' : j <= g => j <= i
        <5> SUFFICES ASSUME NEW j \in Due(x)', j <= g PROVE j <= i
          OBVIOUS
        <5>1. j \in Int  BY <2>1, <2>3, <2>4
        <5>2. j \in Due(x)  BY <3>1, <5>1
        <5> QED  BY <4>1, <5>2
      <4> QED  BY <4>1, <4>2, <4>3 DEF Holds
    <3>3. CASE /\ \A j \in Due(x) : j > g
               /\ written[x][IF g < frame THEN g + 2 ELSE frame + 2] = v
      <4>1. \A j \in Due(x)' : j > g  BY <3>1, <3>3
      <4> QED  BY <1>2, <2>1, <3>3, <4>1 DEF Holds
    <3> QED  BY <2>6, <3>2, <3>3 DEF Holds
  <2>7. ASSUME g >= k, n \notin missed' PROVE Holds(x, g, n)'
    <3>1. k \in Due(x)' /\ waiting'[x][k] = n /\ k <= g  BY <2>1, <2>2, <2>5, <2>7
    <3>2. \A j \in Due(x)' : j <= k  BY <2>1, <2>3, <2>4
    <3> QED  BY <3>1, <3>2 DEF Holds
  <2> QED  BY <2>6, <2>7
<1> QED  BY <1>5, <1>6

\* The first run writes to all registers.
LEMMA FirstHolds ==
    ASSUME SensorType, SofInv, NEW n \in Nat, NEW a \in Frames,
           updateSensorExposure(n, a), mLastSofSequence = -1, frame = -1,
           \A y \in Registers : DOMAIN waiting[y] = {},
           NEW x \in Registers, NEW g \in Int, g >= -1
    PROVE  Holds(x, g, n)' /\ DOMAIN waiting'[x] = {} /\ effectSeq(a) = InitialSkipFrame
<1>1. Predicted = 0  BY SensorNumbers, SofNumbers
<1>2. written'[x] = Write(x, n) /\ waiting'[x] = waiting[x]
  BY <1>1 DEF updateSensorExposure
<1>3. frame' = frame  BY UpdateExposure
<1>4. Due(x)' = {}  BY <1>2 DEF Due
<1>5. written'[x][frame + 2] = n  BY <1>2, WriteAt
<1>6. ~ (g < frame)  OBVIOUS
<1>7. Holds(x, g, n)'  BY <1>3, <1>4, <1>5, <1>6 DEF Holds
<1> QED  BY <1>1, <1>2, <1>7 DEF effectSeq

-----------------------------------------------------------------------------
(* The ring of results, by age.                                            *)

\* The i-th newest place of a ring.
LEMMA RingPlace ==
    ASSUME NEW n \in Nat, n >= 2, NEW k \in -1..(n - 1), NEW i \in 0..(n - 1)
    PROVE  (k + n - i) % n = IF i <= k THEN k - i ELSE k + n - i
<1> DEFINE a == k + n - i
           q == a \div n
           r == a % n
<1>1. a \in Nat /\ a < 2 * n  OBVIOUS
<1>2. q \in Nat /\ r \in 0..(n - 1) /\ a = n * q + r  BY <1>1
<1>3. (q = 0 /\ a = r) \/ (q = 1 /\ a = n + r)
  <2> HIDE DEF q, r, a
  <2>1. q < 2
    <3>1. SUFFICES ASSUME q >= 2 PROVE FALSE  BY <1>2
    <3>2. n * q >= n * 2  BY <1>2, <3>1
    <3> QED  BY <1>1, <1>2, <3>2
  <2>2. q = 0 \/ q = 1  BY <1>2, <2>1
  <2> QED  BY <1>2, <2>2
<1> HIDE DEF q, r
<1>4. a = r \/ a = n + r  BY <1>3
<1> QED  BY <1>2, <1>4 DEF r

\* The places of the results, and that of the next one.
Place(i) == IF i <= mCurrentIndex THEN mCurrentIndex - i
            ELSE mCurrentIndex + StorageSize - i

\* What is at the i-th newest place, and that the next ones are not among those.
LEMMA Places ==
    ASSUME StorageType
    PROVE  /\ \A i \in 0..(StorageSize - 1) :
                 /\ At(i) = mAiqResults[Place(i)] /\ Place(i) \in 0..(StorageSize - 1)
                 /\ At(i) \in Results /\ At(i).mSequence \in Int /\ At(i).mSequence >= -1
           /\ \A i \in 0..(StorageSize - 2) : Place(i) # NextIndex
           /\ \A i \in 0..(StorageSize - 3) : Place(i) # (NextIndex + 1) % StorageSize
           /\ NextIndex = IF mCurrentIndex = StorageSize - 1 THEN 0 ELSE mCurrentIndex + 1
           /\ mCurrentIndex # -1 => At(0) = LatestResult
<1> DEFINE n == StorageSize
           k == mCurrentIndex
<1>1. n \in Nat /\ n >= 2  BY RingSizes
<1>2. mAiqResults \in [0..(n - 1) -> Results] /\ k \in -1..(n - 1)  BY DEF StorageType
<1>3. \A j \in -1..(n - 1) : (j + 1) % n = IF j = n - 1 THEN 0 ELSE j + 1
  <2> TAKE j \in -1..(n - 1)
  <2> HIDE DEF n
  <2>1. CASE j = n - 1
    BY <1>1, <2>1
  <2>2. CASE j # n - 1
    <3>1. j + 1 \in 0..(n - 1)  BY <1>1, <2>2
    <3> QED  BY <1>1, <2>2, <3>1
  <2> QED  BY <2>1, <2>2
<1>4. NextIndex = IF k = n - 1 THEN 0 ELSE k + 1  BY <1>2, <1>3 DEF NextIndex
<1>5. (NextIndex + 1) % n = IF k = n - 1 THEN 1
                            ELSE IF k = n - 2 THEN 0 ELSE k + 2
  <2>1. NextIndex \in -1..(n - 1)  BY <1>1, <1>2, <1>4
  <2>2. (NextIndex + 1) % n = IF NextIndex = n - 1 THEN 0 ELSE NextIndex + 1
    BY <1>3, <2>1
  <2> HIDE DEF n, k
  <2> QED  BY <1>1, <1>2, <1>4, <2>2
<1>6. \A i \in 0..(n - 1) : At(i) = mAiqResults[Place(i)]
  <2> TAKE i \in 0..(n - 1)
  <2>1. (k + n - i) % n = Place(i)  BY <1>1, <1>2, RingPlace DEF Place
  <2> QED  BY <2>1 DEF At
<1>7. \A i \in 0..(n - 1) : Place(i) \in 0..(n - 1)  BY <1>1, <1>2 DEF Place
<1>8. \A i \in 0..(n - 1) : /\ At(i) \in Results /\ At(i).mSequence \in Int
                            /\ At(i).mSequence >= -1
  BY <1>2, <1>6, <1>7 DEF Results, Frames
<1>9. \A i \in 0..(n - 2) : Place(i) # NextIndex  BY <1>1, <1>2, <1>4 DEF Place
<1>10. \A i \in 0..(n - 3) : Place(i) # (NextIndex + 1) % n
  BY <1>1, <1>2, <1>5 DEF Place
<1>11. k # -1 => At(0) = LatestResult
  <2>1. 0 \in 0..(n - 1)  BY <1>1
  <2>2. k # -1 => Place(0) = k  BY <1>2 DEF Place
  <2> QED  BY <1>6, <2>1, <2>2 DEF LatestResult
<1> QED  BY <1>4, <1>6, <1>7, <1>8, <1>9, <1>10, <1>11

\* When the next result is acquired, the others stay.
LEMMA AcquiredAt ==
    ASSUME StorageType, acquireAiqResult, mCurrentIndex' = mCurrentIndex
    PROVE  \A i \in 0..(StorageSize - 2) : At(i)' = At(i)
<1> TAKE i \in 0..(StorageSize - 2)
<1>1. StorageSize \in Nat /\ StorageSize >= 2 /\ i \in 0..(StorageSize - 1)  BY RingSizes
<1>2. mAiqResults \in [0..(StorageSize - 1) -> Results]  BY DEF StorageType
<1>3. mAiqResults' = [mAiqResults EXCEPT ![NextIndex].mSequence = -1]
  BY DEF acquireAiqResult
<1>4. (mCurrentIndex + StorageSize - i) % StorageSize = Place(i)
  BY <1>1, RingPlace DEF Place, StorageType
<1>5. Place(i) # NextIndex /\ Place(i) \in 0..(StorageSize - 1)  BY <1>1, Places
<1>6. At(i)' = mAiqResults'[Place(i)]  BY <1>4 DEF At
<1>7. At(i) = mAiqResults[Place(i)]  BY <1>4 DEF At
<1> QED  BY <1>2, <1>3, <1>5, <1>6, <1>7

\* When a result is stored, it is the newest one, and the others are one older.
LEMMA StoredAt ==
    ASSUME Types, done \/ SkipResult
    PROVE  /\ At(0)'.mSequence = run.effect /\ At(0)'.value = used.runs
           /\ \A i \in 0..(StorageSize - 3) : At(i + 1)' = At(i)
           /\ mCurrentIndex' # -1
<1> DEFINE n == StorageSize
           k == mCurrentIndex
<1>0. StorageType  BY DEF Types
<1>1. n \in Nat /\ n >= 2 /\ k \in -1..(n - 1)  BY <1>0, RingSizes DEF StorageType
<1>2. mAiqResults \in [0..(n - 1) -> Results]  BY <1>0 DEF StorageType
<1>3. /\ mCurrentIndex' = NextIndex /\ NextIndex \in 0..(n - 1)
      /\ NextIndex = IF k = n - 1 THEN 0 ELSE k + 1
      /\ (NextIndex + 1) % n \in 0..(n - 1) /\ (NextIndex + 1) % n # NextIndex
  BY <1>0, Places, NextSlots DEF done, SkipResult, updateAiqResult
<1>4. \E skip \in BOOLEAN : mAiqResults'[NextIndex] = Result(skip)
  BY <1>2, <1>3 DEF done, SkipResult, updateAiqResult
<1>5. \A p \in 0..(n - 1) : p # NextIndex /\ p # (NextIndex + 1) % n =>
                               mAiqResults'[p] = mAiqResults[p]
  BY <1>2, <1>3 DEF done, SkipResult, updateAiqResult
<1>6. At(0)' = mAiqResults'[NextIndex]
  <2> DEFINE h == NextIndex
  <2>1. h \in -1..(n - 1) /\ 0 \in 0..(n - 1) /\ 0 <= h  BY <1>1, <1>3
  <2> HIDE DEF h
  <2>2. (h + n - 0) % n = h - 0  BY <1>1, <2>1, RingPlace
  <2>3. h - 0 = h  BY <2>1
  <2> QED  BY <1>3, <2>2, <2>3 DEF At, h
<1>7. \A i \in 0..(n - 3) : At(i + 1)' = At(i)
  <2> TAKE i \in 0..(n - 3)
  <2>1. i \in 0..(n - 1) /\ i + 1 \in 0..(n - 1) /\ i \in 0..(n - 2)  BY <1>1
  <2> DEFINE j == i + 1
             h == NextIndex
  <2>2. h \in -1..(n - 1) /\ j \in 0..(n - 1)  BY <1>1, <1>3, <2>1
  <2> HIDE DEF j, h
  <2>3. (h + n - j) % n = IF j <= h THEN h - j ELSE h + n - j
    BY <1>1, <2>2, RingPlace
  <2>4. (h + n - j) % n = Place(i)
    BY <1>1, <1>3, <2>1, <2>2, <2>3 DEF Place, j, h
  <2>5. At(j)' = mAiqResults'[Place(i)]  BY <1>3, <2>4 DEF At, h
  <2>6. /\ Place(i) # NextIndex /\ Place(i) # (NextIndex + 1) % n
        /\ Place(i) \in 0..(n - 1) /\ At(i) = mAiqResults[Place(i)]
    BY <1>0, <2>1, Places
  <2> QED  BY <1>5, <2>5, <2>6 DEF j
<1> QED  BY <1>1, <1>3, <1>4, <1>6, <1>7 DEF Result

\* the i-th newest result is the one that getAiqResult(f) finds
Found(f, i) == /\ At(i).mSequence \in 0..f
               /\ \A j \in 0..(i - 1) : At(j).mSequence \notin 0..f

\* getAiqResult() finds it.
LEMMA FoundIs ==
    ASSUME StorageType, NEW f \in Nat, NEW i \in 0..(StorageSize - 1), Found(f, i)
    PROVE  getAiqResult(f) = At(i)
<1> DEFINE fits == {j \in 0..(StorageSize - 1) : At(j).mSequence >= 0 /\ f >= At(j).mSequence}
<1>1. \A j \in 0..(StorageSize - 1) : At(j).mSequence \in Int  BY Places
<1>2. StorageSize \in Nat  BY RingSizes
<1>3. i \in fits  BY <1>1 DEF Found
<1>4. \A j \in fits : i <= j
  <2> SUFFICES ASSUME NEW j \in fits, j < i PROVE FALSE
    BY <1>2
  <2>1. j \in 0..(i - 1)  BY <1>2
  <2>2. At(j).mSequence \in 0..f  BY <1>1
  <2> QED  BY <2>1, <2>2 DEF Found
<1>5. getAiqResult(f) = IF fits = {} THEN NoResult
                        ELSE At(CHOOSE j \in fits : \A h \in fits : j <= h)
  BY DEF getAiqResult, At
<1>6. fits \subseteq Int  BY <1>2
<1> HIDE DEF fits
<1>7. \A j \in fits : (\A h \in fits : j <= h) => j = i  BY <1>3, <1>4, <1>6
<1>8. (CHOOSE j \in fits : \A h \in fits : j <= h) = i  BY <1>3, <1>4, <1>7
<1> QED  BY <1>3, <1>5, <1>8

\* A result that is not for a later frame is found, or a newer one.
LEMMA NewerFound ==
    ASSUME StorageType, NEW f \in Nat, NEW m \in 0..(StorageSize - 1),
           At(m).mSequence \in 0..f
    PROVE  \E i \in 0..m : Found(f, i)
<1> DEFINE S == {i \in 0..m : At(i).mSequence \in 0..f}
<1>1. m \in Nat  BY RingSizes
<1>2. m \in S /\ S \subseteq Nat  BY <1>1
<1>3. PICK i \in S : \A j \in S : i <= j
  <2> HIDE DEF S
  <2> QED  BY <1>2, LeastNatural
<1>4. \A j \in 0..(i - 1) : At(j).mSequence \notin 0..f
  <2> SUFFICES ASSUME NEW j \in 0..(i - 1), At(j).mSequence \in 0..f PROVE FALSE
    OBVIOUS
  <2>1. j \in S  BY <1>1
  <2> QED  BY <1>1, <1>3, <2>1
<1> QED  BY <1>3, <1>4 DEF Found

\* The ring has the result of each frame that is asked for.
LEMMA Covered ==
    ASSUME ResultAssumption, StorageType, frame \in Int, ~ mFirstAiqRunning, Judged,
           StartInv, AheadInv, RingInv,
           NEW f \in Nat, f >= InitialSkipFrame, f >= frame - Behind
    PROVE  \E i \in 0..(StorageSize - 2) : Found(f, i)
<1>1. /\ StorageSize \in Nat /\ InitialSkipFrame \in Nat /\ Behind \in Nat
      /\ kMaxExposureAppliedDelay \in Nat /\ NumSkip \in Nat
      /\ StorageSize >= Behind + kMaxExposureAppliedDelay + NumSkip + 3
  BY RingSizes, BoundNumbers, EngineAssumption DEF ResultAssumption
<1>2. PICK m \in 0..(StorageSize - 2) : Recent(m)  BY DEF RingInv
<1>3. At(0).mSequence = Latest  BY Places DEF StartInv, Latest
<1>4. m \in 0..(StorageSize - 1) /\ 0 \in 0..(StorageSize - 1)  BY <1>1
<1>5. At(m).mSequence \in Int /\ Latest \in Int  BY <1>3, <1>4, Places
<1>6. Latest = InitialSkipFrame \/ Latest <= Ahead  BY DEF AheadInv
<1>7. /\ At(m).mSequence >= 0
      /\ \/ At(m).mSequence = InitialSkipFrame
         \/ m = StorageSize - 2 /\ At(m).mSequence + m <= Latest
  <2>1. m \in 0..m  BY <1>1
  <2> QED  BY <1>2, <1>3, <2>1 DEF Recent
<1>8. At(m).mSequence \in 0..f
  <2>1. CASE At(m).mSequence = InitialSkipFrame
    BY <1>1, <2>1
  <2>2. CASE m = StorageSize - 2 /\ At(m).mSequence + m <= Latest
    <3> DEFINE s == At(m).mSequence
    <3>1. s \in Int /\ s >= 0 /\ s + m <= Latest  BY <1>5, <1>7, <2>2
    <3> HIDE DEF s
    <3>2. s <= f  BY <1>1, <1>5, <1>6, <2>2, <3>1 DEF Ahead
    <3> QED  BY <3>1, <3>2 DEF s
  <2> QED  BY <1>7, <2>1, <2>2
<1>9. PICK i \in 0..m : Found(f, i)  BY <1>4, <1>8, NewerFound
<1>10. i \in 0..(StorageSize - 2)  BY <1>1
<1> QED  BY <1>9, <1>10

\* A result that is stored has a later frame than the ones before, apart from the first.
LEMMA RecentKept ==
    ASSUME ResultAssumption, Types, done \/ SkipResult, run.effect \in Nat,
           \/ mFirstAiqRunning /\ run.effect = InitialSkipFrame
           \/ /\ ~ mFirstAiqRunning /\ mCurrentIndex # -1 /\ RingInv
              /\ Latest = InitialSkipFrame \/ Latest < run.effect
    PROVE  \E m \in 0..(StorageSize - 2) : Recent(m)'
<1> DEFINE e == run.effect
           n == StorageSize
<1>1. n \in Nat /\ n >= 3 /\ e \in Nat /\ 0 \in 0..(n - 1)
  BY RingSizes, EngineAssumption DEF ResultAssumption
<1>2. /\ At(0)'.mSequence = e /\ \A i \in 0..(n - 3) : At(i + 1)' = At(i)
  BY StoredAt
<1>3. \A i \in 1..(n - 2) : At(i)' = At(i - 1)
  <2> TAKE i \in 1..(n - 2)
  <2>1. i - 1 \in 0..(n - 3) /\ (i - 1) + 1 = i  BY <1>1
  <2>2. At((i - 1) + 1)' = At(i - 1)  BY <1>2, <2>1
  <2> QED  BY <2>1, <2>2
<1>4. \A i \in 0..(n - 1) : At(i).mSequence \in Int /\ At(i).mSequence >= -1
  BY Places DEF Types
<1> HIDE DEF e, n
<1>5. CASE mFirstAiqRunning /\ e = InitialSkipFrame
  <2>1. Recent(0)'  BY <1>1, <1>2, <1>5 DEF Recent
  <2> QED  BY <1>1, <2>1 DEF n
<1>6. CASE /\ ~ mFirstAiqRunning /\ mCurrentIndex # -1 /\ RingInv
           /\ Latest = InitialSkipFrame \/ Latest < e
  <2>1. At(0).mSequence = Latest /\ Latest \in Int
    BY <1>1, <1>4, <1>6, Places DEF Latest, Types
  <2>2. CASE Latest = InitialSkipFrame
    <3>1. 1 \in 1..(n - 2) /\ 1 - 1 = 0  BY <1>1
    <3>2. At(1)'.mSequence = InitialSkipFrame  BY <1>3, <2>1, <2>2, <3>1
    <3>3. InitialSkipFrame \in Nat  BY BoundNumbers
    <3>4. Recent(1)'
      <4>1. \A i \in 0..1 : i = 0 \/ i = 1  OBVIOUS
      <4>2. \A i \in 0..1 : At(i)'.mSequence >= 0  BY <1>1, <1>2, <3>2, <3>3, <4>1
      <4>3. \A i \in 0..1 : \/ At(i)'.mSequence + i <= At(0)'.mSequence
                            \/ i = 1 /\ At(1)'.mSequence = InitialSkipFrame
        BY <1>1, <1>2, <3>2, <4>1
      <4> QED  BY <3>2, <4>2, <4>3 DEF Recent
    <3> QED  BY <1>1, <3>4 DEF n
  <2>3. CASE Latest < e
    <3>1. PICK m \in 0..(n - 2) : Recent(m)  BY <1>6 DEF RingInv, n
    <3> DEFINE h == IF m = n - 2 THEN n - 2 ELSE m + 1
    <3>2. h \in 0..(n - 2) /\ h \in Nat  BY <1>1
    <3>3. ASSUME NEW i \in 0..h
          PROVE  /\ At(i)'.mSequence >= 0
                 /\ \/ At(i)'.mSequence + i <= e
                    \/ i = h /\ At(h)'.mSequence = InitialSkipFrame
      <4>1. CASE i = 0
        BY <1>1, <1>2, <4>1
      <4>2. CASE i # 0
        <5> DEFINE j == i - 1
                   s == At(j).mSequence
        <5>1. i \in 1..(n - 2) /\ j \in 0..m /\ j \in 0..(n - 1) /\ i = j + 1
          BY <1>1, <3>2, <4>2
        <5>2. At(i)' = At(j)  BY <1>3, <5>1
        <5>3. s \in Int  BY <1>4, <5>1
        <5> HIDE DEF j
        <5>4. /\ s >= 0
              /\ s + j <= Latest \/ (j = m /\ At(m).mSequence = InitialSkipFrame)
          BY <2>1, <3>1, <5>1 DEF Recent
        <5>5. CASE s + j <= Latest
          <6> HIDE DEF s
          <6>1. s + i <= e  BY <1>1, <2>1, <2>3, <5>1, <5>3, <5>5
          <6> QED  BY <5>2, <5>4, <6>1 DEF s
        <5>6. CASE j = m /\ At(m).mSequence = InitialSkipFrame
          <6>1. i = h  BY <1>1, <3>2, <5>1, <5>6
          <6> QED  BY <5>2, <5>4, <5>6, <6>1
        <5> QED  BY <5>4, <5>5, <5>6
      <4> QED  BY <4>1, <4>2
    <3>4. h = n - 2 \/ At(h)'.mSequence = InitialSkipFrame
      <4> SUFFICES ASSUME h # n - 2 PROVE At(h)'.mSequence = InitialSkipFrame
        OBVIOUS
      <4>1. m # n - 2 /\ h = m + 1 /\ h \in 1..(n - 2) /\ h - 1 = m  BY <1>1, <3>2
      <4>2. At(m).mSequence = InitialSkipFrame  BY <3>1, <4>1 DEF Recent, n
      <4>3. At(h)' = At(h - 1)  BY <1>3, <4>1
      <4> QED  BY <4>1, <4>2, <4>3
    <3> HIDE DEF h
    <3>5. Recent(h)'  BY <1>2, <3>3, <3>4 DEF Recent, n
    <3> QED  BY <3>2, <3>5 DEF n
  <2> QED  BY <1>6, <2>2, <2>3
<1> QED  BY <1>5, <1>6 DEF e

\* An entry of mExposureDataMap is not later than those counted by Size.
LEMMA ExposureKeys ==
    ASSUME SensorType, WaitInv, Newest \in Int, mLastSofSequence \in Int
    PROVE  \A k \in DOMAIN mExposureDataMap :
              k \in Int /\ k + ExposureLag <= Newest /\ k <= mLastSofSequence + Size
<1> TAKE k \in DOMAIN mExposureDataMap
<1>1. "exposure" \in Registers /\ Lag("exposure") = ExposureLag /\ ExposureLag \in Nat
  BY RegisterFacts, LagFacts
<1>2. k \in DOMAIN waiting["exposure"] /\ k \in Int
  BY <1>1 DEF mExposureDataMap, SensorType
<1>3. /\ k + ExposureLag <= Newest
      /\ Newest <= mLastSofSequence + ExposureLag + Size
  BY <1>1, <1>2 DEF WaitInv
<1>4. Size \in Nat
  <2>1. -1 \in Frames  BY DEF Frames
  <2> QED  BY <2>1, SensorNumbers
<1> QED  BY <1>1, <1>2, <1>3, <1>4

\* An update after the first SOF, of an exposure that is later than the newest
\* prediction: the new prediction is the newest one, and the SOF it is for is later than
\* all that wait, for every register.
LEMMA UpdateOrder ==
    ASSUME SensorType, SofInv, WaitInv, Newest \in Int,
           NEW n \in Nat, NEW a \in Frames, updateSensorExposure(n, a),
           mLastSofSequence >= 0,
           a > 0 /\ a = mLastSofSequence => Newest < a + ExposureLag
    PROVE  /\ effectSeq(a) \in Nat /\ Size \in Nat /\ Size' \in Nat
           /\ effectSeq(a) = mLastSofSequence + ExposureLag + Size'
           /\ Size' = Size \/ Size' = Size + 1
           /\ Newest <= mLastSofSequence + ExposureLag + Size => Newest < effectSeq(a)
           /\ ~ (a > 0 /\ a = mLastSofSequence) => Size' = Size + 1
           /\ \A x \in Registers :
                 LET k == sensorSeq(a) + Delay(x) IN
                 /\ k \in Int /\ k + Lag(x) <= effectSeq(a)
                 /\ \A j \in DOMAIN waiting[x] : j < k
                 /\ Size = 0 \/ ~ (a > 0 /\ a = mLastSofSequence) => k + Lag(x) = effectSeq(a)
<1> DEFINE L == mLastSofSequence
           e == effectSeq(a)
           q == sensorSeq(a)
           A == a > 0 /\ a = L
<1>1. L \in Int /\ ExposureLag \in Nat  BY SofNumbers, BoundNumbers
<1>2. \A k \in DOMAIN mExposureDataMap : k <= L + Size  BY <1>1, ExposureKeys
<1>3. /\ Size' \in Nat /\ Size \in Nat /\ q \in Int
      /\ e = L + ExposureLag + Size'
      /\ \/ A /\ q = L /\ Size' = Size
         \/ ~ A /\ q = L + Size + 1 /\ Size' = Size + 1
  BY <1>2, PredictionFor
<1>a. A => Newest < L + ExposureLag  OBVIOUS
<1> DEFINE S == Size
           T == Size'
           N == Newest
<1>4. /\ S \in Nat /\ T \in Nat /\ N \in Int /\ q \in Int /\ e = L + ExposureLag + T
      /\ \/ A /\ q = L /\ T = S
         \/ ~ A /\ q = L + S + 1 /\ T = S + 1
      /\ A => N < L + ExposureLag
      /\ L >= 0
  BY <1>3, <1>a
<1>5. \A x \in Registers : \A j \in DOMAIN waiting[x] :
         j \in Int /\ j + Lag(x) <= N /\ N <= L + ExposureLag + S
  BY DEF WaitInv, SensorType
<1> HIDE DEF S, T, N, e, q, L, A
<1>6. e \in Nat /\ (N <= L + ExposureLag + S => N < e)  BY <1>1, <1>4
<1>7. ASSUME NEW x \in Registers
      PROVE  LET k == q + Delay(x) IN
             /\ k \in Int /\ k + Lag(x) <= e
             /\ \A j \in DOMAIN waiting[x] : j < k
             /\ S = 0 \/ ~ A => k + Lag(x) = e
  <2> DEFINE k == q + Delay(x)
             l == Lag(x)
             d == Delay(x)
  <2>1. d \in Int /\ l \in Nat /\ d + l = ExposureLag  BY LagFacts
  <2>2. k = q + d  OBVIOUS
  <2> HIDE DEF k, l, d
  <2>3. k \in Int /\ k + l = q + ExposureLag  BY <1>4, <2>1, <2>2
  <2>4. k + l <= e /\ (S = 0 \/ ~ A => k + l = e)  BY <1>1, <1>4, <2>3
  <2>5. ASSUME NEW j \in DOMAIN waiting[x] PROVE j < k
    <3>1. j \in Int /\ j + l <= N /\ N <= L + ExposureLag + S  BY <1>5 DEF l
    <3>2. N < q + ExposureLag  BY <1>1, <1>4, <3>1
    <3>3. j + l < k + l  BY <1>1, <1>4, <2>1, <2>3, <3>1, <3>2
    <3> QED  BY <2>1, <2>3, <3>1, <3>3
  <2> QED  BY <2>3, <2>4, <2>5 DEF k, l
<1>8. /\ T = S \/ T = S + 1
      /\ ~ A => T = S + 1
  BY <1>4
<1> QED  BY <1>3, <1>4, <1>6, <1>7, <1>8 DEF S, T, N, e, q, L, A

\* What waits after the update.
LEMMA UpdateWaits ==
    ASSUME SensorType, SofInv, WaitInv, Newest \in Int,
           NEW n \in Nat, NEW a \in Frames, updateSensorExposure(n, a),
           mLastSofSequence >= 0,
           a > 0 /\ a = mLastSofSequence => Newest < a + ExposureLag
    PROVE  \A x \in Registers : \A k \in DOMAIN waiting'[x] :
              /\ k + Lag(x) <= effectSeq(a)
              /\ k >= NextSof' \/ waiting'[x][k] \in missed'
<1> SUFFICES ASSUME NEW x \in Registers, NEW j \in DOMAIN waiting'[x]
             PROVE  /\ j + Lag(x) <= effectSeq(a)
                    /\ j >= NextSof' \/ waiting'[x][j] \in missed'
  OBVIOUS
<1> DEFINE k == sensorSeq(a) + Delay(x)
<1>1. k \in Int /\ k + Lag(x) <= effectSeq(a) /\ \A h \in DOMAIN waiting[x] : h < k
  BY UpdateOrder
<1>2. Lag(x) \in Nat /\ effectSeq(a) \in Nat  BY LagFacts, UpdateOrder
<1>3. NextSof' = NextSof /\ missed \subseteq missed'
  BY UpdateExposure, MissedGrows DEF NextSof
<1>4. k = mLastSofSequence =>  waiting'[x] = waiting[x]  BY UpdateRegister
<1>5. k # mLastSofSequence => /\ waiting'[x] = Enter(waiting[x], k, n)
                              /\ n \notin missed' => k >= NextSof
  BY UpdateRegister
<1> HIDE DEF k
<1>6. j = k \/ (j \in DOMAIN waiting[x] /\ waiting'[x][j] = waiting[x][j])
  BY <1>1, <1>4, <1>5 DEF Enter
<1>7. CASE j \in DOMAIN waiting[x] /\ waiting'[x][j] = waiting[x][j]
  <2>1. j >= NextSof \/ waiting[x][j] \in missed  BY <1>7 DEF WaitInv
  <2>2. j \in Int /\ j < k  BY <1>1, <1>7 DEF SensorType
  <2> QED  BY <1>1, <1>2, <1>3, <1>7, <2>1, <2>2
<1>8. CASE j = k /\ ~ (j \in DOMAIN waiting[x] /\ waiting'[x][j] = waiting[x][j])
  <2>1. k # mLastSofSequence  BY <1>4, <1>8
  <2>2. waiting'[x][k] = n  BY <1>5, <2>1 DEF Enter
  <2> QED  BY <1>1, <1>3, <1>5, <1>8, <2>1, <2>2
<1> QED  BY <1>6, <1>7, <1>8

-----------------------------------------------------------------------------
(* The predictions.                                                        *)

OrderInv == StartInv /\ AskInv /\ WaitInv /\ PredictInv /\ AheadInv

\* The numbers of a state.
LEMMA OrderNumbers ==
    ASSUME Types, SofInv
    PROVE  /\ run \in Runs /\ used \in Counts /\ requests \in RequestMarks
           /\ run.effect \in Int /\ run.skip \in Nat /\ run.applyingSeq \in Frames
           /\ run.pc \in Points /\ requests.sof \in Int /\ requests.effect \in Int
           /\ Latest \in Int /\ Newest \in Int /\ Size \in Nat
           /\ frame \in Int /\ frame >= -1 /\ mLastSofSequence \in Int /\ NextSof \in Int
           /\ used.runs \in Nat /\ used.runs + 1 \in Nat /\ -1 \in Frames
           /\ mAiqRunningForPerframe \in BOOLEAN /\ mFirstAiqRunning \in BOOLEAN
<1>1. -1 \in Frames /\ Frames \subseteq Int  BY DEF Frames
<1>2. run \in Runs /\ used \in Counts /\ requests \in RequestMarks
  BY DEF Types, ThreadType, Runs, Counts, RequestMarks
<1>3. run.effect \in Int /\ run.skip \in Nat /\ run.applyingSeq \in Frames /\ run.pc \in Points
  BY <1>1, <1>2 DEF Runs
<1>4. requests.sof \in Int /\ requests.effect \in Int  BY <1>1, <1>2 DEF RequestMarks
<1>5. Latest \in Int  BY <1>1, LatestType DEF Latest, Types
<1>6. Newest \in Int  BY <1>3, <1>5 DEF Newest
<1>7. Size \in Nat  BY <1>1, SensorNumbers DEF Types
<1>8. /\ frame \in Int /\ frame >= -1 /\ mLastSofSequence \in Int /\ NextSof \in Int
  BY SofNumbers DEF Types
<1>9. used.runs \in Nat /\ used.runs + 1 \in Nat  BY <1>2 DEF Counts
<1>10. mAiqRunningForPerframe \in BOOLEAN /\ mFirstAiqRunning \in BOOLEAN
  BY DEF Types, ThreadType
<1> QED  BY <1>1, <1>2, <1>3, <1>4, <1>5, <1>6, <1>7, <1>8, <1>9, <1>10

\* What holds of the predictions stays when nothing of it changes but the point of a run
\* that has no prediction yet, or has stored it.
LEMMA OrderQuiet ==
    ASSUME Types, BoundInv, OrderInv,
           waiting' = waiting, missed' = missed, mLastSofSequence' = mLastSofSequence,
           NextSof' = NextSof, frame' = frame, Size' = Size,
           ~ mFirstAiqRunning => Latest' = Latest /\ Newest' = Newest,
           mCurrentIndex' = mCurrentIndex, mFirstAiqRunning' = mFirstAiqRunning,
           mAiqRunningForPerframe' = mAiqRunningForPerframe,
           run'.pc = "done" => run' = run,
           requests'.sof <= frame,
           run'.pc = "expose" =>
              /\ ~ mFirstAiqRunning => mLastSofSequence >= 0
              /\ run'.applyingSeq <= frame + 1,
           run'.applyingSeq # -1 => mAiqRunningForPerframe,
           ~ mFirstAiqRunning =>
              /\ run'.pc = "idle" => requests'.effect = Latest
              /\ run'.pc = "expose" /\ mAiqRunningForPerframe =>
                    Latest < run'.applyingSeq + ExposureLag
    PROVE  OrderInv'
<1>1. StartInv /\ AskInv /\ WaitInv /\ PredictInv /\ AheadInv  BY DEF OrderInv
<1>2. StartInv'  BY <1>1 DEF StartInv
<1>3. AskInv'  BY DEF AskInv
<1>4. WaitInv'
  <2>1. CASE mFirstAiqRunning
    <3>1. \A x \in Registers : DOMAIN waiting[x] = {}
      BY <1>1, <2>1 DEF BoundInv, FirstInv, StartInv
    <3> QED  BY <3>1 DEF WaitInv
  <2>2. CASE ~ mFirstAiqRunning
    BY <1>1, <2>2 DEF WaitInv, Lag, Delay
  <2> QED  BY <2>1, <2>2
<1>5. PredictInv'  BY <1>1 DEF PredictInv
<1>6. AheadInv'  BY <1>1 DEF AheadInv, Judged, Ahead
<1> QED  BY <1>2, <1>3, <1>4, <1>5, <1>6 DEF OrderInv

\* The next frame.
LEMMA OrderFrame ==
    ASSUME Types, BoundInv, OrderInv, SensorFrame
    PROVE  OrderInv'
<1>0. SensorType /\ SofInv  BY DEF Types, BoundInv
<1>1. PICK lost \in BOOLEAN : NextFrame(lost)  BY DEF SensorFrame
<1>2. /\ ~ mFirstAiqRunning
      /\ UNCHANGED <<resultVars, statsVars, engineVars, run, decoder, requests>>
  BY DEF SensorFrame
<1>3. /\ frame' = frame + 1 /\ sof.left = {} /\ sof'.seq = frame + 1
      /\ mLastSofSequence' = mLastSofSequence /\ waiting' = waiting
      /\ sof'.left = IF lost THEN {} ELSE {"3A", "requests"}
      /\ missed \subseteq missed'
  BY <1>0, <1>1, FrameBegins DEF NextFrame
<1>4. Size' = Size  BY <1>3 DEF Size, mExposureDataMap
<1>5. /\ Latest' = Latest /\ Newest' = Newest /\ mCurrentIndex' = mCurrentIndex
      /\ mFirstAiqRunning' = mFirstAiqRunning /\ run' = run /\ requests' = requests
      /\ mAiqRunningForPerframe' = mAiqRunningForPerframe
  BY <1>2 DEF resultVars, engineVars, Latest, LatestResult, Newest
<1>6. /\ StartInv /\ AskInv /\ WaitInv /\ PredictInv /\ AheadInv
  BY DEF OrderInv
<1>n. /\ frame \in Int /\ requests.sof \in Int /\ run.applyingSeq \in Int
      /\ Latest \in Int /\ run.effect \in Int /\ run.skip \in Nat
      /\ NextSof = frame + 1
  <2>1. frame \in Int /\ NextSof = frame + 1  BY <1>0, <1>3, SofNumbers
  <2> QED  BY <1>0, <2>1, OrderNumbers DEF Frames
<1>7. StartInv'  BY <1>3, <1>5, <1>6, <1>n DEF StartInv
<1>8. AskInv'  BY <1>5, <1>6 DEF AskInv
<1>9. ASSUME NEW x \in Registers, NEW k \in DOMAIN waiting[x]
      PROVE  k >= NextSof' \/ waiting[x][k] \in missed'
  <2>1. k \in Int /\ (k >= frame + 1 \/ waiting[x][k] \in missed)
    BY <1>0, <1>6, <1>n DEF WaitInv, SensorType
  <2>2. NextSof' = IF lost THEN frame + 2 ELSE frame + 1  BY <1>3, <1>n DEF NextSof
  <2>3. lost /\ k = frame + 1 => waiting[x][k] \in missed'  BY <1>1 DEF NextFrame
  <2> QED  BY <1>3, <1>n, <2>1, <2>2, <2>3
<1>10. WaitInv'  BY <1>3, <1>4, <1>5, <1>6, <1>9 DEF WaitInv, Lag, Delay
<1>11. PredictInv'  BY <1>3, <1>4, <1>5, <1>6 DEF PredictInv
<1>12. Ahead' = Ahead + 1 /\ Ahead \in Int
  BY <1>3, <1>n, BoundNumbers DEF Ahead
<1>13. Judged' => Judged  BY <1>3, <1>5 DEF Judged
<1>14. AheadInv'  BY <1>5, <1>6, <1>n, <1>12, <1>13 DEF AheadInv
<1> QED  BY <1>7, <1>8, <1>10, <1>11, <1>14 DEF OrderInv

\* An SOF event takes one entry at most out of each map.
LEMMA OrderSof ==
    ASSUME Types, BoundInv, OrderInv, handleEvent
    PROVE  OrderInv'
<1>0. SensorType /\ SofInv  BY DEF Types, BoundInv
<1>1. run.pc = "idle" /\ handleSofEvent  BY DEF handleEvent
<1>2. UNCHANGED <<resultVars, statsVars, engineVars, run, decoder, requests, used>>
  BY DEF handleEvent
<1>3. /\ frame' = frame /\ "3A" \in sof.left /\ mLastSofSequence' = sof.seq
      /\ sof' = [sof EXCEPT !.left = @ \ {"3A"}]
      /\ DOMAIN (mExposureDataMap') = DOMAIN mExposureDataMap \ {sof.seq}
      /\ missed' = missed
  BY <1>0, <1>1, SofHandled DEF handleSofEvent
<1>4. /\ Latest' = Latest /\ Newest' = Newest /\ mCurrentIndex' = mCurrentIndex
      /\ mFirstAiqRunning' = mFirstAiqRunning /\ run' = run /\ requests' = requests
      /\ mAiqRunningForPerframe' = mAiqRunningForPerframe
  BY <1>2 DEF resultVars, engineVars, Latest, LatestResult, Newest
<1>6. /\ StartInv /\ AskInv /\ WaitInv /\ PredictInv /\ AheadInv
  BY DEF OrderInv
<1>n. /\ frame \in Int /\ Latest \in Int /\ Newest \in Int /\ Size \in Nat
      /\ mLastSofSequence \in Int /\ mLastSofSequence < frame /\ mLastSofSequence' = frame
      /\ NextSof = frame /\ ExposureLag \in Nat /\ mLastSofSequence >= -1
  BY <1>0, <1>3, OrderNumbers, SofNumbers, BoundNumbers
<1>7. NextSof' = frame + 1
  <2>1. sof \in [seq : Frames, left : SUBSET {"3A", "requests"}]  BY <1>0 DEF SensorType
  <2>2. sof'.seq = frame /\ "3A" \notin sof'.left  BY <1>3, <1>n, <2>1, SofNumbers, <1>0
  <2> QED  BY <2>2 DEF NextSof
<1>8. Size' \in Nat /\ Size <= Size' + 1
  <2> DEFINE M == DOMAIN mExposureDataMap
  <2>1. IsFiniteSet(M) /\ Size = Cardinality(M)
    BY <1>0, RegisterFacts DEF SensorType, mExposureDataMap, Size
  <2>2. Size' = Cardinality(M \ {sof.seq})  BY <1>3 DEF Size
  <2> HIDE DEF M
  <2>3. /\ IsFiniteSet(M \ {sof.seq})
        /\ Cardinality(M \ {sof.seq}) =
              IF sof.seq \in M THEN Cardinality(M) - 1 ELSE Cardinality(M)
    BY <2>1, FS_RemoveElement
  <2>4. Cardinality(M \ {sof.seq}) \in Nat  BY <2>3, FS_CardinalityType
  <2> QED  BY <1>n, <2>1, <2>2, <2>3, <2>4
<1>9. \A e \in Int : e <= mLastSofSequence + ExposureLag + Size =>
                        e <= mLastSofSequence' + ExposureLag + Size'
  <2> DEFINE S == Size
             T == Size'
  <2>1. S \in Nat /\ T \in Nat /\ S <= T + 1  BY <1>n, <1>8
  <2> HIDE DEF S, T
  <2>2. \A e \in Int : e <= mLastSofSequence + ExposureLag + S =>
                          e <= frame + ExposureLag + T
    BY <1>n, <2>1
  <2> QED  BY <1>n, <2>2 DEF S, T
<1>10. \A x \in Registers : \A k \in DOMAIN waiting'[x] :
          k \in DOMAIN waiting[x] /\ k # frame /\ waiting'[x][k] = waiting[x][k]
  BY <1>0, <1>1, <1>n, SofNumbers
  DEF handleSofEvent, handleSensorExposure, RestrictDomain, Restrict
<1>11. StartInv'
  <2>1. ~ (mLastSofSequence' = -1) /\ mLastSofSequence' >= 0  BY <1>n
  <2> QED  BY <1>1, <1>3, <1>4, <1>6, <2>1 DEF StartInv
<1>12. AskInv'  BY <1>4, <1>6 DEF AskInv
<1>13. WaitInv'
  <2> SUFFICES ASSUME NEW x \in Registers, NEW k \in DOMAIN waiting'[x]
               PROVE  /\ mLastSofSequence' >= 0
                      /\ k + Lag(x) <= Newest'
                      /\ Newest' <= mLastSofSequence' + ExposureLag + Size'
                      /\ k >= NextSof' \/ waiting'[x][k] \in missed'
    BY DEF WaitInv, Lag, Delay
  <2>1. k \in DOMAIN waiting[x] /\ k # frame /\ waiting'[x][k] = waiting[x][k]
    BY <1>10
  <2>2. /\ mLastSofSequence >= 0 /\ k + Lag(x) <= Newest
        /\ Newest <= mLastSofSequence + ExposureLag + Size
        /\ k >= frame \/ waiting[x][k] \in missed
    BY <1>6, <1>n, <2>1 DEF WaitInv
  <2>3. k \in Int  BY <1>0, <2>1 DEF SensorType
  <2>4. Newest <= mLastSofSequence' + ExposureLag + Size'  BY <1>9, <1>n, <2>2
  <2>5. k >= NextSof' \/ waiting'[x][k] \in missed'  BY <1>3, <1>7, <1>n, <2>1, <2>2, <2>3
  <2> QED  BY <1>4, <1>n, <2>2, <2>4, <2>5
<1>14. PredictInv'
  <2>1. mLastSofSequence' >= 0  BY <1>n
  <2> QED  BY <1>1, <1>4, <1>6, <1>9, <1>n, <2>1 DEF PredictInv
<1>15. AheadInv'  BY <1>3, <1>4, <1>6 DEF AheadInv, Judged, Ahead
<1> QED  BY <1>11, <1>12, <1>13, <1>14, <1>15 DEF OrderInv

\* The steps of the threads that have no part in the predictions.
LEMMA OrderThreads ==
    ASSUME Types, BoundInv, OrderInv,
           RequestsSof \/ decodeStatsData \/ GiveUp \/ UNCHANGED vars
    PROVE  OrderInv'
<1>0. SensorType /\ SofInv  BY DEF Types, BoundInv
<1>1. /\ UNCHANGED <<resultVars, engineVars, run>>
      /\ waiting' = waiting /\ missed' = missed /\ mLastSofSequence' = mLastSofSequence
      /\ written' = written
  BY DEF RequestsSof, decodeStatsData,
     AcquireStats, FillStats, UpdateStats, DecodeStats, GiveUp, vars, sensorVars
<1>2. sof'.seq = sof.seq /\ ("3A" \in sof'.left <=> "3A" \in sof.left)
  <2>1. sof \in [seq : Frames, left : SUBSET {"3A", "requests"}]
    BY <1>0 DEF SensorType
  <2>2. sof' = sof \/ sof' = [sof EXCEPT !.left = @ \ {"requests"}]
    BY DEF RequestsSof, decodeStatsData,
       AcquireStats, FillStats, UpdateStats, DecodeStats, GiveUp, vars, sensorVars
  <2> QED  BY <2>1, <2>2
<1>3. NextSof' = NextSof  BY <1>2 DEF NextSof
<1>4. frame' = frame /\ Size' = Size  BY <1>1 DEF frame, Size, mExposureDataMap
<1>5. /\ Latest' = Latest /\ Newest' = Newest /\ mCurrentIndex' = mCurrentIndex
      /\ mFirstAiqRunning' = mFirstAiqRunning /\ run' = run
      /\ mAiqRunningForPerframe' = mAiqRunningForPerframe
  BY <1>1 DEF resultVars, engineVars, Latest, LatestResult, Newest
<1>6. StartInv /\ AskInv  BY DEF OrderInv
<1>n. requests \in RequestMarks /\ frame \in Int /\ sof.seq = frame
  BY <1>0, OrderNumbers, SofNumbers
<1>7. requests'.effect = requests.effect /\ requests'.sof <= frame
  <2>1. \/ requests' = requests \/ requests' = [requests EXCEPT !.sof = sof.seq]
        \/ \E seq \in ApplyingSeqs : requests' = [requests EXCEPT !.applied = seq]
    BY DEF RequestsSof, decodeStatsData,
       AcquireStats, FillStats, UpdateStats, DecodeStats, GiveUp, vars
  <2>2. requests.sof <= frame  BY <1>6 DEF StartInv
  <2> QED  BY <1>n, <2>1, <2>2 DEF RequestMarks
<1>8. /\ run'.pc = "expose" => /\ ~ mFirstAiqRunning => mLastSofSequence >= 0
                               /\ run'.applyingSeq <= frame + 1
      /\ run'.applyingSeq # -1 => mAiqRunningForPerframe
  BY <1>5, <1>6 DEF StartInv
<1>9. ~ mFirstAiqRunning =>
         /\ run'.pc = "idle" => requests'.effect = Latest
         /\ run'.pc = "expose" /\ mAiqRunningForPerframe =>
               Latest < run'.applyingSeq + ExposureLag
  BY <1>5, <1>6, <1>7 DEF AskInv
<1> QED
  BY <1>0, <1>1, <1>3, <1>4, <1>5, <1>7, <1>8, <1>9, OrderQuiet

\* A run is for an SOF that is not too early.
LEMMA OrderRun ==
    ASSUME ResultAssumption, Types, BoundInv, OrderInv, run3A
    PROVE  OrderInv'
<1>0. SensorType /\ SofInv /\ StorageType /\ FirstInv  BY DEF Types, BoundInv
<1> DEFINE stats == IF mFirstAiqRunning THEN -1 ELSE LockableStats
<1>1. PICK seq \in IF mAiqRunningForPerframe THEN ApplyingSeqs ELSE {-1} :
         /\ mAiqRunningForPerframe => ~ TooEarly(seq)
         /\ requests' = [requests EXCEPT !.applied = seq]
         /\ run' = [NoRun EXCEPT !.pc = IF needRun3A(stats) THEN "expose" ELSE "unlock",
                                 !.applyingSeq = seq, !.stats = stats,
                                 !.seq = IF stats = -1 THEN -1
                                         ELSE mAiqStatistics[stats].mSequence]
  BY DEF run3A
<1> HIDE DEF stats
<1>2. /\ run.pc = "idle" /\ acquireAiqResult
      /\ frame = -1 => mFirstAiqRunning
      /\ mLastSofSequence = -1 => frame = -1
      /\ UNCHANGED <<sensorVars, mCurrentIndex, engineVars>>
  BY DEF run3A, ResultAssumption
<1>3. /\ run'.pc \in {"expose", "unlock"} /\ run'.applyingSeq = seq  BY <1>1 DEF NoRun
<1>n. /\ requests \in RequestMarks /\ frame \in Int /\ requests.sof \in Int
      /\ requests.effect \in Int /\ mLastSofSequence \in Int /\ mLastSofSequence >= -1
      /\ frame >= -1 /\ Latest \in Int /\ ExposureLag \in Nat
      /\ mAiqRunningForPerframe \in BOOLEAN
  BY <1>0, OrderNumbers, SofNumbers, BoundNumbers
<1>4. requests'.effect = requests.effect /\ requests'.sof = requests.sof
  BY <1>1, <1>n DEF RequestMarks
<1>5. StartInv /\ AskInv  BY DEF OrderInv
<1>6. seq \in Int /\ seq <= frame + 1 /\ (seq # -1 => mAiqRunningForPerframe)
  <2>1. requests.sof <= frame  BY <1>5 DEF StartInv
  <2>2. CASE mAiqRunningForPerframe
    <3>1. seq \in {requests.sof + 1, requests.sof}  BY <1>1, <2>2 DEF ApplyingSeqs
    <3> QED  BY <1>n, <2>1, <2>2, <3>1
  <2>3. CASE ~ mAiqRunningForPerframe
    <3>1. seq = -1  BY <1>1, <2>3
    <3> QED  BY <1>n, <3>1
  <2> QED  BY <2>2, <2>3
<1>7. /\ waiting' = waiting /\ missed' = missed /\ mLastSofSequence' = mLastSofSequence
      /\ NextSof' = NextSof /\ frame' = frame /\ Size' = Size
      /\ mCurrentIndex' = mCurrentIndex /\ mFirstAiqRunning' = mFirstAiqRunning
      /\ mAiqRunningForPerframe' = mAiqRunningForPerframe
  BY <1>2 DEF sensorVars, engineVars, NextSof, frame, Size, mExposureDataMap
<1>8. ~ mFirstAiqRunning => Latest' = Latest
  <2> SUFFICES ASSUME ~ mFirstAiqRunning PROVE Latest' = Latest
    OBVIOUS
  <2>1. mCurrentIndex # -1  BY <1>5 DEF StartInv
  <2> QED  BY <1>0, <1>2, <2>1, LatestAcquired DEF Latest
<1>9. ~ mFirstAiqRunning => Newest' = Newest  BY <1>2, <1>3, <1>8 DEF Newest
<1>10. ~ mFirstAiqRunning => mLastSofSequence >= 0  BY <1>2, <1>n
<1>11. ~ mFirstAiqRunning =>
         /\ run'.pc = "idle" => requests'.effect = Latest
         /\ run'.pc = "expose" /\ mAiqRunningForPerframe =>
               Latest < run'.applyingSeq + ExposureLag
  <2> SUFFICES ASSUME ~ mFirstAiqRunning, mAiqRunningForPerframe
               PROVE  Latest < run'.applyingSeq + ExposureLag
    BY <1>3
  <2>1. requests.effect = Latest  BY <1>2, <1>5 DEF AskInv
  <2>2. ~ (seq + ExposureLag <= requests.effect)  BY <1>1 DEF TooEarly
  <2> QED  BY <1>3, <1>6, <1>n, <2>1, <2>2
<1>12. requests'.sof <= frame  BY <1>4, <1>5 DEF StartInv
<1> QED
  BY <1>0, <1>3, <1>6, <1>7, <1>8, <1>9, <1>10, <1>11, <1>12, OrderQuiet

\* With per-frame control and no missed exposure one exposure waits at most.
LEMMA FewWait ==
    ASSUME Types, SofInv, WaitInv, StartInv, AskInv, ~ mFirstAiqRunning,
           run.pc = "expose", mAiqRunningForPerframe, missed = {}
    PROVE  mLastSofSequence + Size <= frame
<1> DEFINE M == DOMAIN mExposureDataMap
<1>n. /\ frame \in Int /\ Latest \in Int /\ Newest \in Int /\ Size \in Nat
      /\ mLastSofSequence \in Int /\ ExposureLag \in Nat /\ run.applyingSeq \in Int
      /\ NextSof \in {frame, frame + 1} /\ mLastSofSequence < NextSof
      /\ mLastSofSequence <= frame
  BY OrderNumbers, SofNumbers, BoundNumbers DEF Types, Frames
<1>1. Newest = Latest /\ Latest < run.applyingSeq + ExposureLag
  BY DEF Newest, AskInv
<1>2. run.applyingSeq <= frame + 1  BY DEF StartInv
<1>3. ASSUME NEW k \in M PROVE k = frame /\ NextSof = frame
  <2>1. k \in Int /\ k + ExposureLag <= Newest  BY <1>n, ExposureKeys DEF Types
  <2>2. k >= NextSof
    <3>1. "exposure" \in Registers /\ k \in DOMAIN waiting["exposure"]
      BY RegisterFacts DEF mExposureDataMap
    <3> QED  BY <3>1 DEF WaitInv
  <2> QED  BY <1>1, <1>2, <1>n, <2>1, <2>2
<1>4. CASE M = {}
  <2>1. Size = 0  BY <1>4, FS_EmptySet DEF Size
  <2> QED  BY <1>n, <2>1
<1>5. CASE M # {}
  <2>1. M = {frame} /\ NextSof = frame  BY <1>3, <1>5
  <2>2. Size = 1  BY <2>1, FS_Singleton DEF Size
  <2> QED  BY <1>n, <2>1, <2>2
<1> QED  BY <1>4, <1>5

\* A prediction.
LEMMA OrderAiq ==
    ASSUME ResultAssumption, Types, BoundInv, BoundInv', OrderInv, runAiq
    PROVE  OrderInv'
<1>0. SensorType /\ SofInv /\ FirstInv /\ SizeInv  BY DEF Types, BoundInv
<1> DEFINE n == used.runs + 1
           a == run.applyingSeq
           e == effectSeq(a)
<1>1. run.pc = "expose" /\ updateSensorExposure(n, a)  BY DEF runAiq
<1>2. PICK fails \in {AiqMayFail, FALSE}, switch \in BOOLEAN :
         run' = [run EXCEPT !.pc = IF fails THEN "unlock" ELSE "done",
                            !.effect = e, !.aiqRun = ~ fails, !.data = decodedStats',
                            !.skip = IF switch THEN NumSkip ELSE 0]
  BY DEF runAiq
<1>3. UNCHANGED <<resultVars, engineVars, requests>>  BY DEF runAiq
<1>n. /\ run \in Runs /\ n \in Nat /\ a \in Frames /\ a \in Int /\ Latest \in Int
      /\ frame \in Int /\ mLastSofSequence \in Int /\ mLastSofSequence >= -1
      /\ ExposureLag \in Nat /\ NumSkip \in Nat /\ Size \in Nat /\ Newest \in Int
      /\ mAiqRunningForPerframe \in BOOLEAN
  BY <1>0, OrderNumbers, SofNumbers, BoundNumbers DEF Frames
<1> HIDE DEF n, e
<1>4. ~ fails  BY EngineAssumption DEF ResultAssumption
<1>5. /\ run'.pc = "done" /\ run'.effect = e /\ run'.applyingSeq = a
      /\ run'.skip = IF switch THEN NumSkip ELSE 0
  BY <1>2, <1>4, <1>n DEF Runs
<1>6. run'.skip \in Nat /\ run'.skip <= NumSkip  BY <1>5, <1>n
<1>7. /\ frame' = frame /\ sof' = sof /\ mLastSofSequence' = mLastSofSequence
      /\ missed \subseteq missed'
  BY <1>0, <1>1, <1>n, UpdateExposure, MissedGrows
<1>8. /\ Latest' = Latest /\ mCurrentIndex' = mCurrentIndex /\ requests' = requests
      /\ mFirstAiqRunning' = mFirstAiqRunning
      /\ mAiqRunningForPerframe' = mAiqRunningForPerframe
  BY <1>3 DEF resultVars, engineVars, Latest, LatestResult
<1>9. NextSof' = NextSof  BY <1>7 DEF NextSof
<1>10. Newest = Latest /\ Newest' = e  BY <1>1, <1>5 DEF Newest
<1>11. StartInv /\ AskInv /\ WaitInv /\ PredictInv /\ AheadInv  BY DEF OrderInv
<1>12. AskInv'  BY <1>5 DEF AskInv
<1>13. CASE mFirstAiqRunning
  <2>1. mLastSofSequence = -1 /\ frame = -1  BY <1>0, <1>13 DEF FirstInv
  <2>2. \A x \in Registers : DOMAIN waiting[x] = {}  BY <1>11, <2>1 DEF StartInv
  <2>3. -1 \in Int /\ -1 >= -1  OBVIOUS
  <2>4. \A x \in Registers : DOMAIN waiting'[x] = {}
    BY <1>0, <1>1, <1>n, <2>1, <2>2, <2>3, FirstHolds
  <2>5. e = InitialSkipFrame
    <3>1. "exposure" \in Registers  BY RegisterFacts
    <3> QED  BY <1>0, <1>1, <1>n, <2>1, <2>2, <2>3, <3>1, FirstHolds DEF e
  <2>6. StartInv'  BY <1>5, <1>7, <1>8, <1>11, <1>13, <2>4, <2>5 DEF StartInv
  <2>7. WaitInv'  BY <2>4 DEF WaitInv
  <2>8. PredictInv' /\ AheadInv'  BY <1>8, <1>13 DEF PredictInv, AheadInv
  <2> QED  BY <1>12, <2>6, <2>7, <2>8 DEF OrderInv
<1>14. CASE ~ mFirstAiqRunning
  <2>1. mLastSofSequence >= 0  BY <1>1, <1>11, <1>14 DEF StartInv
  <2>2. a > 0 /\ a = mLastSofSequence => Newest < a + ExposureLag
    <3> SUFFICES ASSUME a > 0 PROVE Newest < a + ExposureLag
      OBVIOUS
    <3>1. mAiqRunningForPerframe  BY <1>11, <1>n DEF StartInv
    <3> QED  BY <1>1, <1>10, <1>11, <1>14, <3>1 DEF AskInv
  <2>3. /\ e \in Nat /\ Size' \in Nat /\ e = mLastSofSequence + ExposureLag + Size'
        /\ Size' = Size \/ Size' = Size + 1
        /\ Newest <= mLastSofSequence + ExposureLag + Size => Newest < e
    BY <1>0, <1>1, <1>11, <1>n, <2>1, <2>2, UpdateOrder DEF e
  <2>4. \A x \in Registers : \A k \in DOMAIN waiting'[x] :
           k + Lag(x) <= e /\ (k >= NextSof' \/ waiting'[x][k] \in missed')
    BY <1>0, <1>1, <1>11, <1>n, <2>1, <2>2, UpdateWaits DEF e
  <2>5. StartInv'
    BY <1>5, <1>7, <1>8, <1>11, <1>14, <1>n, <2>1 DEF StartInv
  <2>6. WaitInv'
    <3> DEFINE T == Size'
               l == mLastSofSequence'
    <3>t. T \in Nat /\ e \in Nat /\ l \in Int /\ e = l + ExposureLag + T
      BY <1>7, <1>n, <2>3
    <3> HIDE DEF T, l
    <3>0. e <= l + ExposureLag + T  BY <1>n, <3>t
    <3>1. e <= mLastSofSequence' + ExposureLag + Size'  BY <3>0 DEF T, l
    <3>2. mLastSofSequence' >= 0  BY <1>7, <2>1
    <3> QED  BY <1>10, <2>4, <3>1, <3>2 DEF WaitInv, Lag, Delay
  <2>7. Latest = InitialSkipFrame \/ Latest < e
    BY <1>10, <1>11, <1>14, <2>3 DEF PredictInv
  <2>8. PredictInv'
    <3> DEFINE T == Size'
    <3>t. T \in Nat /\ e \in Nat /\ e = mLastSofSequence + ExposureLag + T  BY <2>3
    <3> HIDE DEF T
    <3>0. Latest < e => Latest <= mLastSofSequence + ExposureLag + T  BY <1>n, <3>t
    <3>1. Latest < e => Latest <= mLastSofSequence + ExposureLag + Size'
      BY <3>0 DEF T
    <3> QED  BY <1>5, <1>7, <1>8, <2>1, <2>3, <2>7, <3>1 DEF PredictInv
  <2>9. AheadInv'
    <3> SUFFICES ASSUME Judged'
                 PROVE  /\ Latest = InitialSkipFrame \/ Latest <= Ahead
                        /\ e + run'.skip <= Ahead
      BY <1>5, <1>7, <1>8, <1>14 DEF AheadInv, Ahead
    <3>1. Judged  BY <1>7, <1>8 DEF Judged
    <3>2. kMaxExposureAppliedDelay \in Nat /\ kMaxExposureAppliedDelay >= ExposureLag
      BY BoundNumbers
    <3>3. CASE mAiqRunningForPerframe
      <4>1. missed = {}  BY <3>1, <3>3 DEF Judged
      <4>2. mLastSofSequence + Size <= frame
        BY <1>0, <1>1, <1>11, <1>14, <3>3, <4>1, FewWait
      <4> DEFINE S == Size
                 T == Size'
                 p == run'.skip
      <4>3. /\ S \in Nat /\ T \in Nat /\ p \in Nat /\ p <= NumSkip
            /\ mLastSofSequence + S <= frame /\ e = mLastSofSequence + ExposureLag + T
            /\ T <= S + 1
        BY <1>6, <1>n, <2>3, <4>2
      <4> HIDE DEF S, T, p
      <4>4. e + p <= Ahead  BY <1>n, <3>2, <4>3 DEF Ahead
      <4> QED  BY <1>11, <1>14, <3>1, <4>4 DEF AheadInv, p
    <3>4. CASE ~ mAiqRunningForPerframe
      <4>1. SizeInv'  BY DEF BoundInv
      <4> DEFINE T == Size'
                 p == run'.skip
      <4>2. T + p <= kMaxExposureAppliedDelay - ExposureLag + 1 + NumSkip
        BY <1>5, <1>8, <3>4, <4>1 DEF SizeInv
      <4>3. T \in Nat /\ p \in Nat /\ e = mLastSofSequence + ExposureLag + T
        BY <1>6, <2>3
      <4> HIDE DEF T, p
      <4>4. mLastSofSequence <= frame  BY <1>0, SofNumbers
      <4>5. e + p <= Ahead  BY <1>n, <3>2, <4>2, <4>3, <4>4 DEF Ahead
      <4> QED  BY <1>11, <1>14, <3>1, <4>5 DEF AheadInv, p
    <3> QED  BY <1>n, <3>3, <3>4
  <2> QED  BY <1>12, <2>5, <2>6, <2>8, <2>9 DEF OrderInv
<1> QED  BY <1>13, <1>14

\* A result to skip: the exposure is repeated for the frame after it.
LEMMA OrderSkip ==
    ASSUME Types, BoundInv, OrderInv, SkipResult
    PROVE  OrderInv'
<1>0. SensorType /\ SofInv /\ FirstInv  BY DEF Types, BoundInv
<1> DEFINE n == used.runs
           e == effectSeq(-1)
           r == run.effect
<1>1. /\ run.pc = "done" /\ run.skip > 0 /\ updateSensorExposure(n, -1)
      /\ run' = [run EXCEPT !.skip = @ - 1, !.effect = e]
      /\ UNCHANGED <<engineVars, requests>>
  BY DEF SkipResult
<1>n. /\ run \in Runs /\ n \in Nat /\ -1 \in Frames /\ Latest \in Int /\ r \in Int
      /\ frame \in Int /\ mLastSofSequence \in Int /\ mLastSofSequence >= -1
      /\ ExposureLag \in Nat /\ NumSkip \in Nat /\ Size \in Nat /\ Newest \in Int
      /\ mAiqRunningForPerframe \in BOOLEAN /\ run.skip \in Nat
  BY <1>0, OrderNumbers, SofNumbers, BoundNumbers DEF Frames
<1> HIDE DEF n, e, r
<1>2. /\ run'.pc = "done" /\ run'.effect = e /\ run'.skip = run.skip - 1
      /\ run'.applyingSeq = run.applyingSeq
  BY <1>1, <1>n DEF Runs
<1>3. ~ mFirstAiqRunning  BY <1>0, <1>1 DEF FirstInv
<1>4. StartInv /\ WaitInv /\ PredictInv /\ AheadInv  BY DEF OrderInv
<1>5. mLastSofSequence >= 0  BY <1>1, <1>3, <1>4 DEF StartInv
<1>6. Newest = r /\ r = mLastSofSequence + ExposureLag + Size
  BY <1>1, <1>3, <1>4 DEF Newest, PredictInv, r
<1>7. /\ frame' = frame /\ sof' = sof /\ mLastSofSequence' = mLastSofSequence
      /\ missed \subseteq missed'
  BY <1>0, <1>1, <1>n, UpdateExposure, MissedGrows
<1>8. /\ requests' = requests /\ mFirstAiqRunning' = mFirstAiqRunning
      /\ mAiqRunningForPerframe' = mAiqRunningForPerframe
  BY <1>1 DEF engineVars
<1>9. Latest' = r /\ mCurrentIndex' # -1  BY LatestStored DEF Latest, r
<1>10. NextSof' = NextSof  BY <1>7 DEF NextSof
<1>11. Newest' = e  BY <1>2 DEF Newest
<1>12. ~ (-1 > 0)  OBVIOUS
<1>13. /\ e \in Nat /\ Size' \in Nat /\ e = mLastSofSequence + ExposureLag + Size'
       /\ Size' = Size + 1
  <2>1. -1 > 0 /\ -1 = mLastSofSequence => Newest < -1 + ExposureLag  BY <1>12
  <2> QED  BY <1>0, <1>1, <1>4, <1>5, <1>12, <1>n, <2>1, UpdateOrder DEF e
<1>14. \A x \in Registers : \A k \in DOMAIN waiting'[x] :
          k + Lag(x) <= e /\ (k >= NextSof' \/ waiting'[x][k] \in missed')
  <2>1. -1 > 0 /\ -1 = mLastSofSequence => Newest < -1 + ExposureLag  BY <1>12
  <2> QED  BY <1>0, <1>1, <1>4, <1>5, <1>n, <2>1, UpdateWaits DEF e
<1> DEFINE T == Size'
           l == mLastSofSequence'
<1>15. /\ T \in Nat /\ e \in Nat /\ l \in Int /\ e = l + ExposureLag + T /\ l >= 0
       /\ e = r + 1
  BY <1>5, <1>6, <1>7, <1>13, <1>n
<1> HIDE DEF T, l
<1>16. e <= l + ExposureLag + T /\ r <= l + ExposureLag + T /\ r < e
  BY <1>15, <1>n
<1>17. StartInv'  BY <1>2, <1>3, <1>4, <1>5, <1>7, <1>8, <1>9 DEF StartInv
<1>18. AskInv'  BY <1>2 DEF AskInv
<1>19. WaitInv'  BY <1>11, <1>14, <1>15, <1>16 DEF WaitInv, Lag, Delay, T, l
<1>20. PredictInv'  BY <1>2, <1>9, <1>15, <1>16 DEF PredictInv, T, l
<1>21. AheadInv'
  <2> SUFFICES ASSUME Judged' PROVE r <= Ahead /\ e + run'.skip <= Ahead
    BY <1>2, <1>7, <1>9 DEF AheadInv, Ahead
  <2>1. Judged  BY <1>7, <1>8 DEF Judged
  <2>2. r + run.skip <= Ahead  BY <1>1, <1>3, <1>4, <2>1 DEF AheadInv, r
  <2>3. Ahead \in Int  BY <1>n, BoundNumbers DEF Ahead
  <2>4. e + (run.skip - 1) <= Ahead /\ r <= Ahead  BY <1>n, <1>15, <2>2, <2>3
  <2> QED  BY <1>2, <2>4
<1> QED  BY <1>17, <1>18, <1>19, <1>20, <1>21 DEF OrderInv

\* The result of a run.
LEMMA OrderDone ==
    ASSUME Types, BoundInv, OrderInv, done
    PROVE  OrderInv'
<1>0. SensorType /\ SofInv /\ FirstInv  BY DEF Types, BoundInv
<1> DEFINE r == run.effect
<1>1. /\ run.pc = "done" /\ run.skip = 0 /\ mFirstAiqRunning' = FALSE
      /\ run' = [run EXCEPT !.pc = "unlock"]
      /\ UNCHANGED <<sensorVars, mAiqRunningForPerframe, requests>>
  BY DEF done
<1>n. /\ run \in Runs /\ Latest \in Int /\ r \in Int /\ Newest \in Int
      /\ ExposureLag \in Nat /\ Size \in Nat /\ mLastSofSequence \in Int /\ frame \in Int
  BY <1>0, OrderNumbers, SofNumbers, BoundNumbers
<1>2. run'.pc = "unlock" /\ run'.applyingSeq = run.applyingSeq  BY <1>1, <1>n DEF Runs
<1>3. StartInv /\ WaitInv /\ PredictInv /\ AheadInv  BY DEF OrderInv
<1>4. /\ frame' = frame /\ sof' = sof /\ mLastSofSequence' = mLastSofSequence
      /\ missed' = missed /\ waiting' = waiting /\ Size' = Size
      /\ requests' = requests /\ mAiqRunningForPerframe' = mAiqRunningForPerframe
  BY <1>0, <1>1, SensorSame DEF sensorVars
<1>5. Latest' = r /\ mCurrentIndex' # -1  BY LatestStored DEF Latest
<1>6. Newest' = r /\ Newest = r  BY <1>1, <1>2, <1>5 DEF Newest
<1>7. NextSof' = NextSof  BY <1>4 DEF NextSof
<1>8. \/ mFirstAiqRunning /\ r = InitialSkipFrame
      \/ /\ ~ mFirstAiqRunning /\ mLastSofSequence >= 0
         /\ r = mLastSofSequence + ExposureLag + Size
  BY <1>1, <1>3 DEF StartInv, PredictInv
<1> HIDE DEF r
<1>9. StartInv'  BY <1>1, <1>2, <1>3, <1>4, <1>5 DEF StartInv
<1>10. AskInv'  BY <1>2 DEF AskInv
<1>11. WaitInv'
  BY <1>3, <1>4, <1>6, <1>7 DEF WaitInv, Lag, Delay
<1>12. PredictInv'
  <2>1. r = InitialSkipFrame \/ r <= mLastSofSequence + ExposureLag + Size
    BY <1>8, <1>n
  <2> QED  BY <1>2, <1>4, <1>5, <1>8, <2>1 DEF PredictInv
<1>13. AheadInv'
  <2> SUFFICES ASSUME Judged' PROVE r = InitialSkipFrame \/ r <= Ahead
    BY <1>2, <1>4, <1>5 DEF AheadInv, Ahead
  <2>1. Judged  BY <1>4 DEF Judged
  <2>2. CASE mFirstAiqRunning  BY <1>8, <2>2
  <2>3. CASE ~ mFirstAiqRunning
    <3>1. r + 0 <= Ahead  BY <1>1, <1>3, <2>1, <2>3 DEF AheadInv, r
    <3>2. r + 0 = r  BY <1>n
    <3> QED  BY <3>1, <3>2
  <2> QED  BY <2>2, <2>3
<1> QED  BY <1>9, <1>10, <1>11, <1>12, <1>13 DEF OrderInv

\* The end of a run: RequestThread learns of the newest prediction.
LEMMA OrderEnd ==
    ASSUME ResultAssumption, Types, BoundInv, OrderInv, UnlockStats \/ Return
    PROVE  OrderInv'
<1>0. SensorType /\ SofInv /\ StartInv  BY DEF Types, BoundInv, OrderInv
<1>n. run \in Runs /\ requests \in RequestMarks /\ Latest \in Int  BY <1>0, OrderNumbers
<1>1. /\ UNCHANGED <<sensorVars, resultVars, mAiqRunningForPerframe, mFirstAiqRunning>>
      /\ run.pc \in {"unlock", "return"}
  BY DEF UnlockStats, Return, engineVars
<1>2. /\ frame' = frame /\ sof' = sof /\ mLastSofSequence' = mLastSofSequence
      /\ missed' = missed /\ waiting' = waiting /\ Size' = Size
      /\ Latest' = Latest /\ mCurrentIndex' = mCurrentIndex
  BY <1>0, <1>1, SensorSame DEF sensorVars, resultVars, Latest, LatestResult
<1>3. NextSof' = NextSof  BY <1>2 DEF NextSof
<1>4. run'.pc \in {"return", "idle"} /\ run'.applyingSeq \in {run.applyingSeq, -1}
      /\ (run'.pc = "idle" => requests'.effect = Latest)
      /\ requests'.sof = requests.sof
  <2>1. CASE UnlockStats
    <3>1. run' = [run EXCEPT !.pc = "return"] /\ requests' = requests
      BY <2>1 DEF UnlockStats
    <3>2. run'.pc = "return" /\ run'.applyingSeq = run.applyingSeq
      BY <1>n, <3>1 DEF Runs
    <3> QED  BY <3>1, <3>2
  <2>2. CASE Return
    <3>1. run' = NoRun /\ requests' = [requests EXCEPT !.effect = Latest]
      BY <2>2 DEF Return, Latest
    <3>2. requests'.effect = Latest /\ requests'.sof = requests.sof
      BY <1>n, <3>1 DEF RequestMarks
    <3> QED  BY <3>1, <3>2 DEF NoRun
  <2> QED  BY <2>1, <2>2
<1>5. Newest' = Newest  BY <1>1, <1>2, <1>4 DEF Newest
<1>6. requests'.sof <= frame  BY <1>0, <1>4 DEF StartInv
<1>7. run'.applyingSeq # -1 => mAiqRunningForPerframe  BY <1>0, <1>4 DEF StartInv
<1> QED  BY <1>1, <1>2, <1>3, <1>4, <1>5, <1>6, <1>7, OrderQuiet

\* A restart of the engine.
LEMMA OrderStart ==
    ASSUME Types, BoundInv, OrderInv, startEngine
    PROVE  OrderInv'
<1>0. SensorType  BY DEF Types
<1>1. /\ run.pc = "idle" /\ run' = run /\ ResetSensor /\ mFirstAiqRunning' = TRUE
      /\ requests' = NewRequests /\ mAiqRunningForPerframe' = mAiqRunningForPerframe
  BY DEF startEngine
<1>2. frame' = -1 /\ mLastSofSequence' = -1  BY <1>0, <1>1, SensorReset
<1>3. \A x \in Registers : waiting'[x] = <<>>  BY <1>1 DEF ResetSensor
<1>4. \A x \in Registers : DOMAIN waiting'[x] = {}  BY <1>3
<1>5. requests'.sof = -1 /\ -1 <= -1  BY <1>1 DEF NewRequests
<1>6. run.applyingSeq # -1 => mAiqRunningForPerframe  BY DEF OrderInv, StartInv
<1>7. StartInv'  BY <1>1, <1>2, <1>4, <1>5, <1>6 DEF StartInv
<1>8. AskInv' /\ PredictInv' /\ AheadInv'  BY <1>1 DEF AskInv, PredictInv, AheadInv
<1>9. WaitInv'  BY <1>4 DEF WaitInv
<1> QED  BY <1>7, <1>8, <1>9 DEF OrderInv

\* The predictions are in order initially.
LEMMA OrderInit == Init => OrderInv
<1> SUFFICES ASSUME Init PROVE OrderInv
  OBVIOUS
<1>1. \A x \in Registers : DOMAIN waiting[x] = {}  BY DEF Init
<1>2. frame = -1
  <2>1. written["exposure"] = <<0>>  BY RegisterFacts DEF Init
  <2> QED  BY <2>1 DEF frame
<1>3. run = NoRun /\ mFirstAiqRunning /\ requests = NewRequests  BY DEF Init
<1>4. StartInv  BY <1>1, <1>2, <1>3 DEF StartInv, NoRun, NewRequests
<1>5. AskInv /\ PredictInv /\ AheadInv  BY <1>3 DEF AskInv, PredictInv, AheadInv
<1>6. WaitInv  BY <1>1 DEF WaitInv
<1> QED  BY <1>4, <1>5, <1>6 DEF OrderInv

\* Every step keeps them in order.
LEMMA OrderStep ==
    ASSUME ResultAssumption, Types, BoundInv, BoundInv', OrderInv, [Next]_vars
    PROVE  OrderInv'
  BY OrderFrame, OrderSof, OrderThreads, OrderRun, OrderAiq, OrderSkip, OrderDone,
     OrderEnd, OrderStart DEF Next

\* A result that is stored is for a frame, and for a later one than the newest result.
LEMMA NewerStored ==
    ASSUME Types, BoundInv, OrderInv, done \/ SkipResult
    PROVE  /\ run.effect \in Nat
           /\ \/ mFirstAiqRunning /\ run.effect = InitialSkipFrame
              \/ /\ ~ mFirstAiqRunning /\ mCurrentIndex # -1
                 /\ Latest = InitialSkipFrame \/ Latest < run.effect
<1>1. run.pc = "done"  BY DEF done, SkipResult
<1>2. /\ InitialSkipFrame \in Nat /\ ExposureLag \in Nat /\ Size \in Nat
      /\ mLastSofSequence \in Int /\ run.effect \in Int
  BY OrderNumbers, BoundNumbers DEF BoundInv
<1>3. StartInv /\ PredictInv  BY DEF OrderInv
<1>4. CASE mFirstAiqRunning  BY <1>1, <1>2, <1>3, <1>4 DEF StartInv
<1>5. CASE ~ mFirstAiqRunning
  <2>1. mLastSofSequence >= 0 /\ mCurrentIndex # -1  BY <1>1, <1>3, <1>5 DEF StartInv
  <2>2. run.effect = mLastSofSequence + ExposureLag + Size  BY <1>1, <1>3, <1>5 DEF PredictInv
  <2>3. run.effect \in Nat  BY <1>2, <2>1, <2>2
  <2> QED  BY <1>1, <1>3, <1>5, <2>1, <2>3 DEF PredictInv
<1> QED  BY <1>4, <1>5

\* The ring holds the results in question, which are none initially.
LEMMA RingInit == Init => RingInv
  BY DEF Init, RingInv

\* Every step keeps them.
LEMMA RingStep ==
    ASSUME ResultAssumption, Types, BoundInv, OrderInv, RingInv, [Next]_vars
    PROVE  RingInv'
<1>0. StorageType  BY DEF Types
<1>s. StorageSize \in Nat /\ StorageSize >= 2  BY RingSizes
<1>1. CASE done \/ SkipResult
  <2>1. \E m \in 0..(StorageSize - 2) : Recent(m)'
    BY <1>1, NewerStored, RecentKept
  <2> QED  BY <2>1 DEF RingInv
<1>2. CASE run3A
  <2>1. acquireAiqResult /\ mCurrentIndex' = mCurrentIndex /\ mFirstAiqRunning' = mFirstAiqRunning
    BY <1>2 DEF run3A, engineVars
  <2>2. \A i \in 0..(StorageSize - 2) : At(i)' = At(i)  BY <1>0, <2>1, AcquiredAt
  <2> SUFFICES ASSUME ~ mFirstAiqRunning PROVE \E m \in 0..(StorageSize - 2) : Recent(m)'
    BY <2>1 DEF RingInv
  <2>3. PICK m \in 0..(StorageSize - 2) : Recent(m)  BY DEF RingInv
  <2>4. m \in 0..(StorageSize - 2) /\ \A i \in 0..m : i \in 0..(StorageSize - 2)  BY <1>s
  <2>5. 0 \in 0..m /\ m \in 0..m  BY <1>s
  <2>6. \A i \in 0..m : At(i)' = At(i)  BY <2>2, <2>4
  <2>7. Recent(m)'  BY <2>3, <2>5, <2>6 DEF Recent
  <2> QED  BY <2>7
<1>3. CASE startEngine
  <2>1. mFirstAiqRunning' = TRUE  BY <1>3 DEF startEngine
  <2> QED  BY <2>1 DEF RingInv
<1>4. CASE \/ SensorFrame \/ handleEvent \/ RequestsSof \/ decodeStatsData
           \/ GiveUp \/ runAiq \/ UnlockStats \/ Return \/ UNCHANGED vars
  <2>1. mAiqResults' = mAiqResults /\ mCurrentIndex' = mCurrentIndex
        /\ mFirstAiqRunning' = mFirstAiqRunning
    BY <1>4 DEF SensorFrame, handleEvent, RequestsSof, decodeStatsData,
       AcquireStats, FillStats, UpdateStats, DecodeStats, GiveUp,
                runAiq, UnlockStats, Return, vars, resultVars, engineVars
  <2> QED  BY <2>1 DEF RingInv, Recent, At
<1> QED  BY <1>1, <1>2, <1>3, <1>4 DEF Next

-----------------------------------------------------------------------------
(* What the registers hold.                                                *)

\* Which result is found, in the next state.
LEMMA FoundNext ==
    (\A g \in Nat : \A j \in 0..(StorageSize - 1) :
        StorageType /\ Found(g, j) => getAiqResult(g) = At(j))'
<1>1. \A g \in Nat : \A j \in 0..(StorageSize - 1) :
         StorageType /\ Found(g, j) => getAiqResult(g) = At(j)
  BY FoundIs
<1> QED  BY <1>1, PTL

\* ... and that one is.
LEMMA CoveredNext ==
    (\A g \in Nat :
        /\ ResultAssumption /\ StorageType /\ frame \in Int /\ ~ mFirstAiqRunning
        /\ Judged /\ StartInv /\ AheadInv /\ RingInv
        /\ g >= InitialSkipFrame /\ g >= frame - Behind
        => \E i \in 0..(StorageSize - 2) : Found(g, i))'
<1>1. \A g \in Nat :
        /\ ResultAssumption /\ StorageType /\ frame \in Int /\ ~ mFirstAiqRunning
        /\ Judged /\ StartInv /\ AheadInv /\ RingInv
        /\ g >= InitialSkipFrame /\ g >= frame - Behind
        => \E i \in 0..(StorageSize - 2) : Found(g, i)
  BY Covered
<1> QED  BY <1>1, PTL

\* The result that a run stores is the one that is found for its frames.
LEMMA ValueStored ==
    ASSUME ResultAssumption, Types, Types', BoundInv, OrderInv, OrderInv',
           RingInv, RingInv', done \/ SkipResult, Judged',
           NEW f \in Nat, f >= InitialSkipFrame, f >= frame' - Behind
    PROVE  getAiqResult(f)'.value = Value(f)
<1>1. /\ run.pc = "done" /\ run.effect \in Nat
      /\ At(0)'.mSequence = run.effect /\ At(0)'.value = used.runs
      /\ \A i \in 0..(StorageSize - 3) : At(i + 1)' = At(i)
  BY NewerStored, StoredAt DEF done, SkipResult
<1>2. StorageType /\ StorageType' /\ SensorType' /\ StorageSize \in Nat /\ StorageSize >= 2
  BY RingSizes DEF Types
<1>3. 0 \in 0..(StorageSize - 1)  BY <1>2
<1>4. CASE f >= run.effect
  <2>1. At(0)'.mSequence \in 0..f  BY <1>1, <1>4
  <2>2. Found(f, 0)'  BY <2>1 DEF Found
  <2>3. getAiqResult(f)' = At(0)'  BY <1>2, <1>3, <2>2, FoundNext
  <2> QED  BY <1>1, <1>4, <2>3 DEF Value
<1>5. CASE ~ (f >= run.effect)
  <2>1. ~ mFirstAiqRunning
    BY <1>1, <1>5 DEF OrderInv, StartInv
  <2>2. ~ mFirstAiqRunning'
    <3>1. mFirstAiqRunning' \in {FALSE, mFirstAiqRunning}  BY DEF done, SkipResult, engineVars
    <3> QED  BY <2>1, <3>1
  <2>3. frame' \in Int  BY <1>2 DEF SensorType, Frames
  <2>4. PICK i \in 0..(StorageSize - 2) : Found(f, i)'
    BY <1>2, <2>2, <2>3, CoveredNext DEF OrderInv
  <2>5. At(0)'.mSequence \notin 0..f  BY <1>1, <1>5
  <2>6. i # 0  BY <2>4, <2>5 DEF Found
  <2>7. i - 1 \in 0..(StorageSize - 3) /\ i - 1 \in 0..(StorageSize - 1)
        /\ i \in 0..(StorageSize - 1) /\ (i - 1) + 1 = i
    BY <1>2, <2>6
  <2>8. At(i)' = At(i - 1)  BY <1>1, <2>7
  <2>9. \A j \in 0..((i - 1) - 1) : At(j).mSequence \notin 0..f
    <3> TAKE j \in 0..((i - 1) - 1)
    <3>1. j \in 0..(StorageSize - 3) /\ j + 1 \in 0..(i - 1)  BY <1>2, <2>7
    <3>2. At(j + 1)' = At(j)  BY <1>1, <3>1
    <3>3. At(j + 1)'.mSequence \notin 0..f  BY <2>4, <3>1 DEF Found
    <3> QED  BY <3>2, <3>3
  <2>10. At(i)'.mSequence \in 0..f  BY <2>4 DEF Found
  <2>11. Found(f, i - 1)  BY <2>8, <2>9, <2>10 DEF Found
  <2>12. getAiqResult(f) = At(i - 1)  BY <1>2, <2>7, <2>11, FoundIs
  <2>13. getAiqResult(f)' = At(i)'  BY <1>2, <2>4, <2>7, FoundNext
  <2> QED  BY <1>5, <2>8, <2>12, <2>13 DEF Value
<1> QED  BY <1>4, <1>5

\* Acquiring a result changes none that is found.
LEMMA ValueAcquired ==
    ASSUME ResultAssumption, Types, Types', OrderInv, RingInv, run3A, Judged,
           NEW f \in Nat, f >= InitialSkipFrame, f >= frame - Behind, ~ mFirstAiqRunning
    PROVE  getAiqResult(f)' = getAiqResult(f)
<1>1. acquireAiqResult /\ mCurrentIndex' = mCurrentIndex  BY DEF run3A
<1>2. StorageType /\ StorageType' /\ StorageSize \in Nat /\ StorageSize >= 2
      /\ frame \in Int
  BY RingSizes DEF Types, SensorType, Frames
<1>3. \A i \in 0..(StorageSize - 2) : At(i)' = At(i)  BY <1>1, <1>2, AcquiredAt
<1>4. PICK i \in 0..(StorageSize - 2) : Found(f, i)  BY <1>2, Covered DEF OrderInv
<1>5. i \in 0..(StorageSize - 1) /\ \A j \in 0..(i - 1) : j \in 0..(StorageSize - 2)
  BY <1>2
<1>6. Found(f, i)'  BY <1>3, <1>4, <1>5 DEF Found
<1>7. getAiqResult(f)' = At(i)'  BY <1>2, <1>5, <1>6, FoundNext
<1>8. getAiqResult(f) = At(i)  BY <1>2, <1>4, <1>5, FoundIs
<1> QED  BY <1>3, <1>7, <1>8

\* The frame of a register's value.
LEMMA SetInFacts ==
    ASSUME NEW x \in Registers, NEW f \in Nat
    PROVE  /\ SetIn(x, f) \in Int /\ SetIn(x, f) >= -1
           /\ SetIn(x, f) = IF f - Lag(x) >= -1 THEN f - Lag(x) ELSE -1
<1>1. f - Lag(x) \in Int /\ -1 \in Int  BY LagFacts
<1>2. SetIn(x, f) = IF f - Lag(x) >= -1 THEN f - Lag(x) ELSE -1
  BY <1>1, MaxOfTwo DEF SetIn
<1> QED  BY <1>1, <1>2

\* What is judged now was judged before, unless the engine is restarted.
LEMMA JudgedBefore ==
    ASSUME Types, [Next]_vars, ~ startEngine, Judged'
    PROVE  Judged /\ missed \subseteq missed'
<1>1. mAiqRunningForPerframe' = mAiqRunningForPerframe
  BY DEF Next, SensorFrame, handleEvent, RequestsSof, decodeStatsData,
     AcquireStats, FillStats, UpdateStats, DecodeStats, GiveUp,
         run3A, runAiq, SkipResult, done, UnlockStats, Return, vars, engineVars
<1>2. missed \subseteq missed'
  <2>1. CASE SensorFrame  BY <2>1 DEF SensorFrame, NextFrame
  <2>2. CASE handleEvent  BY <2>2 DEF handleEvent, handleSofEvent
  <2>3. CASE runAiq  BY <2>3 DEF runAiq, updateSensorExposure
  <2>4. CASE SkipResult  BY <2>4 DEF SkipResult, updateSensorExposure
  <2>5. CASE \/ RequestsSof \/ decodeStatsData \/ GiveUp \/ run3A \/ done
             \/ UnlockStats \/ Return \/ UNCHANGED vars
    BY <2>5 DEF RequestsSof, decodeStatsData,
       AcquireStats, FillStats, UpdateStats, DecodeStats, GiveUp, run3A, done, UnlockStats,
                Return, vars, sensorVars
  <2> QED  BY <2>1, <2>2, <2>3, <2>4, <2>5 DEF Next
<1> QED  BY <1>1, <1>2 DEF Judged

\* A new frame.
LEMMA HoldFrame ==
    ASSUME Types, BoundInv, HoldInv, SensorFrame
    PROVE  HoldInv'
<1>0. SensorType /\ SofInv  BY DEF Types, BoundInv
<1>1. PICK lost \in BOOLEAN :
         /\ NextFrame(lost)
         /\ used' = [used EXCEPT !.frames = @ + 1, !.lost = IF lost THEN @ + 1 ELSE @]
  BY DEF SensorFrame
<1>2. /\ run' = run /\ mFirstAiqRunning' = mFirstAiqRunning /\ mAiqResults' = mAiqResults
      /\ mCurrentIndex' = mCurrentIndex
  BY DEF SensorFrame, resultVars, engineVars
<1>3. frame' = frame + 1 /\ frame \in Int /\ Behind \in Int
  BY <1>0, <1>1, FrameBegins, SofNumbers, EngineAssumption
<1>4. used'.runs = used.runs
  <2>1. used \in Counts  BY DEF Types, ThreadType, Counts
  <2> QED  BY <1>1, <2>1 DEF Counts
<1> SUFFICES ASSUME ~ mFirstAiqRunning \/ run.pc = "done", Judged',
                    NEW f \in Nat, f >= InitialSkipFrame, f >= frame' - Behind,
                    Value(f)' \notin missed', NEW x \in Registers
             PROVE  Holds(x, SetIn(x, f), Value(f))'
  BY <1>2 DEF HoldInv
<1>5. Judged /\ missed \subseteq missed'
  <2>1. ~ startEngine  BY <1>0, <1>3, SensorReset DEF startEngine
  <2> QED  BY <2>1, JudgedBefore DEF Next
<1>6. f >= frame - Behind  BY <1>3
<1> DEFINE v == Value(f)
           g == SetIn(x, f)
<1>7. Value(f)' = v  BY <1>2, <1>4 DEF Value, getAiqResult
<1>8. Holds(x, g, v)  BY <1>5, <1>6, <1>7 DEF HoldInv
<1>9. g \in Int /\ g >= -1  BY SetInFacts
<1>10. v \notin missed'  BY <1>7
<1>11. PICK w, h : w = v /\ h = g  OBVIOUS
<1>12. h \in Int /\ h >= -1 /\ Holds(x, h, w) /\ w \notin missed'
  BY <1>8, <1>9, <1>10, <1>11
<1>13. Holds(x, h, w)'  BY <1>0, <1>1, <1>12, FrameHolds
<1>14. SetIn(x, f)' = h  BY <1>11 DEF SetIn, Lag, Delay
<1>15. Value(f)' = w  BY <1>7, <1>11
<1> QED  BY <1>13, <1>14, <1>15

\* What the registers hold stays when neither they nor the values change.
LEMMA HoldKept ==
    ASSUME HoldInv, frame' = frame, missed' = missed, Judged' => Judged,
           ~ mFirstAiqRunning' \/ run'.pc = "done" => ~ mFirstAiqRunning \/ run.pc = "done",
           \A f \in Nat :
              /\ ~ mFirstAiqRunning' \/ run'.pc = "done"
              /\ Judged' /\ f >= InitialSkipFrame /\ f >= frame - Behind
              => Value(f)' = Value(f),
           \A x \in Registers : \A g \in Int : \A v :
              g >= -1 /\ Holds(x, g, v) => Holds(x, g, v)'
    PROVE  HoldInv'
<1> SUFFICES ASSUME ~ mFirstAiqRunning' \/ run'.pc = "done", Judged',
                    NEW f \in Nat, f >= InitialSkipFrame, f >= frame - Behind,
                    Value(f)' \notin missed', NEW x \in Registers
             PROVE  Holds(x, SetIn(x, f), Value(f))'
  BY DEF HoldInv
<1> DEFINE v == Value(f)
           g == SetIn(x, f)
<1>1. Value(f)' = v  OBVIOUS
<1>2. Holds(x, g, v)  BY <1>1 DEF HoldInv
<1>3. g \in Int /\ g >= -1  BY SetInFacts
<1>4. PICK w, h : w = v /\ h = g  OBVIOUS
<1>5. h \in Int /\ h >= -1 /\ Holds(x, h, w)  BY <1>2, <1>3, <1>4
<1>6. Holds(x, h, w)'  BY <1>5
<1>7. SetIn(x, f)' = h  BY <1>4 DEF SetIn, Lag, Delay
<1>8. Value(f)' = w  BY <1>1, <1>4
<1> QED  BY <1>6, <1>7, <1>8

\* An SOF.
LEMMA HoldSof ==
    ASSUME Types, BoundInv, HoldInv, handleEvent
    PROVE  HoldInv'
<1>0. SensorType /\ SofInv /\ handleSofEvent  BY DEF Types, BoundInv, handleEvent
<1>1. /\ run' = run /\ mFirstAiqRunning' = mFirstAiqRunning /\ mAiqResults' = mAiqResults
      /\ mCurrentIndex' = mCurrentIndex /\ used' = used
      /\ mAiqRunningForPerframe' = mAiqRunningForPerframe
  BY DEF handleEvent, resultVars, engineVars
<1>2. frame' = frame /\ missed' = missed  BY <1>0, SofHandled DEF handleSofEvent
<1>3. Judged' => Judged  BY <1>1, <1>2 DEF Judged
<1>4. \A f \in Nat : Value(f)' = Value(f)  BY <1>1 DEF Value, getAiqResult
<1>5. \A x \in Registers : \A g \in Int : \A v :
         g >= -1 /\ Holds(x, g, v) => Holds(x, g, v)'
  BY <1>0, SofHolds
<1> QED  BY <1>1, <1>2, <1>3, <1>4, <1>5, HoldKept

\* The registers and the entries that wait are the same.
LEMMA HoldsSame ==
    ASSUME SensorType, written' = written, waiting' = waiting, sof'.seq = sof.seq,
           "3A" \in sof'.left <=> "3A" \in sof.left
    PROVE  /\ frame' = frame
           /\ \A x \in Registers : \A g \in Int : \A v :
                 g >= -1 /\ Holds(x, g, v) => Holds(x, g, v)'
<1>1. frame' = frame  BY DEF frame
<1>2. NextSof' = NextSof  BY DEF NextSof
<1> QED  BY <1>1, <1>2 DEF Holds, Due

\* The other threads, and the end of a run.
LEMMA HoldThreads ==
    ASSUME Types, HoldInv,
           \/ RequestsSof \/ decodeStatsData \/ GiveUp \/ UnlockStats \/ Return
           \/ UNCHANGED vars
    PROVE  HoldInv'
<1>0. SensorType  BY DEF Types
<1>1. /\ written' = written /\ waiting' = waiting /\ missed' = missed
      /\ mFirstAiqRunning' = mFirstAiqRunning /\ mAiqResults' = mAiqResults
      /\ mCurrentIndex' = mCurrentIndex /\ used' = used
      /\ mAiqRunningForPerframe' = mAiqRunningForPerframe
  BY DEF RequestsSof, decodeStatsData,
     AcquireStats, FillStats, UpdateStats, DecodeStats, GiveUp, UnlockStats, Return, vars,
         sensorVars, resultVars, engineVars
<1>2. sof'.seq = sof.seq /\ ("3A" \in sof'.left <=> "3A" \in sof.left)
  <2>1. sof \in [seq : Frames, left : SUBSET {"3A", "requests"}]
    BY <1>0 DEF SensorType
  <2>2. sof' = sof \/ sof' = [sof EXCEPT !.left = @ \ {"requests"}]
    BY DEF RequestsSof, decodeStatsData,
       AcquireStats, FillStats, UpdateStats, DecodeStats, GiveUp, UnlockStats, Return, vars,
           sensorVars
  <2> QED  BY <2>1, <2>2
<1>3. run' = run \/ (run.pc # "done" /\ run'.pc # "done")
  <2>1. CASE UnlockStats
    <3>1. run.pc = "unlock" /\ run' = [run EXCEPT !.pc = "return"]
      BY <2>1 DEF UnlockStats
    <3>2. run \in Runs  BY DEF Types, ThreadType, Runs
    <3>3. run'.pc = "return"  BY <3>1, <3>2 DEF Runs
    <3> QED  BY <3>1, <3>3
  <2>2. CASE Return  BY <2>2 DEF Return, NoRun
  <2>3. CASE RequestsSof \/ decodeStatsData \/ GiveUp \/ UNCHANGED vars
    BY <2>3 DEF RequestsSof, decodeStatsData,
       AcquireStats, FillStats, UpdateStats, DecodeStats, GiveUp, vars
  <2> QED  BY <2>1, <2>2, <2>3
<1>4. \A f \in Nat : Value(f)' = Value(f)  BY <1>1, <1>3 DEF Value, getAiqResult
<1>5. Judged' => Judged  BY <1>1 DEF Judged
<1>6. /\ frame' = frame
      /\ \A x \in Registers : \A g \in Int : \A v :
            g >= -1 /\ Holds(x, g, v) => Holds(x, g, v)'
  BY <1>0, <1>1, <1>2, HoldsSame
<1>7. ~ mFirstAiqRunning' \/ run'.pc = "done" => ~ mFirstAiqRunning \/ run.pc = "done"
  BY <1>1, <1>3
<1> QED  BY <1>1, <1>4, <1>5, <1>6, <1>7, HoldKept

\* The start of a run.
LEMMA HoldRun ==
    ASSUME ResultAssumption, Types, Types', OrderInv, RingInv, HoldInv, run3A
    PROVE  HoldInv'
<1>0. SensorType  BY DEF Types
<1>1. /\ UNCHANGED sensorVars /\ mFirstAiqRunning' = mFirstAiqRunning
      /\ mAiqRunningForPerframe' = mAiqRunningForPerframe /\ run.pc = "idle"
  BY DEF run3A, engineVars
<1>2. run'.pc # "done"
  <2> DEFINE stats == IF mFirstAiqRunning THEN -1 ELSE LockableStats
  <2>1. PICK seq : run' = [NoRun EXCEPT
                              !.pc = IF needRun3A(stats) THEN "expose" ELSE "unlock",
                              !.applyingSeq = seq, !.stats = stats,
                              !.seq = IF stats = -1 THEN -1
                                      ELSE mAiqStatistics[stats].mSequence]
    BY DEF run3A
  <2> HIDE DEF stats
  <2>2. run'.pc \in {"expose", "unlock"}  BY <2>1 DEF NoRun
  <2> QED  BY <2>2
<1>3. /\ frame' = frame
      /\ \A x \in Registers : \A g \in Int : \A v :
            g >= -1 /\ Holds(x, g, v) => Holds(x, g, v)'
  BY <1>0, <1>1, HoldsSame DEF sensorVars
<1>4. missed' = missed /\ (Judged' => Judged)  BY <1>1 DEF sensorVars, Judged
<1>5. \A f \in Nat :
         /\ ~ mFirstAiqRunning' \/ run'.pc = "done"
         /\ Judged' /\ f >= InitialSkipFrame /\ f >= frame - Behind
         => Value(f)' = Value(f)
  <2> SUFFICES ASSUME NEW f \in Nat, ~ mFirstAiqRunning, Judged,
                      f >= InitialSkipFrame, f >= frame - Behind
               PROVE  Value(f)' = Value(f)
    BY <1>1, <1>2, <1>4
  <2>1. getAiqResult(f)' = getAiqResult(f)  BY ValueAcquired
  <2> QED  BY <1>1, <1>2, <2>1 DEF Value
<1> QED  BY <1>1, <1>2, <1>3, <1>4, <1>5, HoldKept

\* The result of a run.
LEMMA HoldDone ==
    ASSUME ResultAssumption, Types, Types', BoundInv, OrderInv, OrderInv',
           RingInv, RingInv', HoldInv, done
    PROVE  HoldInv'
<1>0. SensorType  BY DEF Types
<1>1. /\ UNCHANGED sensorVars /\ run.pc = "done" /\ run' = [run EXCEPT !.pc = "unlock"]
      /\ mAiqRunningForPerframe' = mAiqRunningForPerframe
  BY DEF done
<1>2. run'.pc = "unlock"
  <2>1. run \in Runs  BY DEF Types, ThreadType, Runs
  <2> QED  BY <1>1, <2>1 DEF Runs
<1>3. /\ frame' = frame
      /\ \A x \in Registers : \A g \in Int : \A v :
            g >= -1 /\ Holds(x, g, v) => Holds(x, g, v)'
  BY <1>0, <1>1, HoldsSame DEF sensorVars
<1>4. missed' = missed /\ (Judged' => Judged)  BY <1>1 DEF sensorVars, Judged
<1>5. \A f \in Nat :
         /\ ~ mFirstAiqRunning' \/ run'.pc = "done"
         /\ Judged' /\ f >= InitialSkipFrame /\ f >= frame - Behind
         => Value(f)' = Value(f)
  <2> SUFFICES ASSUME NEW f \in Nat, Judged', f >= InitialSkipFrame, f >= frame - Behind
               PROVE  Value(f)' = Value(f)
    OBVIOUS
  <2>1. getAiqResult(f)'.value = Value(f)  BY <1>3, ValueStored
  <2> QED  BY <1>2, <2>1 DEF Value
<1> QED  BY <1>1, <1>3, <1>4, <1>5, HoldKept

\* A restart.
LEMMA HoldStart == ASSUME startEngine PROVE HoldInv'
<1>1. mFirstAiqRunning' = TRUE /\ run'.pc = "idle"  BY DEF startEngine
<1> QED  BY <1>1 DEF HoldInv

\* A prediction: the frames from it on get the new value, the ones before keep theirs.
LEMMA HoldUpdate ==
    ASSUME SensorType, SofInv, WaitInv, Newest \in Int,
           NEW n \in Nat, NEW a \in Frames, updateSensorExposure(n, a),
           mLastSofSequence >= 0,
           a > 0 /\ a = mLastSofSequence => Newest < a + ExposureLag /\ Size = 0,
           NEW x \in Registers, NEW f \in Nat,
           NEW e, e = effectSeq(a), NEW g, g = SetIn(x, f)
    PROVE  /\ f >= e /\ n \notin missed' => Holds(x, g, n)'
           /\ f < e => \A v : Holds(x, g, v) => Holds(x, g, v)'
<1> DEFINE k == sensorSeq(a) + Delay(x)
<1>1. /\ e \in Nat /\ k \in Int /\ k + Lag(x) = e
      /\ \A j \in DOMAIN waiting[x] : j < k
  BY UpdateOrder
<1>2. /\ g \in Int /\ g >= -1 /\ Lag(x) \in Nat
      /\ g = IF f - Lag(x) >= -1 THEN f - Lag(x) ELSE -1
  BY SetInFacts, LagFacts
<1>3. PICK i : i = k  OBVIOUS
<1>4. /\ i \in Int /\ i + Lag(x) = e /\ i = sensorSeq(a) + Delay(x)
      /\ \A j \in DOMAIN waiting[x] : j < i
  BY <1>1, <1>3
<1> HIDE DEF k
<1>5. /\ \A v : Holds(x, g, v) /\ (g < i \/ i < 0) => Holds(x, g, v)'
      /\ g >= i /\ n \notin missed' => Holds(x, g, n)'
  BY <1>2, <1>4, UpdateHolds
<1>6. f >= e => g >= i  BY <1>1, <1>2, <1>4
<1>7. f < e => g < i \/ i < 0  BY <1>1, <1>2, <1>4
<1> QED  BY <1>5, <1>6, <1>7

\* A run's exposure.
LEMMA HoldAiq ==
    ASSUME ResultAssumption, Types, BoundInv, OrderInv, HoldInv, runAiq
    PROVE  HoldInv'
<1>0. SensorType /\ SofInv /\ FirstInv /\ StartInv /\ AskInv /\ WaitInv
  BY DEF Types, BoundInv, OrderInv
<1> DEFINE n == used.runs + 1
           a == run.applyingSeq
           e == effectSeq(a)
<1>1. run.pc = "expose" /\ updateSensorExposure(n, a)  BY DEF runAiq
<1>2. PICK fails \in {AiqMayFail, FALSE}, switch \in BOOLEAN :
         /\ run' = [run EXCEPT !.pc = IF fails THEN "unlock" ELSE "done",
                               !.effect = e, !.aiqRun = ~ fails, !.data = decodedStats',
                               !.skip = IF switch THEN NumSkip ELSE 0]
         /\ used' = [used EXCEPT !.runs = @ + 1,
                                 !.switches = IF switch THEN @ + 1 ELSE @]
  BY DEF runAiq
<1>3. /\ mAiqResults' = mAiqResults /\ mCurrentIndex' = mCurrentIndex
      /\ mFirstAiqRunning' = mFirstAiqRunning
  BY DEF runAiq, resultVars, engineVars
<1>n. /\ run \in Runs /\ used \in Counts /\ n \in Nat /\ a \in Frames /\ a \in Int
      /\ Newest \in Int /\ ExposureLag \in Nat /\ mLastSofSequence \in Int
      /\ mLastSofSequence < NextSof /\ NextSof \in Int
  BY <1>0, OrderNumbers, SofNumbers, BoundNumbers DEF Frames
<1>4. ~ fails  BY EngineAssumption DEF ResultAssumption
<1>5. run'.pc = "done" /\ run'.effect = e  BY <1>2, <1>4, <1>n DEF Runs
<1>6. used'.runs = n  BY <1>2, <1>n DEF Counts
<1>c. PICK c : c = n  OBVIOUS
<1> HIDE DEF n, e
<1>u. updateSensorExposure(c, a) /\ c \in Nat /\ used'.runs = c  BY <1>1, <1>6, <1>c, <1>n
<1>7. frame' = frame  BY <1>0, <1>1, <1>n, UpdateExposure
<1> SUFFICES ASSUME Judged', NEW f \in Nat, f >= InitialSkipFrame, f >= frame - Behind,
                    Value(f)' \notin missed', NEW x \in Registers
             PROVE  Holds(x, SetIn(x, f), Value(f))'
  BY <1>7 DEF HoldInv
<1>8. PICK g : g = SetIn(x, f)  OBVIOUS
<1>9. SetIn(x, f)' = g  BY <1>8 DEF SetIn, Lag, Delay
<1>10. g \in Int /\ g >= -1  BY <1>8, SetInFacts
<1>11. Value(f)' = IF f >= e THEN c ELSE getAiqResult(f).value
  BY <1>3, <1>5, <1>u DEF Value, getAiqResult
<1>12. CASE mFirstAiqRunning
  <2>1. mLastSofSequence = -1 /\ frame = -1  BY <1>0, <1>12 DEF FirstInv
  <2>2. \A y \in Registers : DOMAIN waiting[y] = {}  BY <1>0, <2>1 DEF StartInv
  <2>3. Holds(x, g, c)' /\ e = InitialSkipFrame
    BY <1>0, <1>u, <1>10, <1>n, <2>1, <2>2, FirstHolds DEF e
  <2>4. Value(f)' = c  BY <1>11, <2>3
  <2> QED  BY <1>9, <2>3, <2>4
<1>13. CASE ~ mFirstAiqRunning
  <2>1. mLastSofSequence >= 0  BY <1>0, <1>1, <1>13 DEF StartInv
  <2>2. Judged /\ missed \subseteq missed'
    <3>1. ~ startEngine  BY <1>1 DEF startEngine
    <3> QED  BY <3>1, JudgedBefore DEF Next
  <2>3. a > 0 /\ a = mLastSofSequence => Newest < a + ExposureLag /\ Size = 0
    <3> SUFFICES ASSUME a > 0, a = mLastSofSequence
                 PROVE  Newest < a + ExposureLag /\ Size = 0
      OBVIOUS
    <3>1. mAiqRunningForPerframe  BY <1>0, <1>n DEF StartInv
    <3>2. missed = {}  BY <2>2, <3>1 DEF Judged
    <3>3. Newest < a + ExposureLag  BY <1>0, <1>1, <1>13, <3>1 DEF AskInv, Newest
    <3>4. DOMAIN mExposureDataMap = {}
      <4> SUFFICES ASSUME NEW k \in DOMAIN mExposureDataMap PROVE FALSE
        OBVIOUS
      <4>1. k \in Int /\ k + ExposureLag <= Newest  BY <1>0, <1>n, ExposureKeys
      <4>2. "exposure" \in Registers /\ k \in DOMAIN waiting["exposure"]
        BY RegisterFacts DEF mExposureDataMap
      <4>3. k >= NextSof  BY <1>0, <3>2, <4>2 DEF WaitInv
      <4> QED  BY <1>n, <3>3, <4>1, <4>3
    <3>5. Size = 0  BY <3>4, FS_EmptySet DEF Size
    <3> QED  BY <3>3, <3>5
  <2>4. PICK b : b = e  OBVIOUS
  <2>5. b = effectSeq(a)  BY <2>4 DEF e
  <2>6. /\ f >= b /\ c \notin missed' => Holds(x, g, c)'
        /\ f < b => \A v : Holds(x, g, v) => Holds(x, g, v)'
    BY <1>0, <1>u, <1>8, <1>n, <2>1, <2>3, <2>5, HoldUpdate
  <2>7. b \in Nat  BY <1>0, <1>n, <2>5, EffectType
  <2>8. CASE f >= b
    <3>1. Value(f)' = c  BY <1>11, <2>4, <2>8
    <3> QED  BY <1>9, <2>6, <2>8, <3>1
  <2>9. CASE f < b
    <3>1. PICK v : v = Value(f)  OBVIOUS
    <3>2. Value(f)' = v  BY <1>1, <1>11, <2>4, <2>7, <2>9, <3>1 DEF Value
    <3>3. Holds(x, g, v)  BY <1>8, <1>13, <2>2, <3>1, <3>2 DEF HoldInv
    <3>4. Holds(x, g, v)'  BY <2>6, <2>9, <3>3
    <3> QED  BY <1>9, <3>2, <3>4
  <2> QED  BY <2>7, <2>8, <2>9
<1> QED  BY <1>12, <1>13

\* A result to skip: what is repeated is the same value.
LEMMA HoldSkip ==
    ASSUME ResultAssumption, Types, Types', BoundInv, OrderInv, OrderInv',
           RingInv, RingInv', HoldInv, SkipResult
    PROVE  HoldInv'
<1>0. SensorType /\ SofInv /\ FirstInv /\ StartInv /\ WaitInv /\ PredictInv
  BY DEF Types, BoundInv, OrderInv
<1> DEFINE n == used.runs
           e == effectSeq(-1)
<1>1. /\ run.pc = "done" /\ run.skip > 0 /\ updateSensorExposure(n, -1)
      /\ run' = [run EXCEPT !.skip = @ - 1, !.effect = e]
      /\ used' = used /\ mFirstAiqRunning' = mFirstAiqRunning
  BY DEF SkipResult, engineVars
<1>n. /\ run \in Runs /\ n \in Nat /\ -1 \in Frames /\ Newest \in Int
      /\ ExposureLag \in Nat /\ mLastSofSequence \in Int /\ run.effect \in Int
      /\ Size \in Nat
  BY <1>0, OrderNumbers, SofNumbers, BoundNumbers
<1>2. run'.pc = "done" /\ run'.effect = e  BY <1>1, <1>n DEF Runs
<1>3. ~ mFirstAiqRunning  BY <1>0, <1>1 DEF FirstInv
<1>4. mLastSofSequence >= 0 /\ Newest = run.effect
  BY <1>0, <1>1, <1>3 DEF StartInv, Newest
<1>5. frame' = frame  BY <1>0, <1>1, <1>n, UpdateExposure
<1>6. ~ (-1 > 0)  OBVIOUS
<1>7. run.effect < e
  <2>1. Newest <= mLastSofSequence + ExposureLag + Size
    BY <1>0, <1>1, <1>3, <1>4, <1>n DEF PredictInv
  <2>2. -1 > 0 /\ -1 = mLastSofSequence => Newest < -1 + ExposureLag  BY <1>6
  <2> QED  BY <1>0, <1>1, <1>4, <1>n, <2>1, <2>2, UpdateOrder
<1> SUFFICES ASSUME Judged', NEW f \in Nat, f >= InitialSkipFrame, f >= frame - Behind,
                    Value(f)' \notin missed', NEW x \in Registers
             PROVE  Holds(x, SetIn(x, f), Value(f))'
  BY <1>5 DEF HoldInv
<1>c. PICK c : c = n  OBVIOUS
<1> HIDE DEF n, e
<1>u. updateSensorExposure(c, -1) /\ c \in Nat /\ used'.runs = c
  BY <1>1, <1>c, <1>n DEF n
<1>8. PICK g : g = SetIn(x, f)  OBVIOUS
<1>9. SetIn(x, f)' = g  BY <1>8 DEF SetIn, Lag, Delay
<1>10. PICK v : v = Value(f)  OBVIOUS
<1>11. getAiqResult(f)'.value = v  BY <1>5, <1>10, ValueStored
<1>12. e \in Nat  BY <1>0, <1>n, EffectType DEF e
<1>13. f >= e => v = c  BY <1>1, <1>7, <1>10, <1>12, <1>c, <1>n DEF Value, n
<1>14. Value(f)' = v  BY <1>2, <1>11, <1>13, <1>u DEF Value
<1>15. PICK b : b = e  OBVIOUS
<1>16. b = effectSeq(-1)  BY <1>15 DEF e
<1>17. /\ f >= b /\ c \notin missed' => Holds(x, g, c)'
       /\ f < b => \A w : Holds(x, g, w) => Holds(x, g, w)'
  <2>1. -1 > 0 /\ -1 = mLastSofSequence => Newest < -1 + ExposureLag /\ Size = 0
    BY <1>6
  <2> QED  BY <1>0, <1>u, <1>4, <1>8, <1>16, <1>n, <2>1, HoldUpdate
<1>18. CASE f >= b
  <2>1. v = c  BY <1>13, <1>15, <1>18
  <2> QED  BY <1>9, <1>14, <1>17, <1>18, <2>1
<1>19. CASE f < b
  <2>1. Judged /\ missed \subseteq missed'
    <3>1. ~ startEngine  BY <1>1 DEF startEngine
    <3> QED  BY <3>1, JudgedBefore DEF Next
  <2>2. Holds(x, g, v)  BY <1>3, <1>8, <1>10, <1>14, <2>1 DEF HoldInv
  <2>3. Holds(x, g, v)'  BY <1>17, <1>19, <2>2
  <2> QED  BY <1>9, <1>14, <2>3
<1> QED  BY <1>12, <1>15, <1>18, <1>19

\* Initially there is no result that the registers should hold.
LEMMA HoldInit == Init => HoldInv
  BY DEF Init, HoldInv, NoRun

\* Every step keeps the registers and the results together.
LEMMA HoldStep ==
    ASSUME ResultAssumption, Types, Types', BoundInv, OrderInv, OrderInv',
           RingInv, RingInv', HoldInv, [Next]_vars
    PROVE  HoldInv'
  BY HoldFrame, HoldSof, HoldThreads, HoldRun, HoldAiq, HoldSkip, HoldDone, HoldStart
     DEF Next

-----------------------------------------------------------------------------
(* The result of a frame that is over.                                     *)

\* A run stores its result before the first frame that it is for is over.
StoredInTime == run.pc = "done" => frame <= run.effect

\* Then the result that is found for a frame is what the registers held in it.
LEMMA HeldIsUsed ==
    ASSUME Types, BoundInv, HoldInv, Judged => StoredInTime
    PROVE  ResultOfFrame
<1>0. SensorType /\ SofInv /\ FirstInv  BY DEF Types, BoundInv
<1>n. /\ frame \in Int /\ Behind \in Nat /\ InitialSkipFrame \in Nat /\ NextSof \in Int
      /\ NextSof >= frame /\ run.effect \in Int
  BY <1>0, SofNumbers, OrderNumbers, EngineAssumption, SensorAssumption
<1> SUFFICES ASSUME NEW f \in Max({InitialSkipFrame, frame - Behind})..(frame - 1),
                    ~ (mAiqRunningForPerframe /\ missed # {}),
                    getAiqResult(f).value \notin missed,
                    NEW x \in Registers
             PROVE  Used(x, f) = getAiqResult(f).value
  BY DEF ResultOfFrame
<1> DEFINE v == getAiqResult(f).value
<1>1. Max({InitialSkipFrame, frame - Behind})
         = IF InitialSkipFrame >= frame - Behind THEN InitialSkipFrame ELSE frame - Behind
  BY <1>n, MaxOfTwo
<1>2. f \in Nat /\ f >= InitialSkipFrame /\ f >= frame - Behind /\ f < frame
  BY <1>1, <1>n
<1>3. ~ mFirstAiqRunning  BY <1>0, <1>2 DEF FirstInv
<1>4. Judged  BY DEF Judged
<1>5. Value(f) = v  BY <1>2, <1>4, <1>n DEF StoredInTime, Value
<1> DEFINE g == SetIn(x, f)
<1>6. Holds(x, g, v)  BY <1>2, <1>3, <1>4, <1>5 DEF HoldInv
<1>7. g \in Int /\ g < frame
  BY <1>2, <1>n, SetInFacts, LagFacts
<1>8. DOMAIN waiting[x] \subseteq Int  BY <1>0 DEF SensorType
<1>9. \A k \in Due(x) : k > g  BY <1>7, <1>8, <1>n DEF Due
<1>10. Used(x, f) = written[x][g + 2]  BY DEF Used, SetIn
<1> HIDE DEF g, v
<1>11. ~ \E k \in Due(x) : k <= g  BY <1>7, <1>8, <1>9 DEF Due
<1>12. written[x][g + 2] = v  BY <1>6, <1>7, <1>11 DEF Holds
<1> QED  BY <1>10, <1>12 DEF v

\* What is kept of a result, whatever a run does.
ResultInv == Types /\ BoundInv /\ OrderInv /\ RingInv /\ HoldInv

\* It holds initially.
LEMMA ResultInit == Init => ResultInv
  BY TypesInit, BoundInit, OrderInit, RingInit, HoldInit DEF ResultInv

\* Every step keeps it.
LEMMA ResultStep ==
    ASSUME ResultAssumption, ResultInv, [Next]_vars
    PROVE  ResultInv'
<1>1. Types /\ BoundInv /\ OrderInv /\ RingInv /\ HoldInv  BY DEF ResultInv
<1>2. Types'  BY <1>1, TypesStep
<1>3. BoundInv'  BY <1>1, BoundStep
<1>4. OrderInv'  BY <1>1, <1>3, OrderStep
<1>5. RingInv'  BY <1>1, RingStep
<1>6. HoldInv'  BY <1>1, <1>2, <1>4, <1>5, HoldStep
<1> QED  BY <1>2, <1>3, <1>4, <1>5, <1>6 DEF ResultInv

\* However many SOFs are lost: once a run has stored its result, or before the first
\* frame that it is for is over, the result that getAiqResult() finds for a frame is
\* the one the frame was exposed with.
THEOREM StoredResultsFit ==
    ASSUME ResultAssumption
    PROVE  Spec => [](StoredInTime => ResultOfFrame)
<1>1. Init => ResultInv  BY ResultInit
<1>2. ResultInv /\ [Next]_vars => ResultInv'  BY ResultStep
<1>3. ResultInv => (StoredInTime => ResultOfFrame)  BY HeldIsUsed DEF ResultInv
<1> QED  BY <1>1, <1>2, <1>3, PTL DEF Spec

-----------------------------------------------------------------------------
(* A run stores its result in time.                                        *)

\* Fewer SOFs are lost than the exposure takes frames; or as many, when 3A does not run
\* per frame, or when a gain is set later than the exposure and is missed with them.
LossAssumption ==
    /\ MaxLost <= ExposureLag
    /\ \/ MaxLost < ExposureLag
       \/ TRUE \notin PerFrame
       \/ \E x \in Gains : GainDelay[x] > 0

\* 3A is behind the sensor by the SOFs that were lost and the one that is under way.
LostInv ==
    /\ mAiqRunningForPerframe \in PerFrame
    /\ used.lost <= MaxLost
    /\ frame <= mLastSofSequence + used.lost + (IF "3A" \in sof.left THEN 1 ELSE 0)
\* A run for the SOF that 3A has seen last has written its exposure, and its later gains
\* wait.
EnteredInv ==
    run.pc = "done" /\ ~ mFirstAiqRunning /\ Size = 0 =>
        /\ mAiqRunningForPerframe
        /\ \A x \in Registers : Delay(x) > 0 => run.effect - Lag(x) \in DOMAIN waiting[x]

\* So a result is stored in time, or an exposure was missed.
LEMMA InTime ==
    ASSUME LossAssumption, Types, BoundInv, OrderInv, LostInv, EnteredInv, Judged
    PROVE  StoredInTime
<1>0. SofInv /\ FirstInv /\ SensorType /\ StartInv /\ WaitInv /\ PredictInv
  BY DEF Types, BoundInv, OrderInv
<1> SUFFICES ASSUME run.pc = "done" PROVE frame <= run.effect
  BY DEF StoredInTime
<1>n. /\ frame \in Int /\ mLastSofSequence \in Int /\ ExposureLag \in Nat /\ Size \in Nat
      /\ NextSof \in Int /\ NextSof >= frame /\ InitialSkipFrame \in Nat /\ MaxLost \in Nat
      /\ run.effect \in Int /\ used.lost \in Nat
  <2>1. used.lost \in Nat  BY DEF Types, ThreadType
  <2> QED
    BY <1>0, <2>1, SofNumbers, OrderNumbers, BoundNumbers, EngineAssumption
<1>1. CASE mFirstAiqRunning
  BY <1>0, <1>1, <1>n DEF FirstInv, StartInv
<1>2. CASE ~ mFirstAiqRunning
  <2>1. run.effect = mLastSofSequence + ExposureLag + Size  BY <1>0, <1>2 DEF PredictInv
  <2>2. frame <= mLastSofSequence + MaxLost + 1
    <3>1. frame <= mLastSofSequence + used.lost + 1  BY <1>n DEF LostInv
    <3> QED  BY <1>n, <3>1 DEF LostInv
  <2>3. MaxLost <= ExposureLag  BY DEF LossAssumption
  <2>4. CASE Size # 0  BY <1>n, <2>1, <2>2, <2>3, <2>4
  <2>5. CASE Size = 0
    <3>1. mAiqRunningForPerframe  BY <1>2, <2>5 DEF EnteredInv
    <3>2. missed = {}  BY <3>1 DEF Judged
    <3>3. CASE MaxLost < ExposureLag  BY <1>n, <2>1, <2>2, <2>5, <3>3
    <3>4. CASE ~ (MaxLost < ExposureLag)
      <4>1. PICK x \in Gains : GainDelay[x] > 0
        BY <3>1, <3>4 DEF LossAssumption, LostInv
      <4>2. x \in Registers /\ Delay(x) > 0
        BY <4>1, SensorAssumption DEF Registers, Delay
      <4>3. run.effect - Lag(x) \in DOMAIN waiting[x]  BY <1>2, <2>5, <4>2 DEF EnteredInv
      <4>4. run.effect - Lag(x) >= NextSof  BY <1>0, <3>2, <4>2, <4>3 DEF WaitInv
      <4>5. Lag(x) \in Nat  BY <4>2, LagFacts
      <4> QED  BY <1>n, <4>4, <4>5
    <3> QED  BY <3>3, <3>4
  <2> QED  BY <2>4, <2>5
<1> QED  BY <1>1, <1>2

\* No SOF is lost initially.
LEMMA LostInit == Init => LostInv /\ EnteredInv
<1> SUFFICES ASSUME Init PROVE LostInv /\ EnteredInv
  OBVIOUS
<1>1. frame = -1
  <2>1. written["exposure"] = <<0>>  BY RegisterFacts DEF Init
  <2> QED  BY <2>1 DEF frame
<1>2. /\ mLastSofSequence = -1 /\ used.lost = 0 /\ sof.left = {} /\ run.pc = "idle"
      /\ mAiqRunningForPerframe \in PerFrame
  BY DEF Init, NoRun
<1>3. 0 <= MaxLost  BY EngineAssumption
<1> QED  BY <1>1, <1>2, <1>3 DEF LostInv, EnteredInv

\* A lost SOF is counted, and one that is not lost is handled before the next frame.
LEMMA LostStep ==
    ASSUME Types, BoundInv, LostInv, [Next]_vars
    PROVE  LostInv'
<1>0. SensorType /\ SofInv  BY DEF Types, BoundInv
<1>n. /\ frame \in Int /\ mLastSofSequence \in Int /\ used \in Counts /\ used.lost \in Nat
      /\ sof.seq = frame /\ MaxLost \in Nat
      /\ sof \in [seq : Frames, left : SUBSET {"3A", "requests"}]
  <2>1. used \in Counts  BY DEF Types, ThreadType, Counts
  <2> QED  BY <1>0, <2>1, SofNumbers, EngineAssumption DEF Counts, SensorType
<1>1. mAiqRunningForPerframe' = mAiqRunningForPerframe
  BY DEF Next, SensorFrame, handleEvent, RequestsSof, decodeStatsData,
     AcquireStats, FillStats, UpdateStats, DecodeStats, GiveUp,
         run3A, runAiq, SkipResult, done, UnlockStats, Return, startEngine, vars, engineVars
<1>2. CASE SensorFrame
  <2>1. PICK lost \in BOOLEAN :
           /\ lost => used.lost < MaxLost
           /\ NextFrame(lost)
           /\ used' = [used EXCEPT !.frames = @ + 1, !.lost = IF lost THEN @ + 1 ELSE @]
    BY <1>2 DEF SensorFrame
  <2>2. used'.lost = IF lost THEN used.lost + 1 ELSE used.lost  BY <1>n, <2>1 DEF Counts
  <2>3. /\ frame' = frame + 1 /\ sof.left = {} /\ mLastSofSequence' = mLastSofSequence
        /\ sof'.left = IF lost THEN {} ELSE {"3A", "requests"}
    BY <1>0, <2>1, FrameBegins DEF NextFrame
  <2>4. frame <= mLastSofSequence + used.lost /\ used.lost <= MaxLost
    BY <1>n, <2>3 DEF LostInv
  <2>5. CASE lost
    <3>1. /\ used'.lost = used.lost + 1 /\ "3A" \notin sof'.left /\ used.lost < MaxLost
          /\ frame' = frame + 1
      BY <2>1, <2>2, <2>3, <2>5
    <3>2. used.lost + 1 <= MaxLost /\ frame + 1 <= mLastSofSequence + (used.lost + 1) + 0
      BY <1>n, <2>4, <3>1
    <3> QED  BY <1>1, <2>3, <3>1, <3>2 DEF LostInv
  <2>6. CASE ~ lost
    <3>1. used'.lost = used.lost /\ "3A" \in sof'.left /\ frame' = frame + 1
      BY <2>2, <2>3, <2>6
    <3>2. frame + 1 <= mLastSofSequence + used.lost + 1  BY <1>n, <2>4
    <3> QED  BY <1>1, <2>3, <2>4, <3>1, <3>2 DEF LostInv
  <2> QED  BY <2>5, <2>6
<1>3. CASE handleEvent
  <2>1. handleSofEvent /\ used' = used  BY <1>3 DEF handleEvent
  <2>2. frame' = frame /\ mLastSofSequence' = frame
    BY <1>0, <1>n, <2>1, SofHandled
  <2>3. "3A" \notin sof'.left
    <3>1. sof' = [sof EXCEPT !.left = @ \ {"3A"}]  BY <1>0, <2>1, SofHandled
    <3> QED  BY <1>n, <3>1
  <2>4. frame <= frame + used.lost + 0  BY <1>n
  <2> QED  BY <1>1, <2>1, <2>2, <2>3, <2>4 DEF LostInv
<1>4. CASE startEngine
  <2>1. ResetSensor /\ used'.lost = used.lost  BY <1>4, <1>n DEF startEngine, Counts
  <2>2. frame' = -1 /\ mLastSofSequence' = -1 /\ "3A" \notin sof'.left
    BY <1>0, <2>1, SensorReset
  <2>3. -1 <= -1 + used.lost + 0  BY <1>n
  <2> QED  BY <1>1, <2>1, <2>2, <2>3 DEF LostInv
<1>5. CASE runAiq \/ SkipResult
  <2>1. \E n \in Nat, a \in Frames : updateSensorExposure(n, a)
    <3>1. /\ used.runs \in Nat /\ used.runs + 1 \in Nat /\ -1 \in Frames
          /\ run.applyingSeq \in Frames
      BY <1>0, OrderNumbers
    <3> QED  BY <1>5, <3>1 DEF runAiq, SkipResult
  <2>2. frame' = frame /\ sof' = sof /\ mLastSofSequence' = mLastSofSequence
    BY <1>0, <2>1, UpdateExposure
  <2>3. used'.lost = used.lost  BY <1>5, <1>n DEF runAiq, SkipResult, Counts
  <2> QED  BY <1>1, <2>2, <2>3 DEF LostInv
<1>6. CASE \/ RequestsSof \/ decodeStatsData \/ GiveUp \/ run3A \/ done
           \/ UnlockStats \/ Return \/ UNCHANGED vars
  <2>1. /\ written' = written /\ mLastSofSequence' = mLastSofSequence /\ used' = used
        /\ \/ sof' = sof
           \/ sof' = [sof EXCEPT !.left = @ \ {"requests"}]
    BY <1>6 DEF RequestsSof, decodeStatsData,
       AcquireStats, FillStats, UpdateStats, DecodeStats, GiveUp, run3A, done, UnlockStats,
                Return, vars, sensorVars
  <2>2. frame' = frame  BY <2>1 DEF frame
  <2>3. "3A" \in sof'.left <=> "3A" \in sof.left  BY <1>n, <2>1
  <2> QED  BY <1>1, <2>1, <2>2, <2>3 DEF LostInv
<1> QED  BY <1>2, <1>3, <1>4, <1>5, <1>6 DEF Next

\* A run's gains wait.
LEMMA EnteredAiq ==
    ASSUME ResultAssumption, Types, BoundInv, OrderInv, runAiq
    PROVE  EnteredInv'
<1>0. SensorType /\ SofInv /\ StartInv /\ AskInv /\ WaitInv
  BY DEF Types, BoundInv, OrderInv
<1> DEFINE a == run.applyingSeq
<1>1. run.pc = "expose" /\ updateSensorExposure(used.runs + 1, a)  BY DEF runAiq
<1>2. PICK fails \in {AiqMayFail, FALSE}, switch \in BOOLEAN :
         run' = [run EXCEPT !.pc = IF fails THEN "unlock" ELSE "done",
                            !.effect = effectSeq(a), !.aiqRun = ~ fails,
                            !.data = decodedStats',
                            !.skip = IF switch THEN NumSkip ELSE 0]
  BY DEF runAiq
<1>3. /\ mFirstAiqRunning' = mFirstAiqRunning
      /\ mAiqRunningForPerframe' = mAiqRunningForPerframe
  BY DEF runAiq, engineVars
<1>n. /\ run \in Runs /\ used.runs + 1 \in Nat /\ a \in Frames /\ a \in Int
      /\ Newest \in Int /\ ExposureLag \in Nat /\ mLastSofSequence \in Int /\ Size \in Nat
  BY <1>0, OrderNumbers, BoundNumbers DEF Frames
<1>4. run'.effect = effectSeq(a)
  BY <1>2, <1>n DEF Runs
<1> SUFFICES ASSUME ~ mFirstAiqRunning, Size' = 0
             PROVE  /\ mAiqRunningForPerframe
                    /\ \A x \in Registers :
                          Delay(x) > 0 => effectSeq(a) - Lag(x) \in DOMAIN waiting'[x]
  BY <1>3, <1>4 DEF EnteredInv, Lag, Delay
<1>5. mLastSofSequence >= 0  BY <1>0, <1>1 DEF StartInv
<1>6. a > 0 /\ a = mLastSofSequence => Newest < a + ExposureLag
  <2> SUFFICES ASSUME a > 0 PROVE Newest < a + ExposureLag
    OBVIOUS
  <2>1. mAiqRunningForPerframe  BY <1>0, <1>n DEF StartInv
  <2> QED  BY <1>0, <1>1, <2>1 DEF AskInv, Newest
<1>7. /\ ~ (a > 0 /\ a = mLastSofSequence) => Size' = Size + 1
      /\ Size' = Size \/ Size' = Size + 1
      /\ \A x \in Registers :
            LET k == sensorSeq(a) + Delay(x) IN
            /\ k \in Int
            /\ Size = 0 \/ ~ (a > 0 /\ a = mLastSofSequence) => k + Lag(x) = effectSeq(a)
  BY <1>0, <1>1, <1>5, <1>6, <1>n, UpdateOrder
<1>8. a > 0 /\ a = mLastSofSequence /\ Size = 0  BY <1>7, <1>n
<1>9. mAiqRunningForPerframe  BY <1>0, <1>8 DEF StartInv
<1>10. ASSUME NEW x \in Registers, Delay(x) > 0
       PROVE  effectSeq(a) - Lag(x) \in DOMAIN waiting'[x]
  <2>1. sensorSeq(a) = mLastSofSequence  BY <1>8 DEF sensorSeq
  <2>2. PICK k : k = sensorSeq(a) + Delay(x)  OBVIOUS
  <2>3. k \in Int /\ k + Lag(x) = effectSeq(a)  BY <1>7, <1>8, <2>2
  <2>4. Delay(x) \in Int /\ Lag(x) \in Int  BY LagFacts
  <2>5. k # mLastSofSequence  BY <1>n, <1>10, <2>1, <2>2, <2>4
  <2>6. PICK c \in Nat : c = used.runs + 1  BY <1>n
  <2>7. waiting'[x] = Enter(waiting[x], k, c)
    BY <1>0, <1>1, <1>5, <1>n, <2>2, <2>5, <2>6, UpdateRegister
  <2>8. k \in DOMAIN waiting'[x]  BY <2>7 DEF Enter
  <2>9. effectSeq(a) - Lag(x) = k  BY <2>3, <2>4
  <2> QED  BY <2>8, <2>9
<1> QED  BY <1>9, <1>10

\* Every step keeps that.
LEMMA EnteredStep ==
    ASSUME ResultAssumption, Types, BoundInv, OrderInv, EnteredInv, [Next]_vars
    PROVE  EnteredInv'
<1>0. SensorType /\ SofInv /\ FirstInv /\ StartInv /\ WaitInv
  BY DEF Types, BoundInv, OrderInv
<1>n. run \in Runs /\ Newest \in Int /\ used.runs \in Nat /\ -1 \in Frames /\ Size \in Nat
  BY <1>0, OrderNumbers
<1>1. CASE runAiq  BY <1>1, EnteredAiq
<1>2. CASE SkipResult
  <2>1. run.pc = "done" /\ run.skip > 0 /\ updateSensorExposure(used.runs, -1)
    BY <1>2 DEF SkipResult
  <2>2. mLastSofSequence >= 0
    BY <1>0, <2>1 DEF FirstInv, StartInv
  <2>3. ~ (-1 > 0)  OBVIOUS
  <2>4. -1 > 0 /\ -1 = mLastSofSequence => Newest < -1 + ExposureLag  BY <2>3
  <2>5. Size' = Size + 1
    BY <1>0, <1>n, <2>1, <2>2, <2>3, <2>4, UpdateOrder
  <2>6. Size' # 0  BY <1>n, <2>5
  <2> QED  BY <2>6 DEF EnteredInv
<1>3. CASE SensorFrame
  <2>1. PICK lost \in BOOLEAN : NextFrame(lost)  BY <1>3 DEF SensorFrame
  <2>2. waiting' = waiting  BY <2>1 DEF NextFrame
  <2>3. run' = run /\ mFirstAiqRunning' = mFirstAiqRunning
        /\ mAiqRunningForPerframe' = mAiqRunningForPerframe
    BY <1>3 DEF SensorFrame, engineVars
  <2> QED  BY <2>2, <2>3 DEF EnteredInv, Lag, Delay, Size, mExposureDataMap
<1>4. CASE RequestsSof \/ decodeStatsData \/ UNCHANGED vars
  <2>1. /\ waiting' = waiting /\ run' = run /\ mFirstAiqRunning' = mFirstAiqRunning
        /\ mAiqRunningForPerframe' = mAiqRunningForPerframe
    BY <1>4 DEF RequestsSof, decodeStatsData, AcquireStats, FillStats, UpdateStats,
       DecodeStats, vars, sensorVars, engineVars
  <2> QED  BY <2>1 DEF EnteredInv, Lag, Delay, Size, mExposureDataMap
<1>5. CASE handleEvent \/ GiveUp \/ startEngine
  <2>1. run.pc = "idle" /\ run' = run  BY <1>5 DEF handleEvent, GiveUp, startEngine
  <2> QED  BY <2>1 DEF EnteredInv
<1>6. CASE run3A
  <2> DEFINE stats == IF mFirstAiqRunning THEN -1 ELSE LockableStats
  <2>1. PICK seq : run' = [NoRun EXCEPT
                              !.pc = IF needRun3A(stats) THEN "expose" ELSE "unlock",
                              !.applyingSeq = seq, !.stats = stats,
                              !.seq = IF stats = -1 THEN -1
                                      ELSE mAiqStatistics[stats].mSequence]
    BY <1>6 DEF run3A
  <2> HIDE DEF stats
  <2>2. run'.pc \in {"expose", "unlock"}  BY <2>1 DEF NoRun
  <2> QED  BY <2>2 DEF EnteredInv
<1>7. CASE done \/ UnlockStats \/ Return
  <2>1. \/ run' = [run EXCEPT !.pc = "unlock"] \/ run' = [run EXCEPT !.pc = "return"]
        \/ run' = NoRun
    BY <1>7 DEF done, UnlockStats, Return
  <2>2. run'.pc # "done"  BY <2>1, <1>n DEF NoRun, Runs
  <2> QED  BY <2>2 DEF EnteredInv
<1> QED  BY <1>1, <1>2, <1>3, <1>4, <1>5, <1>6, <1>7 DEF Next

\* The result that getAiqResult() finds for a frame is the one the frame was exposed
\* with, exposure and gains, as long as a pipeline may ask for it.
THEOREM FramesGetTheirResult ==
    ASSUME ResultAssumption, LossAssumption
    PROVE  Spec => []ResultOfFrame
<1> DEFINE Inv == ResultInv /\ LostInv /\ EnteredInv
<1>1. Init => Inv  BY ResultInit, LostInit
<1>2. Inv /\ [Next]_vars => Inv'
  BY ResultStep, LostStep, EnteredStep DEF ResultInv
<1>3. Inv => ResultOfFrame
  <2> SUFFICES ASSUME Inv PROVE ResultOfFrame
    OBVIOUS
  <2>1. Judged => StoredInTime  BY InTime DEF ResultInv
  <2> QED  BY <2>1, HeldIsUsed DEF ResultInv
<1> QED  BY <1>1, <1>2, <1>3, PTL DEF Spec

=============================================================================
