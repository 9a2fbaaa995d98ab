--------------------------- MODULE SensorManager ---------------------------
(***************************************************************************)
(* SensorManager, src/src/3a/SensorManager.cpp, for a sensor without HDR:   *)
(* the exposure of a 3A run goes to the sensor at the SOF that it is meant  *)
(* for, each gain some SOFs earlier or later, so that all take effect in    *)
(* one frame, the effect sequence of the run.                              *)
(*                                                                         *)
(* The sensor is external: what is written to the register of a parameter  *)
(* in frame s takes effect in frame s + lag.  A value is the number of the  *)
(* AE run it comes from.                                                   *)
(***************************************************************************)
EXTENDS Integers, Sequences, FiniteSets, SequencesExt

CONSTANTS
    ExposureLag,      \* getExposureLag()
    Gains,            \* the gains: analog, digital
    GainDelay,        \* gain -> mAnalogGainDelay, mDigitalGainDelay
    InitialSkipFrame  \* getInitialSkipFrame()

Registers == Gains \cup {"exposure"}

ASSUME SensorAssumption ==
    /\ ExposureLag \in Nat \ {0} /\ InitialSkipFrame \in Nat
    /\ "exposure" \notin Gains
    /\ GainDelay \in [Gains -> Int] /\ \A g \in Gains : GainDelay[g] <= ExposureLag

VARIABLES
    written,           \* register -> its value at the end of frame -1, 0, ...
    sof,               \* the SOF event under way: sequence, listeners to call
    mLastSofSequence,  \* -1: none yet
    waiting,           \* register -> mExposureDataMap, mAnalogGainMap,
                       \* mDigitalGainMap: sequence -> value
    missed             \* the runs written late or never, as an SOF was lost

sensorVars == <<written, sof, mLastSofSequence, waiting, missed>>

-----------------------------------------------------------------------------
\* the frame the sensor exposes; -1 before the stream starts
frame == Len(written["exposure"]) - 2

Delay(x) == IF x = "exposure" THEN 0 ELSE GainDelay[x]
Lag(x)   == ExposureLag - Delay(x)

\* the value frame f is captured with
Used(x, f) == written[x][Max({f - Lag(x), -1}) + 2]

mExposureDataMap == waiting["exposure"]
Size == Cardinality(DOMAIN mExposureDataMap)

\* getCurrentExposureAppliedDelay()
getCurrentExposureAppliedDelay == Size + ExposureLag

\* reset(), with the sensor stopped and its registers as they are
ResetSensor ==
    /\ written' = [x \in Registers |-> <<Last(written[x])>>]
    /\ sof' = [seq |-> -1, left |-> {}]
    /\ mLastSofSequence' = -1
    /\ waiting' = [x \in Registers |-> <<>>]
    /\ missed' = {}

Write(x, value) == [written[x] EXCEPT ![Len(written[x])] = value]

\* Mutant: the maps are cleared
handleSensorExposureMutant(seq) ==
    /\ written' = [x \in Registers |->
          IF seq \in DOMAIN waiting[x] THEN Write(x, waiting[x][seq]) ELSE written[x]]
    /\ waiting' = [x \in Registers |-> <<>>]
\* handleSensorExposure(): the entries of exactly this sequence
handleSensorExposure(seq) ==
    /\ written' = [x \in Registers |->
          IF seq \in DOMAIN waiting[x] THEN Write(x, waiting[x][seq]) ELSE written[x]]
    /\ waiting' = [x \in Registers |-> RestrictDomain(waiting[x], LAMBDA s : s # seq)]

handleSofEvent ==
    /\ "3A" \in sof.left
    /\ mLastSofSequence' = sof.seq
    /\ handleSensorExposure(sof.seq)
    /\ sof' = [sof EXCEPT !.left = @ \ {"3A"}]
    /\ UNCHANGED missed

\* The sensor begins a frame; its SOF event may be lost
NextFrame(lost) ==
    /\ sof.left = {}
    /\ written' = [x \in Registers |-> Append(written[x], Last(written[x]))]
    /\ sof' = [seq |-> frame + 1, left |-> IF lost THEN {} ELSE {"3A", "requests"}]
    /\ missed' = missed \cup (IF lost
          THEN {waiting[x][frame + 1] :
                   x \in {y \in Registers : frame + 1 \in DOMAIN waiting[y]}}
          ELSE {})
    /\ UNCHANGED <<mLastSofSequence, waiting>>

\* updateSensorExposure(), for PlatformData::isWaitFirstStats(): the SOF to write at
\* and the effect sequence
Predicted == IF mLastSofSequence < 0 THEN 0 ELSE mLastSofSequence + ExposureLag
sensorSeq(applyingSeq) ==
    IF applyingSeq > 0 /\ applyingSeq = mLastSofSequence
    THEN applyingSeq ELSE mLastSofSequence + Size + 1

\* Mutant: the size of the map before the entry is added
effectSeqMutant(applyingSeq) ==
    IF Predicted = 0 THEN InitialSkipFrame ELSE Predicted + Size

effectSeq(applyingSeq) ==
    IF Predicted = 0 THEN InitialSkipFrame
    ELSE Predicted + Cardinality(DOMAIN mExposureDataMap
            \cup ({sensorSeq(applyingSeq)} \ {mLastSofSequence}))

\* mExposureDataMap[seq] = value
Enter(map, seq, value) ==
    [s \in DOMAIN map \cup {seq} |-> IF s = seq THEN value ELSE map[s]]

updateSensorExposure(n, applyingSeq) ==
    LET key(x) == sensorSeq(applyingSeq) + Delay(x)
        now    == IF Predicted = 0 THEN Registers
                  ELSE {x \in Registers : key(x) = mLastSofSequence}
        coming == IF "3A" \in sof.left THEN sof.seq ELSE sof.seq + 1
        late(x) == Predicted # 0 /\ key(x) < (IF x \in now THEN frame ELSE coming)
    IN  /\ written' = [x \in Registers |->
              IF x \in now THEN Write(x, n) ELSE written[x]]
        /\ waiting' = [x \in Registers |->
              IF x \in now THEN waiting[x] ELSE Enter(waiting[x], key(x), n)]
        /\ missed' = missed \cup (IF \E x \in Registers : late(x) THEN {n} ELSE {})
        /\ UNCHANGED <<sof, mLastSofSequence>>

=============================================================================
