----------------------------- MODULE AiqEngine -----------------------------
(***************************************************************************)
(* AiqEngine, src/src/3a/AiqEngine.cpp: the request thread runs 3A for its  *)
(* requests, the SOF thread lets SensorManager write to the sensor, both    *)
(* under mEngineLock; an executor stores statistics and the pipelines look  *)
(* results up, both without it.                                            *)
(*                                                                         *)
(* With per-frame control RequestThread asks for one run per SOF, and says  *)
(* which SOF it is for (applyingSeq); without it 3A runs when there are new *)
(* statistics.  SOF events are handled within their frame, and a run for   *)
(* the SOF that is under way writes to the sensor within it.               *)
(***************************************************************************)
EXTENDS SensorManager, AiqResultStorage

CONSTANTS
    PerFrame,         \* the values of isFeatureSupported(PER_FRAME_CONTROL)
    kMaxExposureAppliedDelay,
    NumSkip,          \* results to skip when the tuning mode changes
    EarlyFirstSof,    \* RequestThread may run 3A for the first SOF before 3A sees it
    AiqMayFail,       \* AiqCore::runAiq() may fail after the exposure was set
    StatsRunningRate, \* the values of isStatsRunningRateSupport(); no result asks
                      \* for RGBS callbacks
    Behind,           \* frames the pipelines are behind the sensor
    MaxFrames, MaxRuns, MaxLost, MaxSwitches, MaxSessions
                      \* bounds; a restart takes the time of a frame

ASSUME EngineAssumption ==
    /\ {PerFrame, StatsRunningRate} \subseteq SUBSET BOOLEAN
    /\ {EarlyFirstSof, AiqMayFail} \subseteq BOOLEAN
    /\ {kMaxExposureAppliedDelay, NumSkip, Behind, MaxFrames, MaxRuns, MaxLost,
        MaxSwitches, MaxSessions} \subseteq Nat
    /\ kMaxExposureAppliedDelay >= ExposureLag

VARIABLES
    mAiqRunningForPerframe, mFirstAiqRunning,
    statsSequnce,  \* mAiqRunningHistory
    run,           \* run3A() under way, mEngineLock is held unless "idle"
    decoder,       \* decodeStatsData(): the slot it fills, the frame, the last one,
                   \* and whether decoding is left to 3A
    decodedStats,  \* external, IntelCca: the frame whose statistics were decoded last,
                   \* -1 for none of this session
    requests,      \* RequestThread: mLastSofSeq, mLastAppliedSeq, mLastEffectSeq
    used           \* of the bounds: frames, runs, lost SOFs, mode switches, sessions

statsVars  == <<mAiqStatistics, mCurrentAiqStatsIndex, decodedStats>>
engineVars == <<mAiqRunningForPerframe, mFirstAiqRunning, statsSequnce>>
vars == <<sensorVars, resultVars, statsVars, engineVars, run, decoder, requests, used>>

\* seq: the frame of the locked statistics; data: the frame of those it computes with
NoRun     == [pc |-> "idle", applyingSeq |-> -1, stats |-> -1, seq |-> -1, data |-> -1,
              effect |-> -1, skip |-> 0, aiqRun |-> FALSE]
NoDecoder(pending) ==
    [pc |-> "idle", slot |-> -1, seq |-> -1, last |-> -1, pending |-> pending]
NewRequests == [sof |-> -1, applied |-> -1, effect |-> -1]

-----------------------------------------------------------------------------
Init ==
    /\ written = [x \in Registers |-> <<0>>]
    /\ sof = [seq |-> -1, left |-> {}]
    /\ mLastSofSequence = -1
    /\ waiting = [x \in Registers |-> <<>>]
    /\ missed = {}
    /\ mAiqResults = [i \in 0..(StorageSize - 1) |-> NewResult]
    /\ mCurrentIndex = -1
    /\ mAiqStatistics = [i \in 0..(kAiqStatsStorageSize - 1) |->
                            [mSequence |-> -1, mTimestamp |-> -1,
                             mPendingDecode |-> FALSE, mInUse |-> FALSE]]
    /\ mCurrentAiqStatsIndex = -1
    /\ mAiqRunningForPerframe \in PerFrame
    /\ mFirstAiqRunning = TRUE
    /\ statsSequnce = -1
    /\ run = NoRun /\ requests = NewRequests
    /\ \E pending \in StatsRunningRate : decoder = NoDecoder(pending)
    /\ decodedStats = -1
    /\ used = [frames |-> 0, runs |-> 0, lost |-> 0, switches |-> 0, sessions |-> 1]

-----------------------------------------------------------------------------
(* The sensor, the SOF thread and the executor with the statistics.        *)

WritesNow == run.pc = "expose" /\ run.applyingSeq = mLastSofSequence

\* CameraDevice starts the sensor after the first request is done
SensorFrame ==
    /\ used.frames < MaxFrames
    /\ ~ mFirstAiqRunning /\ ~ WritesNow
    /\ \E lost \in BOOLEAN :
        /\ lost => used.lost < MaxLost
        /\ NextFrame(lost)
        /\ used' = [used EXCEPT !.frames = @ + 1,
                                !.lost = IF lost THEN @ + 1 ELSE @]
    /\ UNCHANGED <<resultVars, statsVars, engineVars, run, decoder, requests>>

\* handleEvent(), under mEngineLock
handleEvent ==
    /\ run.pc = "idle"
    /\ handleSofEvent
    /\ UNCHANGED <<resultVars, statsVars, engineVars, run, decoder, requests, used>>

\* RequestThread::handleEvent(), before or after it
RequestsSof ==
    /\ "requests" \in sof.left
    /\ requests' = [requests EXCEPT !.sof = sof.seq]
    /\ sof' = [sof EXCEPT !.left = @ \ {"requests"}]
    /\ UNCHANGED <<written, mLastSofSequence, waiting, missed, resultVars, statsVars,
                   engineVars, run, decoder, used>>

\* IspParamAdaptor::decodeStatsData() for a frame that has been processed: a slot,
\* what it says of the frame, with no lock, its publication, and only then, again
\* with no lock, the decoding
AcquireStats ==
    /\ decoder.pc = "idle"
    /\ decoder.last + 1 < frame
    /\ decoder' = [decoder EXCEPT !.pc = "fill", !.slot = StatsSlot,
                                  !.seq = decoder.last + 1, !.last = decoder.last + 1]
    /\ acquireAiqStatistics
    /\ UNCHANGED <<sensorVars, resultVars, decodedStats, engineVars, run, requests, used>>

FillStats ==
    /\ decoder.pc = "fill"
    /\ mAiqStatistics' = [mAiqStatistics EXCEPT
          ![decoder.slot].mSequence = decoder.seq,
          ![decoder.slot].mTimestamp = decoder.seq,
          ![decoder.slot].mPendingDecode = decoder.pending]
    /\ decoder' = [decoder EXCEPT !.pc = "update"]
    /\ UNCHANGED <<sensorVars, resultVars, mCurrentAiqStatsIndex, decodedStats, engineVars,
                   run, requests, used>>

UpdateStats ==
    /\ decoder.pc = "update"
    /\ updateAiqStatistics(decoder.seq)
    /\ decoder' = [decoder EXCEPT !.pc = IF decoder.pending THEN "idle" ELSE "decode",
                                  !.slot = -1]
    /\ UNCHANGED <<sensorVars, resultVars, decodedStats, engineVars, run, requests, used>>

\* IntelCca::decodeStats(), which does not fail here
DecodeStats ==
    /\ decoder.pc = "decode"
    /\ decodedStats' = decoder.seq
    /\ decoder' = [decoder EXCEPT !.pc = "idle"]
    /\ UNCHANGED <<sensorVars, resultVars, mAiqStatistics, mCurrentAiqStatsIndex,
                   engineVars, run, requests, used>>

decodeStatsData == AcquireStats \/ FillStats \/ UpdateStats \/ DecodeStats

-----------------------------------------------------------------------------
(* The request thread.                                                     *)

\* RequestThread::threadLoop(): the SOF a request is for.  Too early a one is given
\* up, but mLastAppliedSeq is set.
ApplyingSeqs ==
    {requests.sof + 1}
        \cup (IF requests.sof > requests.applied THEN {requests.sof} ELSE {})
TooEarly(seq) == seq + ExposureLag <= requests.effect

GiveUp ==
    /\ run.pc = "idle" /\ mAiqRunningForPerframe
    /\ \E seq \in ApplyingSeqs :
        /\ TooEarly(seq)
        /\ requests' = [requests EXCEPT !.applied = seq]
    /\ UNCHANGED <<sensorVars, resultVars, statsVars, engineVars, run, decoder, used>>

\* Mutant: the exposures that wait are not looked at
needRun3AMutant(stats) ==
    \/ mAiqRunningForPerframe
    \/ mFirstAiqRunning
    \/ stats # -1 /\ statsSequnce # mAiqStatistics[stats].mSequence
\* needRun3A(), for run3ACadence = 1; stats: the slot, -1 for none
needRun3A(stats) ==
    \/ mAiqRunningForPerframe
    \/ mFirstAiqRunning
    \/ /\ stats # -1
       /\ statsSequnce # mAiqStatistics[stats].mSequence
       /\ getCurrentExposureAppliedDelay <= kMaxExposureAppliedDelay

\* run3A() up to prepareInputParam()
run3A ==
    LET stats == IF mFirstAiqRunning THEN -1 ELSE LockableStats IN
    /\ run.pc = "idle" /\ used.runs < MaxRuns
    /\ frame = -1 => mFirstAiqRunning
    /\ mLastSofSequence = -1 /\ ~ EarlyFirstSof => frame = -1
    /\ \E seq \in IF mAiqRunningForPerframe THEN ApplyingSeqs ELSE {-1} :
        /\ mAiqRunningForPerframe => ~ TooEarly(seq)
        /\ seq = mLastSofSequence => "3A" \notin sof.left
        /\ requests' = [requests EXCEPT !.applied = seq]
        /\ run' = [NoRun EXCEPT !.pc = IF needRun3A(stats) THEN "expose" ELSE "unlock",
                                !.applyingSeq = seq, !.stats = stats,
                                !.seq = IF stats = -1 THEN -1
                                        ELSE mAiqStatistics[stats].mSequence]
    /\ LockStats(stats)
    /\ acquireAiqResult
    /\ UNCHANGED <<sensorVars, mCurrentIndex, mCurrentAiqStatsIndex, decodedStats,
                   engineVars, decoder, used>>

\* AiqCore::setStatsParams(): statistics that wait to be decoded are decoded by 3A; they
\* wait on when some of them are bypassed.  IntelCca still holds their hardware buffer,
\* one of the last kMaxQueueSize.
setStatsParams ==
    IF run.stats # -1 /\ mAiqStatistics[run.stats].mPendingDecode
    THEN /\ decodedStats' = mAiqStatistics[run.stats].mSequence
         /\ \E bypassed \in BOOLEAN :
               mAiqStatistics' = [mAiqStatistics EXCEPT
                                     ![run.stats].mPendingDecode = bypassed]
         /\ UNCHANGED mCurrentAiqStatsIndex
    ELSE UNCHANGED statsVars

\* prepareInputParam() and runAiq(): the statistics, AE, setSensorExposure(), and the
\* other algorithms, which may fail; a change of the tuning mode makes done() repeat the
\* result.  getAiqRunningInterval() is 1: no run copies the last result instead.
runAiq ==
    /\ run.pc = "expose"
    /\ setStatsParams
    /\ updateSensorExposure(used.runs + 1, run.applyingSeq)
    /\ \E fails \in {AiqMayFail, FALSE}, switch \in BOOLEAN :
        /\ switch => ~ mFirstAiqRunning /\ used.switches < MaxSwitches
        /\ used' = [used EXCEPT !.runs = @ + 1,
                                !.switches = IF switch THEN @ + 1 ELSE @]
        /\ run' = [run EXCEPT !.pc = IF fails THEN "unlock" ELSE "done",
                              !.effect = effectSeq(run.applyingSeq),
                              !.aiqRun = ~ fails, !.data = decodedStats',
                              !.skip = IF switch THEN NumSkip ELSE 0]
    /\ UNCHANGED <<resultVars, engineVars, decoder, requests>>

Result(skip) == [mSequence |-> run.effect, value |-> used.runs, mSkip |-> skip]

\* done(): a result to skip, and the exposure once more for the next one
SkipResult ==
    /\ run.pc = "done" /\ run.skip > 0
    /\ mAiqResults' = [mAiqResults EXCEPT
          ![NextIndex] = Result(TRUE),
          ![(NextIndex + 1) % StorageSize].mSequence = -1]
    /\ mCurrentIndex' = NextIndex
    /\ updateSensorExposure(used.runs, -1)
    /\ run' = [run EXCEPT !.skip = @ - 1, !.effect = effectSeq(-1)]
    /\ UNCHANGED <<statsVars, engineVars, decoder, requests, used>>

done ==
    /\ run.pc = "done" /\ run.skip = 0
    /\ updateAiqResult(Result(FALSE))
    /\ mFirstAiqRunning' = FALSE
    /\ run' = [run EXCEPT !.pc = "unlock"]
    /\ UNCHANGED <<sensorVars, statsVars, mAiqRunningForPerframe, statsSequnce, decoder,
                   requests, used>>

UnlockStats ==
    /\ run.pc = "unlock"
    /\ unLockAiqStatistics
    /\ run' = [run EXCEPT !.pc = "return"]
    /\ UNCHANGED <<sensorVars, resultVars, mCurrentAiqStatsIndex, decodedStats, engineVars,
                   decoder, requests, used>>

\* run3A() from unLockAiqStatistics() on: it reads the statistics after the unlock
Return ==
    /\ run.pc = "return"
    /\ statsSequnce' = IF ~ run.aiqRun THEN statsSequnce
                       ELSE IF run.stats = -1 THEN -1
                       ELSE mAiqStatistics[run.stats].mSequence
    /\ requests' = [requests EXCEPT !.effect = LatestResult.mSequence]
    /\ run' = NoRun
    /\ UNCHANGED <<sensorVars, resultVars, statsVars, mAiqRunningForPerframe,
                   mFirstAiqRunning, decoder, used>>

\* stopEngine() and startEngine(), with the camera stopped; results stay in the storage
startEngine ==
    /\ run.pc = "idle" /\ decoder.pc = "idle" /\ frame >= 0
    /\ used.sessions < MaxSessions
    /\ used' = [used EXCEPT !.sessions = @ + 1, !.frames = @ + 1]
    /\ mFirstAiqRunning' = TRUE
    /\ mCurrentAiqStatsIndex' = -1 /\ decodedStats' = -1
    /\ ResetSensor
    /\ decoder' = NoDecoder(decoder.pending) /\ requests' = NewRequests
    /\ UNCHANGED <<resultVars, mAiqStatistics, mAiqRunningForPerframe, statsSequnce,
                   run>>

Next ==
    \/ SensorFrame \/ handleEvent \/ RequestsSof \/ decodeStatsData
    \/ GiveUp \/ run3A \/ runAiq \/ SkipResult \/ done \/ UnlockStats \/ Return
    \/ startEngine

Spec == Init /\ [][Next]_vars

-----------------------------------------------------------------------------
Frames  == Nat \cup {-1}
Points  == {"idle", "expose", "done", "unlock", "return"}
Results == [mSequence : Frames, value : Nat, mSkip : BOOLEAN]
Statistics == [mSequence : Frames, mTimestamp : Frames, mPendingDecode : BOOLEAN,
               mInUse : BOOLEAN]
Slots   == 0..(kAiqStatsStorageSize - 1)

SensorType ==
    /\ written \in [Registers -> Seq(Nat)] /\ frame \in Frames
    /\ \A x \in Registers : Len(written[x]) = frame + 2
    /\ sof \in [seq : Frames, left : SUBSET {"3A", "requests"}]
    /\ mLastSofSequence \in Frames /\ missed \subseteq Nat
    /\ DOMAIN waiting = Registers
    /\ \A x \in Registers :
        /\ DOMAIN waiting[x] \subseteq Int /\ IsFiniteSet(DOMAIN waiting[x])
        /\ \A seq \in DOMAIN waiting[x] : waiting[x][seq] \in Nat

StorageType ==
    /\ mAiqResults \in [0..(StorageSize - 1) -> Results]
    /\ mCurrentIndex \in -1..(StorageSize - 1)
    /\ mAiqStatistics \in [Slots -> Statistics]
    /\ mCurrentAiqStatsIndex \in Slots \cup {-1} /\ decodedStats \in Frames

ThreadType ==
    /\ mAiqRunningForPerframe \in BOOLEAN /\ mFirstAiqRunning \in BOOLEAN
    /\ statsSequnce \in Frames
    /\ run \in [pc : Points, applyingSeq : Frames, stats : Slots \cup {-1}, seq : Frames,
                data : Frames, effect : Frames, skip : Nat, aiqRun : BOOLEAN]
    /\ decoder \in [pc : {"idle", "fill", "update", "decode"}, slot : Slots \cup {-1},
                    seq : Frames, last : Frames, pending : BOOLEAN]
    /\ requests \in [sof : Frames, applied : Frames, effect : Frames]
    /\ used \in [frames : Nat, runs : Nat, lost : Nat, switches : Nat, sessions : Nat]

\* The types of the members and of the threads.  Without per-frame control
\* needRun3A() bounds the exposures that wait in mExposureDataMap.
TypeOK ==
    /\ SensorType /\ StorageType /\ ThreadType
    /\ mAiqRunningForPerframe
          \/ Size <= kMaxExposureAppliedDelay - ExposureLag + 1 + NumSkip

\* The result that getAiqResult() finds for a frame is the one the frame was exposed
\* with, all of exposure and gains, as long as a pipeline may ask for it; otherwise
\* ISP parameters and metadata belong to another exposure.  A result whose SOF was
\* lost is written late or never; with per-frame control this also shifts later
\* predictions.
ResultOfFrame ==
    \A f \in Max({InitialSkipFrame, frame - Behind})..(frame - 1) :
        LET value == getAiqResult(f).value IN
        \/ mAiqRunningForPerframe /\ missed # {}
        \/ value \in missed
        \/ \A x \in Registers : Used(x, f) = value

\* What a run reads of the statistics it has locked is of the frame it locked them for
\* until it unlocks them, however many frames are decoded meanwhile.  They may be
\* published and not decoded yet: 3A then computes with the ones before, or newer ones,
\* but never with older ones, and with exactly the ones it locked when it decodes them.
StatsWhole ==
    run.pc # "return" /\ run.stats # -1 =>
        LET slot == mAiqStatistics[run.stats]
        IN  /\ slot.mInUse /\ slot.mSequence = run.seq /\ slot.mTimestamp = run.seq
            /\ run.aiqRun => IF decoder.pending THEN run.data = run.seq
                                                ELSE run.data >= run.seq - 1

\* The effect sequences of the requests of a session never go back, whatever SOFs are
\* lost: PSysProcessor takes the input frames in their order.
EffectsInOrder ==
    [][requests'.effect >= requests.effect \/ used'.sessions > used.sessions]_vars

=============================================================================
