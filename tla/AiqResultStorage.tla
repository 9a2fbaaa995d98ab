-------------------------- MODULE AiqResultStorage --------------------------
(***************************************************************************)
(* AiqResultStorage, src/src/3a/AiqResultStorage.cpp: a ring of 3A results, *)
(* which all threads look up by frame, and a ring of AiqStatistics, which   *)
(* the executors fill and AiqEngine locks while it uses them.  The pointers *)
(* the storage gives out are used without its lock.  An AiqStatistics only  *)
(* says which frame the statistics are of, and whether they wait to be     *)
(* decoded; what was decoded is in IntelCca.                               *)
(***************************************************************************)
EXTENDS Integers, Sequences

CONSTANTS
    StorageSize,         \* kStorageSize
    kAiqStatsStorageSize

ASSUME StorageAssumption == {StorageSize, kAiqStatsStorageSize} \subseteq Nat \ {0, 1}

VARIABLES
    mAiqResults, mCurrentIndex,
    mAiqStatistics, mCurrentAiqStatsIndex

resultVars == <<mAiqResults, mCurrentIndex>>

-----------------------------------------------------------------------------
NextIndex   == (mCurrentIndex + 1) % StorageSize
NewResult   == [mSequence |-> -1, value |-> 0, mSkip |-> FALSE]
NoResult    == [mSequence |-> -1, value |-> -1, mSkip |-> FALSE]

\* acquireAiqResult(); the caller fills the result, which nobody can find
acquireAiqResult == mAiqResults' = [mAiqResults EXCEPT ![NextIndex].mSequence = -1]

\* updateAiqResult(), of the result acquired last
updateAiqResult(result) ==
    /\ mAiqResults' = [mAiqResults EXCEPT ![NextIndex] = result]
    /\ mCurrentIndex' = NextIndex

\* getAiqResult() without a sequence: the newest
LatestResult == mAiqResults[IF mCurrentIndex = -1 THEN 0 ELSE mCurrentIndex]

\* getAiqResult(sequence): the newest that is not for a later frame
getAiqResult(sequence) ==
    LET at(i)  == mAiqResults[(mCurrentIndex + StorageSize - i) % StorageSize]
        fits   == {i \in 0..(StorageSize - 1) :
                      at(i).mSequence >= 0 /\ sequence >= at(i).mSequence}
    IN  IF fits = {} THEN NoResult
        ELSE at(CHOOSE i \in fits : \A j \in fits : i <= j)

\* Mutant: the next slot, also when it is in use
StatsSlotMutant == (mCurrentAiqStatsIndex + 1) % kAiqStatsStorageSize

NextStats(i) == (i + 1) % kAiqStatsStorageSize
\* acquireAiqStatistics(): the next slot, or the one after it
StatsSlot ==
    LET next == NextStats(mCurrentAiqStatsIndex)
    IN  IF mAiqStatistics[next].mInUse THEN NextStats(next) ELSE next

acquireAiqStatistics ==
    LET next == NextStats(mCurrentAiqStatsIndex) IN
    /\ mCurrentAiqStatsIndex' =
          IF StatsSlot = next THEN mCurrentAiqStatsIndex ELSE next
    /\ mAiqStatistics' = [mAiqStatistics EXCEPT ![StatsSlot].mSequence = -1]

\* updateAiqStatistics(): the slot acquired last is the newest
updateAiqStatistics(sequence) ==
    LET next == NextStats(mCurrentAiqStatsIndex) IN
    /\ mCurrentAiqStatsIndex' = next
    /\ mAiqStatistics' = [mAiqStatistics EXCEPT ![next].mSequence = sequence]

\* getAndLockAiqStatistics(): -1 for none
LockableStats ==
    IF /\ mCurrentAiqStatsIndex # -1
       /\ mAiqStatistics[mCurrentAiqStatsIndex].mSequence # -1
    THEN mCurrentAiqStatsIndex ELSE -1

LockStats(slot) ==
    mAiqStatistics' = IF slot = -1 THEN mAiqStatistics
                      ELSE [mAiqStatistics EXCEPT ![slot].mInUse = TRUE]

unLockAiqStatistics ==
    mAiqStatistics' = [i \in DOMAIN mAiqStatistics |->
                          [mAiqStatistics[i] EXCEPT !.mInUse = FALSE]]

=============================================================================
