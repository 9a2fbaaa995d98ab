----------------------------- MODULE CameraHal -----------------------------
(***************************************************************************)
(* CameraHal, src/src/hal/CameraHal.cpp: each process opens and closes      *)
(* cameras under its mLock, and asks the table of CameraShm whether another *)
(* process has the camera.  Cameras of a virtual channel group (vcNum > 0)  *)
(* are only deinitialised when they are closed, and destroyed together when *)
(* the last one is.                                                        *)
(***************************************************************************)
EXTENDS CameraShm

CONSTANTS
    VcNums,     \* the vcNum values applications open a camera with
    Group,      \* camera -> its virtual channel group, -1: not such a sensor
    InitMayFail \* CameraDevice::init() may fail

ASSUME HalAssumption ==
    /\ IsFiniteSet(Pids) /\ IsFiniteSet(Cameras) /\ None \notin Pids \cup Cameras
    /\ VcNums \subseteq Nat /\ Group \in [Cameras -> Int]
    /\ InitMayFail \in BOOLEAN /\ MaxLive \in Nat

VARIABLES
    hal,      \* process -> mState, mVcNum, mCameraOpenNum, mCurrentGroupId
    device,   \* process -> camera -> mCameraDevices and mDeviceClosing
    mixed     \* the processes whose mCameraOpenNum counted another's camera

halVars == <<hal, device, mixed>>
vars == <<shmVars, call, halVars>>

\* "created": init() has not succeeded; "closing": deinitialised, not destroyed
DeviceStates == {"null", "created", "open", "closing"}
NoDevice == [c \in Cameras |-> "null"]
Closed(p) == \A c \in Cameras : device[p][c] \in {"null", "closing"}

-----------------------------------------------------------------------------
\* The types of the members; mCameraOpenNum may count cameras of other processes, and
\* deviceClose() takes one off for each camera that it closes, never more.
TypeOK ==
    /\ ShmTypeOK
    /\ hal \in [Pids -> [init : BOOLEAN, mVcNum : VcNums \cup {0},
                         mCameraOpenNum : -Cardinality(Cameras)..Cardinality(Cameras),
                         mCurrentGroupId : {Group[c] : c \in Cameras} \cup {-1}]]
    /\ device \in [Pids -> [Cameras -> DeviceStates]]
    /\ mixed \subseteq Pids

NewHal == [init |-> FALSE, mVcNum |-> 0, mCameraOpenNum |-> 0,
           mCurrentGroupId |-> -1]

Init ==
    /\ ShmInit
    /\ hal = [p \in Pids |-> NewHal]
    /\ device = [p \in Pids |-> NoDevice]
    /\ mixed = {}

\* init() and deinit(); an application closes its cameras before deinit()
init(p) ==
    /\ Pc(p) = "idle" /\ ~ hal[p].init
    /\ hal' = [hal EXCEPT ![p].init = TRUE, ![p].mVcNum = 0,
                          ![p].mCurrentGroupId = -1]
    /\ UNCHANGED <<shmVars, call, device, mixed>>

deinit(p) ==
    /\ Pc(p) = "idle" /\ hal[p].init /\ device[p] = NoDevice
    /\ hal' = [hal EXCEPT ![p].init = FALSE, ![p].mVcNum = 0,
                          ![p].mCurrentGroupId = -1]
    /\ UNCHANGED <<shmVars, call, device, mixed>>

\* deviceOpen() up to CameraDeviceOpen(); mVcNum and the group stay set when
\* the camera is in use
deviceOpen(p, c, vcNum) ==
    /\ Pc(p) = "idle" /\ hal[p].init
    /\ device[p][c] = "null"
    /\ hal[p].mCameraOpenNum = 0 \/ vcNum = hal[p].mVcNum
    /\ Group[c] >= 0 => hal[p].mCurrentGroupId \in {-1, Group[c]}
    /\ hal' = [hal EXCEPT ![p].mVcNum = vcNum,
                          ![p].mCurrentGroupId = IF Group[c] >= 0 THEN Group[c] ELSE @]
    /\ call' = [call EXCEPT ![p] = [pc |-> "open", cam |-> c]]
    /\ UNCHANGED <<shmVars, device, mixed>>

\* the rest of it: the device is created and stays, whatever fails
Opened(p) ==
    /\ Pc(p) = "count"
    /\ \E n \in 0..Cardinality(Cameras) :
        /\ cameraDeviceOpenNum(p, n)
        /\ hal' = [hal EXCEPT ![p].mCameraOpenNum = n]
        /\ \E state \in {"created", "open"} :
            /\ n = 0 => state = "created"
            /\ n # 0 /\ ~ InitMayFail => state = "open"
            /\ device' = [device EXCEPT ![p][Cam(p)] = state]
    /\ mixed' = mixed \cup (IF \E c \in Cameras : camDevStatus[c] \notin {None, p}
                            THEN {p} ELSE {})
    /\ call' = [call EXCEPT ![p] = [pc |-> "idle", cam |-> None]]
    /\ UNCHANGED shmVars

\* Mutant: a camera that is closing is counted again
deviceCloseMutant(p, c) ==
    /\ Pc(p) = "idle"
    /\ device[p][c] # "null"
    /\ LET vc == hal[p].mVcNum > 0 IN
        /\ device' = [device EXCEPT ![p][c] = IF vc THEN "closing" ELSE "null"]
        /\ hal' = [hal EXCEPT ![p].mCameraOpenNum = @ - 1]
    /\ call' = [call EXCEPT ![p] = [pc |-> "close", cam |-> c]]
    /\ UNCHANGED <<shmVars, mixed>>
\* deviceClose() up to CameraDeviceClose()
deviceClose(p, c) ==
    /\ Pc(p) = "idle"
    /\ device[p][c] # "null"
    /\ LET vc    == hal[p].mVcNum > 0
           again == vc /\ device[p][c] = "closing" IN
        /\ device' = [device EXCEPT ![p][c] = IF vc THEN "closing" ELSE "null"]
        /\ hal' = [hal EXCEPT ![p].mCameraOpenNum = IF again THEN @ ELSE @ - 1]
    /\ call' = [call EXCEPT ![p] = [pc |-> "close", cam |-> c]]
    /\ UNCHANGED <<shmVars, mixed>>

\* Mutant: the count is looked at before it is lowered
LastClosedMutant(p) == hal[p].mVcNum > 0 /\ hal[p].mCameraOpenNum = 1
\* deviceClose(): all virtual channel cameras are closed and get destroyed
LastClosed(p) == hal[p].mVcNum > 0 /\ hal[p].mCameraOpenNum = 0
DestroyClosed(p) ==
    /\ device' = [device EXCEPT ![p] = [c \in Cameras |->
                    IF @[c] = "closing" THEN "null" ELSE @[c]]]
    /\ hal' = [hal EXCEPT ![p].mVcNum = 0]

\* deviceClose() of a camera that is not open
CloseNothing(p) ==
    /\ Pc(p) = "idle" /\ LastClosed(p)
    /\ \E c \in Cameras : device[p][c] = "null"
    /\ DestroyClosed(p)
    /\ UNCHANGED <<shmVars, call, mixed>>

\* deviceClose(): the mark is removed, the virtual channel cameras destroyed
Closing(p) ==
    /\ Pc(p) = "close"
    /\ CameraDeviceClose(p)
    /\ IF LastClosed(p) THEN DestroyClosed(p) ELSE UNCHANGED <<device, hal>>
    /\ call' = [call EXCEPT ![p] = [pc |-> "idle", cam |-> None]]
    /\ UNCHANGED mixed

\* the destructor of CameraHal, with or without the cameras closed
Unload(p) ==
    /\ Pc(p) = "idle"
    /\ Goto(p, "release")
    /\ UNCHANGED <<shmVars, halVars>>

\* what a process leaves behind: nothing of its own memory
Gone(p) ==
    /\ hal' = [hal EXCEPT ![p] = NewHal]
    /\ device' = [device EXCEPT ![p] = NoDevice]
    /\ mixed' = mixed \ {p}

\* one step of a process
Process(p) ==
    \/ (openSemLock(p) \/ OpenSem(p) \/ TestSem(p) \/ UnlinkSem(p) \/ RecreateSem(p)
        \/ acquireSharedMemory(p) \/ CheckStatus(p) \/ MarkOpened(p))
       /\ UNCHANGED halVars
    \/ init(p) \/ deinit(p) \/ Opened(p) \/ Closing(p) \/ CloseNothing(p) \/ Unload(p)
    \/ \E c \in Cameras : deviceClose(p, c) \/ \E vc \in VcNums : deviceOpen(p, c, vc)
    \/ (releaseSharedMemory(p) \/ Crash(p)) /\ Gone(p)

Next == \E p \in Pids : Process(p)

Spec == Init /\ [][Next]_vars

-----------------------------------------------------------------------------
\* A camera is open in at most one process (CameraShm.h: "If the camera device
\* has already been opened in another process, it should not be opened again"),
\* through the crash of any process at any point, unless two processes have
\* recovered the semaphore of a crashed one at the same time.
Exclusive ==
    ~ doubleUnlink =>
        \A c \in Cameras : Cardinality({p \in Pids : device[p][c] = "open"}) <= 1

\* The mark of a process that runs is true: it has the camera, or is about to
\* get it or to remove the mark.  A camera that nobody uses can be opened.
\* A process that has lost its semaphore to a crash cannot remove marks.
MarksTrue ==
    \A c \in Cameras : LET p == camDevStatus[c] IN
        p # None /\ processExist(p) /\ ~ LockFails(p) =>
            \/ device[p][c] \in {"created", "open"}
            \/ Pc(p) \in {"count", "close"} /\ Cam(p) = c

\* When a process has closed all its cameras they are destroyed, those of
\* virtual channels too, and can be opened again with any vcNum, unless
\* mCameraOpenNum counted cameras of other processes.
Released ==
    ~ doubleUnlink => \A p \in Pids :
        Pc(p) = "idle" /\ p \notin mixed /\ ~ NoTable(p) /\ Closed(p) =>
            device[p] = NoDevice /\ hal[p].mCameraOpenNum = 0

=============================================================================
