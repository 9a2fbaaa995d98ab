------------------------- MODULE CameraHal_proofs -------------------------
(***************************************************************************)
(* Proofs about CameraHal and CameraShm for every number of processes and   *)
(* cameras, with a crash of any process at any point.  The invariant has a  *)
(* part for each thing a process relies on: where it is in its call         *)
(* (CallInv), what mCameraOpenNum has been lowered by (SpentInv), who holds *)
(* a semaphore (HolderInv), that all who can lock a semaphore lock the same *)
(* one (SameLock), whose marks the table has (OwnerInv), that a camera in   *)
(* use is marked (MarkedInv) and counted (CountInv).                       *)
(***************************************************************************)
EXTENDS CameraHal, FiniteSetTheorems, TLAPS

\* where a process is before it has attached the table
Early == {"out", "opensem", "test", "unlink", "recreate", "acquire"}

\* cameras that deviceClose() cannot take off mCameraOpenNum any more
Spent(p) == {c \in Cameras : \/ device[p][c] = "null"
                             \/ hal[p].mVcNum > 0 /\ device[p][c] = "closing"}
InUse(p) == {c \in Cameras : device[p][c] \in {"created", "open"}}

\* TypeOK without the bounds of mCameraOpenNum
Calls == [pc : Points, cam : Cameras \cup {None}]
Hals  == [init : BOOLEAN, mVcNum : VcNums \cup {0}, mCameraOpenNum : Int,
          mCurrentGroupId : {Group[c] : c \in Cameras} \cup {-1}]
MemoryType ==
    /\ call \in [Pids -> Calls]
    /\ hal \in [Pids -> Hals]
    /\ device \in [Pids -> [Cameras -> DeviceStates]]
    /\ mixed \subseteq Pids
TableType ==
    /\ semaphore \in [Pids -> Pids \cup {None}]
    /\ camlock \in Pids \cup {None}
    /\ mSemLock \in [Pids -> Pids \cup {None}]
    /\ attached \subseteq Pids
    /\ camDevStatus \in [Cameras -> Pids \cup {None}]
    /\ doubleUnlink \in BOOLEAN

CallInv == \A p \in Pids :
    /\ Pc(p) \in {"open", "mark", "count", "close"} => Cam(p) \in Cameras
    /\ Pc(p) \in {"open", "mark", "count"} => device[p][Cam(p)] = "null" /\ hal[p].init
    /\ Pc(p) = "close" => device[p][Cam(p)] \in {"null", "closing"}
    /\ Pc(p) \in Early \cup {"dead"} =>
         device[p] = NoDevice /\ hal[p] = NewHal /\ p \notin attached
    /\ ~ hal[p].init => device[p] = NoDevice

SpentInv == \A p \in Pids :
    /\ hal[p].mCameraOpenNum >= - Cardinality(Spent(p))
    /\ hal[p].mCameraOpenNum <= Cardinality(Cameras)

HolderOf(p) ==
    /\ Pc(p) = "mark" =>
         mSemLock[p] # None /\ semaphore[mSemLock[p]] = p /\ p \in attached
    /\ Pc(p) \in {"test", "unlink"} => mSemLock[p] # None
    /\ Pc(p) = "unlink" => LockFails(p)
    /\ semaphore[p] # None => Pc(semaphore[p]) # "out"
HolderInv == \A p \in Pids : HolderOf(p)

SameLock == ~ doubleUnlink => \A p \in Pids :
    mSemLock[p] # None /\ ~ LockFails(p) => mSemLock[p] = camlock

OwnerInv == \A c \in Cameras : camDevStatus[c] # None =>
    camDevStatus[c] \in attached \/ Pc(camDevStatus[c]) = "dead"

MarkedOf(p) ==
    /\ Pc(p) = "mark" => \/ camDevStatus[Cam(p)] = None
                         \/ Pc(camDevStatus[Cam(p)]) = "dead"
    /\ Pc(p) = "count" /\ ~ NoTable(p) => camDevStatus[Cam(p)] = p
    /\ \A c \in Cameras : device[p][c] = "open" => camDevStatus[c] = p
    /\ \A c \in Cameras : device[p][c] = "created" /\ ~ NoTable(p) => camDevStatus[c] = p
MarkedInv == ~ doubleUnlink => \A p \in Pids : MarkedOf(p)

Counted(p) ==
    /\ hal[p].mCameraOpenNum = Cardinality(InUse(p))
    /\ (\E c \in Cameras : device[p][c] = "closing") => hal[p].mVcNum > 0
    /\ Pc(p) # "close" /\ InUse(p) = {} => device[p] = NoDevice
CountInv == ~ doubleUnlink => \A p \in Pids :
    p \notin mixed /\ ~ NoTable(p) => Counted(p)

-----------------------------------------------------------------------------
(***************************************************************************)
(* What the actions do to the memory of the process, field by field.        *)
(***************************************************************************)
\* Goto() moves one process and keeps its camera.
LEMMA GotoEffect ==
  ASSUME MemoryType, NEW p \in Pids, NEW l \in Points, Goto(p, l)
  PROVE  /\ call' \in [Pids -> Calls]
         /\ call'[p].pc = l /\ call'[p].cam = call[p].cam
         /\ \A q \in Pids : q # p => call'[q] = call[q]
  BY DEF MemoryType, Goto, Calls

\* init() and deinit() reset mVcNum and the group and keep mCameraOpenNum.
LEMMA initEffect ==
  ASSUME MemoryType, NEW p \in Pids, init(p) \/ deinit(p)
  PROVE  /\ MemoryType'
         /\ hal'[p].mVcNum = 0 /\ hal'[p].mCameraOpenNum = hal[p].mCameraOpenNum
         /\ hal'[p].init \/ device[p] = NoDevice
         /\ \A q \in Pids : q # p => hal'[q] = hal[q]
<1>1. PICK on \in BOOLEAN :
        /\ on \/ device[p] = NoDevice
        /\ hal' = [hal EXCEPT ![p].init = on, ![p].mVcNum = 0, ![p].mCurrentGroupId = -1]
  BY DEF init, deinit
<1>2. hal' \in [Pids -> Hals]
  BY <1>1, ZenonT(60) DEF MemoryType, Hals
<1>3. /\ hal'[p].mVcNum = 0 /\ hal'[p].mCameraOpenNum = hal[p].mCameraOpenNum
      /\ hal'[p].init = on
      /\ \A q \in Pids : q # p => hal'[q] = hal[q]
  BY <1>1 DEF MemoryType, Hals
<1>4. UNCHANGED <<call, device, mixed>>
  BY DEF init, deinit
<1> QED BY <1>1, <1>2, <1>3, <1>4 DEF MemoryType

\* deviceOpen() changes mVcNum and the group only.
LEMMA deviceOpenEffect ==
  ASSUME MemoryType, NEW p \in Pids, NEW c \in Cameras, NEW vc \in VcNums,
         deviceOpen(p, c, vc)
  PROVE  /\ call' \in [Pids -> Calls] /\ hal' \in [Pids -> Hals]
         /\ call'[p].pc = "open" /\ call'[p].cam = c
         /\ hal'[p].init = hal[p].init /\ hal'[p].mVcNum = vc
         /\ hal'[p].mCameraOpenNum = hal[p].mCameraOpenNum
         /\ \A q \in Pids : q # p => hal'[q] = hal[q] /\ call'[q] = call[q]
<1>1. call' \in [Pids -> Calls] /\ call'[p].pc = "open" /\ call'[p].cam = c
  BY DEF deviceOpen, MemoryType, Calls, Points, LockPoints
<1>2. \A q \in Pids : q # p => hal'[q] = hal[q] /\ call'[q] = call[q]
  BY DEF deviceOpen, MemoryType
<1>3. PICK g \in {Group[d] : d \in Cameras} \cup {-1} :
        hal' = [hal EXCEPT ![p].mVcNum = vc, ![p].mCurrentGroupId = g]
  BY DEF deviceOpen, MemoryType, Hals
<1>4. hal' \in [Pids -> Hals]
  BY <1>3 DEF MemoryType, Hals
<1>5. hal'[p].init = hal[p].init /\ hal'[p].mVcNum = vc
      /\ hal'[p].mCameraOpenNum = hal[p].mCameraOpenNum
  BY <1>3 DEF MemoryType, Hals
<1> QED BY <1>1, <1>2, <1>4, <1>5

\* mCameraOpenNum of one process is set.
LEMMA CountEffect ==
  ASSUME MemoryType, NEW p \in Pids, NEW n \in Int,
         hal' = [hal EXCEPT ![p].mCameraOpenNum = n]
  PROVE  /\ hal' \in [Pids -> Hals] /\ hal'[p].mCameraOpenNum = n
         /\ hal'[p].init = hal[p].init /\ hal'[p].mVcNum = hal[p].mVcNum
         /\ \A q \in Pids : q # p => hal'[q] = hal[q]
  BY DEF MemoryType, Hals

\* The number of cameras is a natural number.
LEMMA CamerasCount == Cardinality(Cameras) \in Nat
  BY HalAssumption, FS_CardinalityType

\* The rest of deviceOpen() sets mCameraOpenNum and the state of the camera.
LEMMA OpenedEffect ==
  ASSUME MemoryType, NEW p \in Pids, Opened(p), Cam(p) \in Cameras
  PROVE  /\ call' \in [Pids -> Calls] /\ hal' \in [Pids -> Hals]
         /\ device' \in [Pids -> [Cameras -> DeviceStates]]
         /\ call'[p].pc = "idle"
         /\ hal'[p].init = hal[p].init /\ hal'[p].mVcNum = hal[p].mVcNum
         /\ hal'[p].mCameraOpenNum \in 0..Cardinality(Cameras)
         /\ cameraDeviceOpenNum(p, hal'[p].mCameraOpenNum)
         /\ device'[p][Cam(p)] \in {"created", "open"}
         /\ device'[p][Cam(p)] = "open" => hal'[p].mCameraOpenNum # 0
         /\ \A c \in Cameras : c # Cam(p) => device'[p][c] = device[p][c]
         /\ \A q \in Pids : q # p =>
              hal'[q] = hal[q] /\ call'[q] = call[q] /\ device'[q] = device[q]
<1>1. call' \in [Pids -> Calls] /\ call'[p].pc = "idle"
      /\ \A q \in Pids : q # p => call'[q] = call[q]
  BY DEF Opened, MemoryType, Calls, Points, LockPoints
<1>2. PICK n \in 0..Cardinality(Cameras), state \in {"created", "open"} :
        /\ cameraDeviceOpenNum(p, n)
        /\ hal' = [hal EXCEPT ![p].mCameraOpenNum = n]
        /\ n = 0 => state = "created"
        /\ device' = [device EXCEPT ![p][Cam(p)] = state]
  BY DEF Opened
<1>3. /\ hal' \in [Pids -> Hals] /\ hal'[p].mCameraOpenNum = n
      /\ hal'[p].init = hal[p].init /\ hal'[p].mVcNum = hal[p].mVcNum
      /\ \A q \in Pids : q # p => hal'[q] = hal[q]
  <2>1. n \in Int BY CamerasCount
  <2> QED BY <1>2, <2>1, CountEffect
<1>4. /\ device' \in [Pids -> [Cameras -> DeviceStates]]
      /\ device'[p][Cam(p)] = state
      /\ \A c \in Cameras : c # Cam(p) => device'[p][c] = device[p][c]
      /\ \A q \in Pids : q # p => device'[q] = device[q]
  BY <1>2 DEF MemoryType, DeviceStates
<1> QED BY <1>1, <1>2, <1>3, <1>4

\* deviceClose() takes a camera that is in use off mCameraOpenNum.
LEMMA deviceCloseEffect ==
  ASSUME MemoryType, NEW p \in Pids, NEW c \in Cameras, deviceClose(p, c)
  PROVE  /\ call' \in [Pids -> Calls] /\ hal' \in [Pids -> Hals]
         /\ device' \in [Pids -> [Cameras -> DeviceStates]]
         /\ call'[p].pc = "close" /\ call'[p].cam = c
         /\ hal'[p].init = hal[p].init /\ hal'[p].mVcNum = hal[p].mVcNum
         /\ hal'[p].mCameraOpenNum =
              IF hal[p].mVcNum > 0 /\ device[p][c] = "closing"
              THEN hal[p].mCameraOpenNum ELSE hal[p].mCameraOpenNum - 1
         /\ device'[p][c] = IF hal[p].mVcNum > 0 THEN "closing" ELSE "null"
         /\ \A d \in Cameras : d # c => device'[p][d] = device[p][d]
         /\ \A q \in Pids : q # p =>
              hal'[q] = hal[q] /\ call'[q] = call[q] /\ device'[q] = device[q]
<1>1. call' \in [Pids -> Calls] /\ call'[p].pc = "close" /\ call'[p].cam = c
      /\ \A q \in Pids : q # p => call'[q] = call[q]
  BY DEF deviceClose, MemoryType, Calls, Points, LockPoints
<1> DEFINE n == IF hal[p].mVcNum > 0 /\ device[p][c] = "closing"
                THEN hal[p].mCameraOpenNum ELSE hal[p].mCameraOpenNum - 1
<1>2. n \in Int /\ hal' = [hal EXCEPT ![p].mCameraOpenNum = n]
  BY DEF deviceClose, MemoryType, Hals
<1>3. /\ hal' \in [Pids -> Hals] /\ hal'[p].mCameraOpenNum = n
      /\ hal'[p].init = hal[p].init /\ hal'[p].mVcNum = hal[p].mVcNum
      /\ \A q \in Pids : q # p => hal'[q] = hal[q]
  <2> HIDE DEF n
  <2> QED BY <1>2, CountEffect
<1>4. PICK state \in DeviceStates :
        /\ state = IF hal[p].mVcNum > 0 THEN "closing" ELSE "null"
        /\ device' = [device EXCEPT ![p][c] = state]
  BY DEF deviceClose, DeviceStates
<1>5. /\ device' \in [Pids -> [Cameras -> DeviceStates]]
      /\ device'[p][c] = state
      /\ \A d \in Cameras : d # c => device'[p][d] = device[p][d]
      /\ \A q \in Pids : q # p => device'[q] = device[q]
  BY <1>4 DEF MemoryType
<1> QED BY <1>1, <1>2, <1>3, <1>4, <1>5

\* The last close destroys the cameras that are closing.
LEMMA DestroyEffect ==
  ASSUME MemoryType, NEW p \in Pids, DestroyClosed(p)
  PROVE  /\ hal' \in [Pids -> Hals]
         /\ device' \in [Pids -> [Cameras -> DeviceStates]]
         /\ hal'[p].init = hal[p].init /\ hal'[p].mVcNum = 0
         /\ hal'[p].mCameraOpenNum = hal[p].mCameraOpenNum
         /\ \A c \in Cameras : device'[p][c] =
              IF device[p][c] = "closing" THEN "null" ELSE device[p][c]
         /\ \A q \in Pids : q # p => hal'[q] = hal[q] /\ device'[q] = device[q]
<1>1. /\ hal' \in [Pids -> Hals]
      /\ hal'[p].init = hal[p].init /\ hal'[p].mVcNum = 0
      /\ hal'[p].mCameraOpenNum = hal[p].mCameraOpenNum
      /\ \A q \in Pids : q # p => hal'[q] = hal[q]
  BY DEF DestroyClosed, MemoryType, Hals
<1>2. /\ device' \in [Pids -> [Cameras -> DeviceStates]]
      /\ \A c \in Cameras : device'[p][c] =
           IF device[p][c] = "closing" THEN "null" ELSE device[p][c]
      /\ \A q \in Pids : q # p => device'[q] = device[q]
  BY DEF DestroyClosed, MemoryType, DeviceStates
<1> QED BY <1>1, <1>2

\* A process that ends leaves nothing of its memory.
LEMMA GoneEffect ==
  ASSUME MemoryType, NEW p \in Pids, Exit(p), Gone(p)
  PROVE  /\ MemoryType'
         /\ call'[p].pc = "dead" /\ hal'[p] = NewHal /\ device'[p] = NoDevice
         /\ \A q \in Pids : q # p =>
              hal'[q] = hal[q] /\ call'[q] = call[q] /\ device'[q] = device[q]
<1>1. NewHal \in Hals /\ NoDevice \in [Cameras -> DeviceStates]
      /\ [pc |-> "dead", cam |-> None] \in Calls
  BY DEF Hals, NewHal, NoDevice, DeviceStates, Calls, Points, LockPoints
<1> QED BY <1>1 DEF MemoryType, Exit, Gone


\* Every step keeps the types of the shared table and of the semaphores.
LEMMA TableStep ==
  ASSUME TableType, CallInv, [Next]_vars
  PROVE  TableType'
<1>1. CASE UNCHANGED vars
  BY <1>1 DEF vars, shmVars, halVars, TableType, CallInv, Pc, Cam, Free, CanLock, NoTable
<1>2. ASSUME NEW p \in Pids, Process(p)
      PROVE  TableType'
  <2>1. CASE openSemLock(p) /\ UNCHANGED halVars
    BY <2>1, HalAssumption DEF openSemLock, Create, halVars, TableType, CallInv, Pc, Cam, Free, CanLock, NoTable
  <2>2. CASE OpenSem(p) /\ UNCHANGED halVars
    BY <2>2, HalAssumption DEF OpenSem, halVars, TableType, CallInv, Pc, Cam, Free, CanLock, NoTable
  <2>3. CASE TestSem(p) /\ UNCHANGED halVars
    BY <2>3, HalAssumption DEF TestSem, shmVars, halVars, TableType, CallInv, Pc, Cam, Free, CanLock, NoTable
  <2>4. CASE UnlinkSem(p) /\ UNCHANGED halVars
    BY <2>4, HalAssumption DEF UnlinkSem, halVars, TableType, CallInv, Pc, Cam, Free, CanLock, NoTable
  <2>5. CASE RecreateSem(p) /\ UNCHANGED halVars
    BY <2>5, HalAssumption DEF RecreateSem, Create, halVars, TableType, CallInv, Pc, Cam, Free, CanLock, NoTable
  <2>6. CASE acquireSharedMemory(p) /\ UNCHANGED halVars
    BY <2>6, HalAssumption DEF acquireSharedMemory, ClearedTable, halVars, TableType, CallInv, Pc, Cam, Free, CanLock, NoTable
  <2>7. CASE CheckStatus(p) /\ UNCHANGED halVars
    BY <2>7, HalAssumption DEF CheckStatus, halVars, TableType, CallInv, Pc, Cam, Free, CanLock, NoTable
  <2>8. CASE MarkOpened(p) /\ UNCHANGED halVars
    BY <2>8, HalAssumption DEF MarkOpened, halVars, TableType, CallInv, Pc, Cam, Free, CanLock, NoTable
  <2>9. CASE init(p)
    BY <2>9, HalAssumption DEF init, shmVars, TableType, CallInv, Pc, Cam, Free, CanLock, NoTable
  <2>10. CASE deinit(p)
    BY <2>10, HalAssumption DEF deinit, shmVars, TableType, CallInv, Pc, Cam, Free, CanLock, NoTable
  <2>11. CASE Opened(p)
    BY <2>11, HalAssumption DEF Opened, shmVars, TableType, CallInv, Pc, Cam, Free, CanLock, NoTable
  <2>12. CASE Closing(p)
    BY <2>12, HalAssumption DEF Closing, CameraDeviceClose, TableType, CallInv, Pc, Cam, Free, CanLock, NoTable
  <2>13. CASE CloseNothing(p)
    BY <2>13, HalAssumption DEF CloseNothing, shmVars, TableType, CallInv, Pc, Cam, Free, CanLock, NoTable
  <2>14. CASE Unload(p)
    BY <2>14, HalAssumption DEF Unload, shmVars, halVars, TableType, CallInv, Pc, Cam, Free, CanLock, NoTable
  <2>15. ASSUME NEW c \in Cameras, deviceClose(p, c)
        PROVE  TableType'
    BY <2>15, HalAssumption DEF deviceClose, shmVars, TableType, CallInv, Pc, Cam, Free, CanLock, NoTable
  <2>16. ASSUME NEW c \in Cameras, NEW vc \in VcNums, deviceOpen(p, c, vc)
        PROVE  TableType'
    BY <2>16, HalAssumption DEF deviceOpen, shmVars, TableType, CallInv, Pc, Cam, Free, CanLock, NoTable
  <2>17. CASE releaseSharedMemory(p) /\ Gone(p)
    BY <2>17, HalAssumption DEF releaseSharedMemory, Exit, TableType, CallInv, Pc, Cam, Free, CanLock, NoTable
  <2>18. CASE Crash(p) /\ Gone(p)
    BY <2>18, HalAssumption DEF Crash, Exit, TableType, CallInv, Pc, Cam, Free, CanLock, NoTable
  <2> QED BY <1>2, <2>1, <2>2, <2>3, <2>4, <2>5, <2>6, <2>7, <2>8, <2>9, <2>10, <2>11, <2>12, <2>13, <2>14, <2>15, <2>16, <2>17, <2>18 DEF Process
<1> QED BY <1>1, <1>2 DEF Next

\* Every step keeps the types of the memory of the processes.
LEMMA MemoryStep ==
  ASSUME MemoryType, CallInv, [Next]_vars
  PROVE  MemoryType'
<1>1. CASE UNCHANGED vars
  BY <1>1 DEF vars, shmVars, halVars, MemoryType, CallInv, Pc, Cam, Points, LockPoints, Calls
<1>2. ASSUME NEW p \in Pids, Process(p)
      PROVE  MemoryType'
  <2>1. CASE openSemLock(p) /\ UNCHANGED halVars
    BY <2>1, GotoEffect DEF openSemLock, Create, halVars, Pc, MemoryType, Points, LockPoints
  <2>2. CASE OpenSem(p) /\ UNCHANGED halVars
    BY <2>2, GotoEffect DEF OpenSem, halVars, MemoryType, CallInv, Pc, Cam, Points, LockPoints, Calls
  <2>3. CASE TestSem(p) /\ UNCHANGED halVars
    BY <2>3, GotoEffect DEF TestSem, shmVars, halVars, MemoryType, CallInv, Pc, Cam, Points, LockPoints, Calls
  <2>4. CASE UnlinkSem(p) /\ UNCHANGED halVars
    BY <2>4, GotoEffect DEF UnlinkSem, halVars, MemoryType, CallInv, Pc, Cam, Points, LockPoints, Calls
  <2>5. CASE RecreateSem(p) /\ UNCHANGED halVars
    BY <2>5, GotoEffect DEF RecreateSem, Create, halVars, MemoryType, CallInv, Pc, Cam, Points, LockPoints, Calls
  <2>6. CASE acquireSharedMemory(p) /\ UNCHANGED halVars
    BY <2>6, GotoEffect DEF acquireSharedMemory, ClearedTable, halVars, MemoryType, CallInv, Pc, Cam, Points, LockPoints, Calls
  <2>7. CASE CheckStatus(p) /\ UNCHANGED halVars
    BY <2>7, GotoEffect DEF CheckStatus, halVars, MemoryType, CallInv, Pc, Cam, Points, LockPoints, Calls
  <2>8. CASE MarkOpened(p) /\ UNCHANGED halVars
    BY <2>8, GotoEffect DEF MarkOpened, halVars, MemoryType, CallInv, Pc, Cam, Points, LockPoints, Calls
  <2>9. CASE init(p)
    BY <2>9, initEffect
  <2>10. CASE deinit(p)
    BY <2>10, initEffect
  <2>11. CASE Opened(p)
    <3>1. mixed' \subseteq Pids
      BY <2>11 DEF Opened, MemoryType
    <3>2. Cam(p) \in Cameras
      BY <2>11 DEF Opened, CallInv
    <3> QED BY <2>11, <3>1, <3>2, OpenedEffect DEF MemoryType
  <2>12. CASE Closing(p)
    BY <2>12, DestroyEffect DEF Closing, CameraDeviceClose, MemoryType, CallInv, Pc, Cam, Points, LockPoints, Calls
  <2>13. CASE CloseNothing(p)
    BY <2>13, DestroyEffect DEF CloseNothing, shmVars, MemoryType, CallInv, Pc, Cam, Points, LockPoints, Calls
  <2>14. CASE Unload(p)
    BY <2>14, GotoEffect DEF Unload, shmVars, halVars, MemoryType, CallInv, Pc, Cam, Points, LockPoints, Calls
  <2>15. ASSUME NEW c \in Cameras, deviceClose(p, c)
        PROVE  MemoryType'
    BY <2>15, deviceCloseEffect DEF deviceClose, shmVars, MemoryType, CallInv, Pc, Cam, Points, LockPoints, Calls
  <2>16. ASSUME NEW c \in Cameras, NEW vc \in VcNums, deviceOpen(p, c, vc)
        PROVE  MemoryType'
    <3>1. UNCHANGED <<device, mixed>>
      BY <2>16 DEF deviceOpen
    <3> QED BY <2>16, <3>1, deviceOpenEffect DEF MemoryType
  <2>17. CASE releaseSharedMemory(p) /\ Gone(p)
    BY <2>17, GoneEffect DEF releaseSharedMemory
  <2>18. CASE Crash(p) /\ Gone(p)
    BY <2>18, GoneEffect DEF Crash
  <2> QED BY <1>2, <2>1, <2>2, <2>3, <2>4, <2>5, <2>6, <2>7, <2>8, <2>9, <2>10, <2>11, <2>12, <2>13, <2>14, <2>15, <2>16, <2>17, <2>18 DEF Process
<1> QED BY <1>1, <1>2 DEF Next

\* Every step keeps CallInv: a process has no camera before it has attached the
\* table, and what it opens or closes is not in use.
LEMMA CallStep ==
  ASSUME MemoryType, TableType, CallInv, [Next]_vars
  PROVE  CallInv'
<1>1. CASE UNCHANGED vars
  BY <1>1 DEF vars, shmVars, halVars, CallInv, MemoryType, Pc, Cam, Early, Points, LockPoints, processExist
<1>2. ASSUME NEW p \in Pids, Process(p)
      PROVE  CallInv'
  <2>1. CASE openSemLock(p) /\ UNCHANGED halVars
    BY <2>1, GotoEffect DEF openSemLock, Create, halVars, CallInv, MemoryType, Pc, Cam, Early, Points, LockPoints, processExist
  <2>2. CASE OpenSem(p) /\ UNCHANGED halVars
    BY <2>2, GotoEffect DEF OpenSem, halVars, CallInv, MemoryType, Pc, Cam, Early, Points, LockPoints, processExist
  <2>3. CASE TestSem(p) /\ UNCHANGED halVars
    BY <2>3, GotoEffect DEF TestSem, shmVars, halVars, CallInv, MemoryType, Pc, Cam, Early, Points, LockPoints, processExist
  <2>4. CASE UnlinkSem(p) /\ UNCHANGED halVars
    BY <2>4, GotoEffect DEF UnlinkSem, halVars, CallInv, MemoryType, Pc, Cam, Early, Points, LockPoints, processExist
  <2>5. CASE RecreateSem(p) /\ UNCHANGED halVars
    BY <2>5, GotoEffect DEF RecreateSem, Create, halVars, CallInv, MemoryType, Pc, Cam, Early, Points, LockPoints, processExist
  <2>6. CASE acquireSharedMemory(p) /\ UNCHANGED halVars
    BY <2>6, GotoEffect DEF acquireSharedMemory, ClearedTable, halVars, CallInv, MemoryType, Pc, Cam, Early, Points, LockPoints, processExist
  <2>7. CASE CheckStatus(p) /\ UNCHANGED halVars
    BY <2>7, GotoEffect DEF CheckStatus, halVars, CallInv, MemoryType, Pc, Cam, Early, Points, LockPoints, processExist
  <2>8. CASE MarkOpened(p) /\ UNCHANGED halVars
    BY <2>8, GotoEffect DEF MarkOpened, halVars, CallInv, MemoryType, Pc, Cam, Early, Points, LockPoints, processExist
  <2>9. CASE init(p)
    BY <2>9, initEffect DEF init, shmVars, CallInv, MemoryType, Pc, Cam, Early, Points, LockPoints, processExist
  <2>10. CASE deinit(p)
    BY <2>10, initEffect, ZenonT(60)
    DEF deinit, shmVars, CallInv, MemoryType, Pc, Cam, Early, Points, LockPoints, processExist
  <2>11. CASE Opened(p)
    BY <2>11, OpenedEffect DEF Opened, shmVars, CallInv, MemoryType, Pc, Cam, Early, Points, LockPoints, processExist
  <2>12. CASE Closing(p)
    <3>1. Pc(p) = "close" /\ UNCHANGED attached
      BY <2>12 DEF Closing, CameraDeviceClose
    <3>2. call'[p].pc = "idle" /\ \A q \in Pids : q # p => call'[q] = call[q]
      BY <2>12 DEF Closing, MemoryType
    <3>3. CASE LastClosed(p) /\ DestroyClosed(p)
      <4>1. device[p] = NoDevice => device'[p] = NoDevice
        BY <3>3, DestroyEffect DEF NoDevice, MemoryType
      <4> QED BY <3>1, <3>2, <3>3, <4>1, DestroyEffect DEF CallInv, MemoryType, Pc, Cam, Early
    <3>4. CASE UNCHANGED <<device, hal>>
      BY <3>1, <3>2, <3>4 DEF CallInv, Pc, Cam, Early
    <3> QED BY <2>12, <3>3, <3>4 DEF Closing
  <2>13. CASE CloseNothing(p)
    <3>1. Pc(p) = "idle" /\ UNCHANGED <<attached, call>> /\ DestroyClosed(p)
      BY <2>13 DEF CloseNothing, shmVars
    <3>2. device[p] = NoDevice => device'[p] = NoDevice
      BY <3>1, DestroyEffect DEF NoDevice, MemoryType
    <3> QED BY <3>1, <3>2, DestroyEffect DEF CallInv, Pc, Cam, Early
  <2>14. CASE Unload(p)
    BY <2>14, GotoEffect DEF Unload, shmVars, halVars, CallInv, MemoryType, Pc, Cam, Early, Points, LockPoints, processExist
  <2>15. ASSUME NEW c \in Cameras, deviceClose(p, c)
        PROVE  CallInv'
    <3>1. Pc(p) = "idle" /\ device[p][c] # "null" /\ UNCHANGED attached
      BY <2>15 DEF deviceClose, shmVars
    <3>2. hal[p].init
      BY <3>1 DEF CallInv, NoDevice
    <3> QED BY <2>15, <3>1, <3>2, deviceCloseEffect DEF CallInv, Pc, Cam, Early
  <2>16. ASSUME NEW c \in Cameras, NEW vc \in VcNums, deviceOpen(p, c, vc)
        PROVE  CallInv'
    <3>1. /\ Pc(p) = "idle" /\ device[p][c] = "null" /\ hal[p].init
          /\ UNCHANGED <<attached, device>>
      BY <2>16 DEF deviceOpen, shmVars
    <3> QED BY <2>16, <3>1, deviceOpenEffect DEF CallInv, Pc, Cam, Early
  <2>17. CASE releaseSharedMemory(p) /\ Gone(p)
    <3>1. attached' = attached \ {p} /\ Exit(p)
      BY <2>17 DEF releaseSharedMemory, Exit
    <3> QED BY <2>17, <3>1, GoneEffect DEF CallInv, Pc, Cam, Early
  <2>18. CASE Crash(p) /\ Gone(p)
    <3>1. attached' = attached \ {p} /\ Exit(p)
      BY <2>18 DEF Crash, Exit
    <3> QED BY <2>18, <3>1, GoneEffect DEF CallInv, Pc, Cam, Early
  <2> QED BY <1>2, <2>1, <2>2, <2>3, <2>4, <2>5, <2>6, <2>7, <2>8, <2>9, <2>10, <2>11, <2>12, <2>13, <2>14, <2>15, <2>16, <2>17, <2>18 DEF Process
<1> QED BY <1>1, <1>2 DEF Next

\* The cameras that a process cannot take off mCameraOpenNum are finitely many.
LEMMA SpentCount ==
  ASSUME NEW p \in Pids
  PROVE  /\ IsFiniteSet(Spent(p)) /\ Cardinality(Spent(p)) \in 0..Cardinality(Cameras)
         /\ IsFiniteSet(Spent(p)') /\ Cardinality(Spent(p)') \in 0..Cardinality(Cameras)
<1>1. Spent(p) \subseteq Cameras /\ Spent(p)' \subseteq Cameras
  BY DEF Spent
<1> QED BY <1>1, HalAssumption, FS_Subset, FS_CardinalityType

\* The bounds of mCameraOpenNum.
LEMMA SpentBound ==
  ASSUME MemoryType, SpentInv, NEW p \in Pids
  PROVE  hal[p].mCameraOpenNum \in - Cardinality(Cameras) .. Cardinality(Cameras)
<1>1. hal[p].mCameraOpenNum \in Int
  BY DEF MemoryType, Hals
<1>2. /\ hal[p].mCameraOpenNum >= - Cardinality(Spent(p))
      /\ hal[p].mCameraOpenNum <= Cardinality(Cameras)
  BY DEF SpentInv
<1> QED BY <1>1, <1>2, SpentCount, CamerasCount

\* SpentInv holds for the processes whose cameras and members do not change.
LEMMA SpentFrame ==
  ASSUME SpentInv, NEW q \in Pids, device'[q] = device[q], hal'[q] = hal[q]
  PROVE  /\ hal'[q].mCameraOpenNum >= - Cardinality(Spent(q)')
         /\ hal'[q].mCameraOpenNum <= Cardinality(Cameras)
<1>1. Spent(q)' = Spent(q)
  BY DEF Spent
<1> QED BY <1>1 DEF SpentInv

\* SpentInv holds after a step of p when it does for p.
LEMMA SpentLocal ==
  ASSUME SpentInv, NEW p \in Pids,
         \A q \in Pids : q # p => device'[q] = device[q] /\ hal'[q] = hal[q],
         hal'[p].mCameraOpenNum >= - Cardinality(Spent(p)'),
         hal'[p].mCameraOpenNum <= Cardinality(Cameras)
  PROVE  SpentInv'
  BY SpentFrame DEF SpentInv

\* Every step keeps SpentInv: a camera is taken off mCameraOpenNum once at most,
\* until it is counted again.
LEMMA SpentStep ==
  ASSUME MemoryType, CallInv, SpentInv, [Next]_vars
  PROVE  SpentInv'
<1>1. CASE UNCHANGED vars
  BY <1>1, SpentFrame DEF vars, halVars, SpentInv
<1>2. ASSUME NEW p \in Pids, Process(p)
      PROVE  SpentInv'
  <2>1. CASE openSemLock(p) /\ UNCHANGED halVars
    BY <2>1, SpentFrame DEF halVars, SpentInv
  <2>2. CASE OpenSem(p) /\ UNCHANGED halVars
    BY <2>2, SpentFrame DEF halVars, SpentInv
  <2>3. CASE TestSem(p) /\ UNCHANGED halVars
    BY <2>3, SpentFrame DEF halVars, SpentInv
  <2>4. CASE UnlinkSem(p) /\ UNCHANGED halVars
    BY <2>4, SpentFrame DEF halVars, SpentInv
  <2>5. CASE RecreateSem(p) /\ UNCHANGED halVars
    BY <2>5, SpentFrame DEF halVars, SpentInv
  <2>6. CASE acquireSharedMemory(p) /\ UNCHANGED halVars
    BY <2>6, SpentFrame DEF halVars, SpentInv
  <2>7. CASE CheckStatus(p) /\ UNCHANGED halVars
    BY <2>7, SpentFrame DEF halVars, SpentInv
  <2>8. CASE MarkOpened(p) /\ UNCHANGED halVars
    BY <2>8, SpentFrame DEF halVars, SpentInv
  <2>9. CASE init(p)
    <3>1. device[p] = NoDevice /\ UNCHANGED device
      BY <2>9 DEF init, CallInv
    <3>2. Spent(p)' = Cameras
      BY <3>1 DEF Spent, NoDevice
    <3>3. hal[p].mCameraOpenNum >= - Cardinality(Cameras)
      BY SpentBound, CamerasCount
    <3> QED BY <2>9, <3>1, <3>2, <3>3, initEffect, SpentLocal DEF SpentInv
  <2>10. CASE deinit(p)
    <3>1. device[p] = NoDevice /\ UNCHANGED device
      BY <2>10 DEF deinit, CallInv
    <3>2. Spent(p)' = Cameras
      BY <3>1 DEF Spent, NoDevice
    <3>3. hal[p].mCameraOpenNum >= - Cardinality(Cameras)
      BY SpentBound, CamerasCount
    <3> QED BY <2>10, <3>1, <3>2, <3>3, initEffect, SpentLocal DEF SpentInv
  <2>11. CASE Opened(p)
    <3>1. Cam(p) \in Cameras
      BY <2>11 DEF Opened, CallInv
    <3>2. hal'[p].mCameraOpenNum \in 0..Cardinality(Cameras)
      BY <2>11, <3>1, OpenedEffect
    <3>3. /\ hal'[p].mCameraOpenNum >= - Cardinality(Spent(p)')
          /\ hal'[p].mCameraOpenNum <= Cardinality(Cameras)
      BY <3>2, SpentCount, CamerasCount
    <3> QED BY <2>11, <3>1, <3>3, OpenedEffect, SpentLocal
  <2>12. CASE Closing(p)
    <3>1. CASE LastClosed(p) /\ DestroyClosed(p)
      <4>1. hal'[p].mCameraOpenNum = 0
        BY <3>1, DestroyEffect DEF LastClosed
      <4>2. 0 >= - Cardinality(Spent(p)') /\ 0 <= Cardinality(Cameras)
        BY SpentCount, CamerasCount
      <4> QED BY <3>1, <4>1, <4>2, DestroyEffect, SpentLocal
    <3>2. CASE UNCHANGED <<device, hal>>
      BY <3>2, SpentFrame DEF SpentInv
    <3> QED BY <2>12, <3>1, <3>2 DEF Closing
  <2>13. CASE CloseNothing(p)
    <3>1. LastClosed(p) /\ DestroyClosed(p)
      BY <2>13 DEF CloseNothing
    <3> QED
      <4>1. hal'[p].mCameraOpenNum = 0
        BY <3>1, DestroyEffect DEF LastClosed
      <4>2. 0 >= - Cardinality(Spent(p)') /\ 0 <= Cardinality(Cameras)
        BY SpentCount, CamerasCount
      <4> QED BY <3>1, <4>1, <4>2, DestroyEffect, SpentLocal
  <2>14. CASE Unload(p)
    BY <2>14, SpentFrame DEF Unload, halVars, SpentInv
  <2>15. ASSUME NEW c \in Cameras, deviceClose(p, c)
        PROVE  SpentInv'
    <3> DEFINE again == hal[p].mVcNum > 0 /\ device[p][c] = "closing"
    <3>1. hal[p].mCameraOpenNum \in Int /\ hal'[p].mCameraOpenNum =
            IF again THEN hal[p].mCameraOpenNum ELSE hal[p].mCameraOpenNum - 1
      BY <2>15, deviceCloseEffect DEF MemoryType, Hals
    <3>2. CASE again
      <4>1. \A d \in Cameras : device'[p][d] = device[p][d]
        BY <2>15, <3>2, deviceCloseEffect
      <4>2. Spent(p)' = Spent(p)
        BY <2>15, <4>1, deviceCloseEffect DEF Spent
      <4> QED BY <2>15, <3>1, <3>2, <4>2, deviceCloseEffect, SpentLocal DEF SpentInv
    <3>3. CASE ~ again
      <4>1. Spent(p)' = Spent(p) \cup {c}
        BY <2>15, <3>3, deviceCloseEffect DEF Spent
      <4>2. c \notin Spent(p)
        BY <2>15, <3>3 DEF Spent, deviceClose
      <4>3. Cardinality(Spent(p)') = Cardinality(Spent(p)) + 1
        BY <4>1, <4>2, SpentCount, FS_AddElement
      <4>4. /\ hal'[p].mCameraOpenNum >= - Cardinality(Spent(p)')
            /\ hal'[p].mCameraOpenNum <= Cardinality(Cameras)
        BY <3>1, <3>3, <4>3, SpentCount, CamerasCount DEF SpentInv
      <4> QED BY <2>15, <4>4, deviceCloseEffect, SpentLocal
    <3> QED BY <3>2, <3>3
  <2>16. ASSUME NEW c \in Cameras, NEW vc \in VcNums, deviceOpen(p, c, vc)
        PROVE  SpentInv'
    <3>1. UNCHANGED device /\ hal'[p].mCameraOpenNum = hal[p].mCameraOpenNum
      BY <2>16, deviceOpenEffect DEF deviceOpen
    <3>2. CASE hal[p].mCameraOpenNum = 0
      <4>1. 0 >= - Cardinality(Spent(p)') /\ 0 <= Cardinality(Cameras)
        BY SpentCount, CamerasCount
      <4> QED BY <2>16, <3>1, <3>2, <4>1, deviceOpenEffect, SpentLocal
    <3>3. CASE vc = hal[p].mVcNum
      <4>1. Spent(p)' = Spent(p)
        BY <2>16, <3>1, <3>3, deviceOpenEffect DEF Spent
      <4> QED BY <2>16, <3>1, <4>1, deviceOpenEffect, SpentLocal DEF SpentInv
    <3> QED BY <2>16, <3>2, <3>3 DEF deviceOpen
  <2>17. CASE releaseSharedMemory(p) /\ Gone(p)
    <3>1. Exit(p) /\ Gone(p)
      BY <2>17 DEF releaseSharedMemory
    <3>2. hal'[p].mCameraOpenNum = 0
      BY <3>1, GoneEffect DEF NewHal
    <3>3. 0 >= - Cardinality(Spent(p)') /\ 0 <= Cardinality(Cameras)
      BY SpentCount, CamerasCount
    <3> QED BY <3>1, <3>2, <3>3, GoneEffect, SpentLocal
  <2>18. CASE Crash(p) /\ Gone(p)
    <3>1. Exit(p) /\ Gone(p)
      BY <2>18 DEF Crash
    <3>2. hal'[p].mCameraOpenNum = 0
      BY <3>1, GoneEffect DEF NewHal
    <3>3. 0 >= - Cardinality(Spent(p)') /\ 0 <= Cardinality(Cameras)
      BY SpentCount, CamerasCount
    <3> QED BY <3>1, <3>2, <3>3, GoneEffect, SpentLocal
  <2> QED BY <1>2, <2>1, <2>2, <2>3, <2>4, <2>5, <2>6, <2>7, <2>8, <2>9, <2>10, <2>11, <2>12, <2>13, <2>14, <2>15, <2>16, <2>17, <2>18 DEF Process
<1> QED BY <1>1, <1>2 DEF Next

-----------------------------------------------------------------------------
\* what the processes other than p see of a step of p: its place alone
Own(p) == \A q \in Pids : q # p =>
    /\ call'[q] = call[q] /\ hal'[q] = hal[q] /\ device'[q] = device[q]
    /\ mSemLock'[q] = mSemLock[q]
    /\ q \in attached' <=> q \in attached
    /\ q \in mixed' <=> q \in mixed

\* p posts or takes no other semaphore than its own, and none that another one holds
OwnSemaphore(p) == \A s \in Pids :
    \/ semaphore'[s] = semaphore[s]
    \/ s = mSemLock[p] /\ {semaphore[s], semaphore'[s]} \subseteq {None, p}

\* p sets a mark for itself, and removes its own and those of dead processes
OwnMarks(p) == \A c \in Cameras :
    \/ camDevStatus'[c] = camDevStatus[c]
    \/ camDevStatus'[c] = None /\ camDevStatus[c] = p
    \/ /\ camDevStatus'[c] = None
       /\ \/ attached = {}
          \/ camDevStatus[c] # None /\ ~ processExist(camDevStatus[c])
    \/ Pc(p) = "mark" /\ Cam(p) = c /\ camDevStatus'[c] = p

\* A process changes nothing but its own memory.
LEMMA OwnStep ==
  ASSUME NEW p \in Pids, Process(p), MemoryType, TableType, CallInv
  PROVE  Own(p)
<1>1. CASE openSemLock(p) /\ UNCHANGED halVars
  BY <1>1, GotoEffect DEF openSemLock, Create, halVars, Own, MemoryType, TableType, Points, LockPoints, Calls
<1>2. CASE OpenSem(p) /\ UNCHANGED halVars
  BY <1>2, GotoEffect DEF OpenSem, halVars, Own, MemoryType, TableType, Points, LockPoints, Calls
<1>3. CASE TestSem(p) /\ UNCHANGED halVars
  BY <1>3, GotoEffect DEF TestSem, shmVars, halVars, Own, MemoryType, TableType, Points, LockPoints, Calls
<1>4. CASE UnlinkSem(p) /\ UNCHANGED halVars
  BY <1>4, GotoEffect DEF UnlinkSem, halVars, Own, MemoryType, TableType, Points, LockPoints, Calls
<1>5. CASE RecreateSem(p) /\ UNCHANGED halVars
  BY <1>5, GotoEffect DEF RecreateSem, Create, halVars, Own, MemoryType, TableType, Points, LockPoints, Calls
<1>6. CASE acquireSharedMemory(p) /\ UNCHANGED halVars
  BY <1>6, GotoEffect DEF acquireSharedMemory, ClearedTable, halVars, Own, MemoryType, TableType, Points, LockPoints, Calls
<1>7. CASE CheckStatus(p) /\ UNCHANGED halVars
  BY <1>7, GotoEffect DEF CheckStatus, halVars, Own, MemoryType, TableType, Points, LockPoints, Calls
<1>8. CASE MarkOpened(p) /\ UNCHANGED halVars
  BY <1>8, GotoEffect DEF MarkOpened, halVars, Own, MemoryType, TableType, Points, LockPoints, Calls
<1>9. CASE init(p)
  BY <1>9, initEffect DEF init, shmVars, Own, MemoryType, TableType, Points, LockPoints, Calls
<1>10. CASE deinit(p)
  BY <1>10, initEffect DEF deinit, shmVars, Own, MemoryType, TableType, Points, LockPoints, Calls
<1>11. CASE Opened(p)
  BY <1>11, OpenedEffect DEF Opened, shmVars, Own, MemoryType, TableType, Points, LockPoints, Calls
<1>12. CASE Closing(p)
  BY <1>12, DestroyEffect DEF Closing, CameraDeviceClose, Own, MemoryType, TableType, Points, LockPoints, Calls
<1>13. CASE CloseNothing(p)
  BY <1>13, DestroyEffect DEF CloseNothing, shmVars, Own, MemoryType, TableType, Points, LockPoints, Calls
<1>14. CASE Unload(p)
  BY <1>14, GotoEffect DEF Unload, shmVars, halVars, Own, MemoryType, TableType, Points, LockPoints, Calls
<1>15. ASSUME NEW c \in Cameras, deviceClose(p, c)
      PROVE  Own(p)
  BY <1>15, deviceCloseEffect DEF deviceClose, shmVars, Own, MemoryType, TableType, Points, LockPoints, Calls
<1>16. ASSUME NEW c \in Cameras, NEW vc \in VcNums, deviceOpen(p, c, vc)
      PROVE  Own(p)
  <2>1. UNCHANGED <<attached, mSemLock, mixed, device>>
    BY <1>16 DEF deviceOpen, shmVars
  <2> QED BY <1>16, <2>1, deviceOpenEffect DEF Own
<1>17. CASE releaseSharedMemory(p) /\ Gone(p)
  <2>1. Exit(p) /\ Gone(p) /\ attached' = attached \ {p}
        /\ mixed' = mixed \ {p} /\ mSemLock' = [mSemLock EXCEPT ![p] = None]
    BY <1>17 DEF releaseSharedMemory, Exit, Gone
  <2> QED BY <2>1, GoneEffect DEF Own, TableType
<1>18. CASE Crash(p) /\ Gone(p)
  <2>1. Exit(p) /\ Gone(p) /\ attached' = attached \ {p}
        /\ mixed' = mixed \ {p} /\ mSemLock' = [mSemLock EXCEPT ![p] = None]
    BY <1>18 DEF Crash, Exit, Gone
  <2> QED BY <2>1, GoneEffect DEF Own, TableType
<1> QED BY <1>1, <1>2, <1>3, <1>4, <1>5, <1>6, <1>7, <1>8, <1>9, <1>10, <1>11, <1>12, <1>13, <1>14, <1>15, <1>16, <1>17, <1>18 DEF Process

\* A process waits for and posts the semaphore it uses, and no semaphore that
\* another process holds.
LEMMA OwnSemaphoreStep ==
  ASSUME NEW p \in Pids, Process(p), MemoryType, TableType, CallInv, HolderInv
  PROVE  OwnSemaphore(p)
<1>1. CASE openSemLock(p) /\ UNCHANGED halVars
  BY <1>1 DEF openSemLock, Create, halVars, OwnSemaphore, TableType, Pc, Free, CanLock, HolderInv, HolderOf
<1>2. CASE OpenSem(p) /\ UNCHANGED halVars
  BY <1>2 DEF OpenSem, halVars, OwnSemaphore, TableType, Pc, Free, CanLock, HolderInv, HolderOf
<1>3. CASE TestSem(p) /\ UNCHANGED halVars
  BY <1>3 DEF TestSem, shmVars, halVars, OwnSemaphore, TableType, Pc, Free, CanLock, HolderInv, HolderOf
<1>4. CASE UnlinkSem(p) /\ UNCHANGED halVars
  BY <1>4 DEF UnlinkSem, halVars, OwnSemaphore, TableType, Pc, Free, CanLock, HolderInv, HolderOf
<1>5. CASE RecreateSem(p) /\ UNCHANGED halVars
  BY <1>5 DEF RecreateSem, Create, halVars, OwnSemaphore, TableType, Pc, Free, CanLock, HolderInv, HolderOf
<1>6. CASE acquireSharedMemory(p) /\ UNCHANGED halVars
  BY <1>6 DEF acquireSharedMemory, ClearedTable, halVars, OwnSemaphore, TableType, Pc, Free, CanLock, HolderInv, HolderOf
<1>7. CASE CheckStatus(p) /\ UNCHANGED halVars
  BY <1>7 DEF CheckStatus, halVars, OwnSemaphore, TableType, Pc, Free, CanLock, HolderInv, HolderOf
<1>8. CASE MarkOpened(p) /\ UNCHANGED halVars
  BY <1>8 DEF MarkOpened, halVars, OwnSemaphore, TableType, Pc, Free, CanLock, HolderInv, HolderOf
<1>9. CASE init(p)
  BY <1>9 DEF init, shmVars, OwnSemaphore, TableType, Pc, Free, CanLock, HolderInv, HolderOf
<1>10. CASE deinit(p)
  BY <1>10 DEF deinit, shmVars, OwnSemaphore, TableType, Pc, Free, CanLock, HolderInv, HolderOf
<1>11. CASE Opened(p)
  BY <1>11 DEF Opened, shmVars, OwnSemaphore, TableType, Pc, Free, CanLock, HolderInv, HolderOf
<1>12. CASE Closing(p)
  BY <1>12 DEF Closing, CameraDeviceClose, OwnSemaphore, TableType, Pc, Free, CanLock, HolderInv, HolderOf
<1>13. CASE CloseNothing(p)
  BY <1>13 DEF CloseNothing, shmVars, OwnSemaphore, TableType, Pc, Free, CanLock, HolderInv, HolderOf
<1>14. CASE Unload(p)
  BY <1>14 DEF Unload, shmVars, halVars, OwnSemaphore, TableType, Pc, Free, CanLock, HolderInv, HolderOf
<1>15. ASSUME NEW c \in Cameras, deviceClose(p, c)
      PROVE  OwnSemaphore(p)
  BY <1>15 DEF deviceClose, shmVars, OwnSemaphore, TableType, Pc, Free, CanLock, HolderInv, HolderOf
<1>16. ASSUME NEW c \in Cameras, NEW vc \in VcNums, deviceOpen(p, c, vc)
      PROVE  OwnSemaphore(p)
  BY <1>16 DEF deviceOpen, shmVars, OwnSemaphore, TableType, Pc, Free, CanLock, HolderInv, HolderOf
<1>17. CASE releaseSharedMemory(p) /\ Gone(p)
  BY <1>17 DEF releaseSharedMemory, Exit, OwnSemaphore, TableType, Pc, Free, CanLock, HolderInv, HolderOf
<1>18. CASE Crash(p) /\ Gone(p)
  BY <1>18 DEF Crash, Exit, OwnSemaphore, TableType, Pc, Free, CanLock, HolderInv, HolderOf
<1> QED BY <1>1, <1>2, <1>3, <1>4, <1>5, <1>6, <1>7, <1>8, <1>9, <1>10, <1>11, <1>12, <1>13, <1>14, <1>15, <1>16, <1>17, <1>18 DEF Process

\* A process sets marks of its own, and removes its own and those of dead ones.
LEMMA OwnMarksStep ==
  ASSUME NEW p \in Pids, Process(p), MemoryType, TableType, CallInv
  PROVE  OwnMarks(p)
<1>1. CASE openSemLock(p) /\ UNCHANGED halVars
  BY <1>1 DEF openSemLock, Create, halVars, OwnMarks, TableType, Pc, Cam, CallInv
<1>2. CASE OpenSem(p) /\ UNCHANGED halVars
  BY <1>2 DEF OpenSem, halVars, OwnMarks, TableType, Pc, Cam, CallInv
<1>3. CASE TestSem(p) /\ UNCHANGED halVars
  BY <1>3 DEF TestSem, shmVars, halVars, OwnMarks, TableType, Pc, Cam, CallInv
<1>4. CASE UnlinkSem(p) /\ UNCHANGED halVars
  BY <1>4 DEF UnlinkSem, halVars, OwnMarks, TableType, Pc, Cam, CallInv
<1>5. CASE RecreateSem(p) /\ UNCHANGED halVars
  BY <1>5 DEF RecreateSem, Create, halVars, OwnMarks, TableType, Pc, Cam, CallInv
<1>6. CASE acquireSharedMemory(p) /\ UNCHANGED halVars
  BY <1>6 DEF acquireSharedMemory, ClearedTable, halVars, OwnMarks, TableType, Pc, Cam, CallInv
<1>7. CASE CheckStatus(p) /\ UNCHANGED halVars
  BY <1>7 DEF CheckStatus, halVars, OwnMarks, TableType, Pc, Cam, CallInv
<1>8. CASE MarkOpened(p) /\ UNCHANGED halVars
  BY <1>8 DEF MarkOpened, halVars, OwnMarks, TableType, Pc, Cam, CallInv
<1>9. CASE init(p)
  BY <1>9 DEF init, shmVars, OwnMarks, TableType, Pc, Cam, CallInv
<1>10. CASE deinit(p)
  BY <1>10 DEF deinit, shmVars, OwnMarks, TableType, Pc, Cam, CallInv
<1>11. CASE Opened(p)
  BY <1>11 DEF Opened, shmVars, OwnMarks, TableType, Pc, Cam, CallInv
<1>12. CASE Closing(p)
  BY <1>12 DEF Closing, CameraDeviceClose, OwnMarks, TableType, Pc, Cam, CallInv
<1>13. CASE CloseNothing(p)
  BY <1>13 DEF CloseNothing, shmVars, OwnMarks, TableType, Pc, Cam, CallInv
<1>14. CASE Unload(p)
  BY <1>14 DEF Unload, shmVars, halVars, OwnMarks, TableType, Pc, Cam, CallInv
<1>15. ASSUME NEW c \in Cameras, deviceClose(p, c)
      PROVE  OwnMarks(p)
  BY <1>15 DEF deviceClose, shmVars, OwnMarks, TableType, Pc, Cam, CallInv
<1>16. ASSUME NEW c \in Cameras, NEW vc \in VcNums, deviceOpen(p, c, vc)
      PROVE  OwnMarks(p)
  BY <1>16 DEF deviceOpen, shmVars, OwnMarks, TableType, Pc, Cam, CallInv
<1>17. CASE releaseSharedMemory(p) /\ Gone(p)
  BY <1>17 DEF releaseSharedMemory, Exit, OwnMarks, TableType, Pc, Cam, CallInv
<1>18. CASE Crash(p) /\ Gone(p)
  BY <1>18 DEF Crash, Exit, OwnMarks, TableType, Pc, Cam, CallInv
<1> QED BY <1>1, <1>2, <1>3, <1>4, <1>5, <1>6, <1>7, <1>8, <1>9, <1>10, <1>11, <1>12, <1>13, <1>14, <1>15, <1>16, <1>17, <1>18 DEF Process

\* A process that takes a step runs, and no process starts again.
LEMMA AliveStep ==
  ASSUME NEW p \in Pids, Process(p), MemoryType, TableType, CallInv
  PROVE  Pc(p) # "dead" /\ call'[p].pc # "out"
<1>1. CASE openSemLock(p) /\ UNCHANGED halVars
  BY <1>1, GotoEffect DEF openSemLock, Create, halVars, Pc, processExist, MemoryType, Points, LockPoints
<1>2. CASE OpenSem(p) /\ UNCHANGED halVars
  BY <1>2, GotoEffect DEF OpenSem, halVars, Pc, processExist, MemoryType, Points, LockPoints
<1>3. CASE TestSem(p) /\ UNCHANGED halVars
  BY <1>3, GotoEffect DEF TestSem, shmVars, halVars, Pc, processExist, MemoryType, Points, LockPoints
<1>4. CASE UnlinkSem(p) /\ UNCHANGED halVars
  BY <1>4, GotoEffect DEF UnlinkSem, halVars, Pc, processExist, MemoryType, Points, LockPoints
<1>5. CASE RecreateSem(p) /\ UNCHANGED halVars
  BY <1>5, GotoEffect DEF RecreateSem, Create, halVars, Pc, processExist, MemoryType, Points, LockPoints
<1>6. CASE acquireSharedMemory(p) /\ UNCHANGED halVars
  BY <1>6, GotoEffect DEF acquireSharedMemory, ClearedTable, halVars, Pc, processExist, MemoryType, Points, LockPoints
<1>7. CASE CheckStatus(p) /\ UNCHANGED halVars
  BY <1>7, GotoEffect DEF CheckStatus, halVars, Pc, processExist, MemoryType, Points, LockPoints
<1>8. CASE MarkOpened(p) /\ UNCHANGED halVars
  BY <1>8, GotoEffect DEF MarkOpened, halVars, Pc, processExist, MemoryType, Points, LockPoints
<1>9. CASE init(p)
  BY <1>9, initEffect DEF init, shmVars, Pc, processExist, MemoryType, Points, LockPoints
<1>10. CASE deinit(p)
  BY <1>10, initEffect DEF deinit, shmVars, Pc, processExist, MemoryType, Points, LockPoints
<1>11. CASE Opened(p)
  BY <1>11, OpenedEffect DEF Opened, shmVars, Pc, processExist, MemoryType, Points, LockPoints
<1>12. CASE Closing(p)
  BY <1>12, DestroyEffect DEF Closing, CameraDeviceClose, Pc, processExist, MemoryType, Points, LockPoints
<1>13. CASE CloseNothing(p)
  BY <1>13, DestroyEffect DEF CloseNothing, shmVars, Pc, processExist, MemoryType, Points, LockPoints
<1>14. CASE Unload(p)
  BY <1>14, GotoEffect DEF Unload, shmVars, halVars, Pc, processExist, MemoryType, Points, LockPoints
<1>15. ASSUME NEW c \in Cameras, deviceClose(p, c)
      PROVE  Pc(p) # "dead" /\ call'[p].pc # "out"
  BY <1>15, deviceCloseEffect DEF deviceClose, shmVars, Pc, processExist, MemoryType, Points, LockPoints
<1>16. ASSUME NEW c \in Cameras, NEW vc \in VcNums, deviceOpen(p, c, vc)
      PROVE  Pc(p) # "dead" /\ call'[p].pc # "out"
  BY <1>16, deviceOpenEffect DEF deviceOpen, shmVars, Pc, processExist, MemoryType, Points, LockPoints
<1>17. CASE releaseSharedMemory(p) /\ Gone(p)
  BY <1>17, GoneEffect DEF releaseSharedMemory, Exit, Pc, processExist, MemoryType, Points, LockPoints
<1>18. CASE Crash(p) /\ Gone(p)
  BY <1>18, GoneEffect DEF Crash, Exit, Pc, processExist, MemoryType, Points, LockPoints
<1> QED BY <1>1, <1>2, <1>3, <1>4, <1>5, <1>6, <1>7, <1>8, <1>9, <1>10, <1>11, <1>12, <1>13, <1>14, <1>15, <1>16, <1>17, <1>18 DEF Process

\* A semaphore whose holder has died is never free again.
LEMMA DeadHolderStep ==
  ASSUME MemoryType, TableType, CallInv, HolderInv, NEW p \in Pids, Process(p),
         NEW s \in Pids, semaphore[s] # None, ~ processExist(semaphore[s])
  PROVE  semaphore'[s] = semaphore[s] /\ ~ processExist(semaphore[s])'
<1>1. semaphore[s] \in Pids /\ Pc(semaphore[s]) = "dead"
  BY DEF TableType, HolderInv, HolderOf, processExist
<1>2. p # semaphore[s]
  BY <1>1, AliveStep
<1>3. semaphore'[s] = semaphore[s]
  BY <1>2, OwnSemaphoreStep DEF OwnSemaphore
<1>4. call'[semaphore[s]] = call[semaphore[s]]
  BY <1>1, <1>2, OwnStep DEF Own
<1> QED BY <1>1, <1>3, <1>4 DEF processExist, Pc

\* A process that cannot lock its semaphore never can.
LEMMA LockFailsStep ==
  ASSUME MemoryType, TableType, CallInv, HolderInv, NEW p \in Pids, Process(p),
         NEW q \in Pids, LockFails(q), mSemLock'[q] = mSemLock[q]
  PROVE  LockFails(q)'
<1>1. CASE mSemLock[q] = None
  BY <1>1 DEF LockFails
<1>2. CASE mSemLock[q] # None
  <2>1. PICK r \in Pids : semaphore[mSemLock[q]] = r /\ ~ processExist(r)
    BY <1>2 DEF LockFails
  <2>2. mSemLock[q] \in Pids /\ r # None
    BY <1>2, HalAssumption DEF TableType
  <2>3. semaphore'[mSemLock[q]] = r /\ ~ processExist(r)'
    BY <2>1, <2>2, DeadHolderStep
  <2> QED BY <1>2, <2>3 DEF LockFails
<1> QED BY <1>1, <1>2


\* how a process comes to the points where it relies on a semaphore
Arrives(p) ==
    /\ call'[p].pc = "mark" =>
         /\ mSemLock[p] # None /\ mSemLock'[p] = mSemLock[p]
         /\ semaphore'[mSemLock[p]] = p /\ p \in attached'
    /\ call'[p].pc = "test" => mSemLock'[p] # None
    /\ call'[p].pc = "unlink" =>
         mSemLock[p] # None /\ LockFails(p) /\ mSemLock'[p] = mSemLock[p]

\* A process is to mark only with the semaphore locked, and to unlink only after it
\* has found the holder dead.
LEMMA ArriveStep ==
  ASSUME NEW p \in Pids, Process(p), MemoryType, TableType, CallInv, HolderInv
  PROVE  Arrives(p)
<1>1. CASE openSemLock(p) /\ UNCHANGED halVars
  BY <1>1, GotoEffect DEF openSemLock, Create, halVars, Arrives, Points, LockPoints
<1>2. CASE OpenSem(p) /\ UNCHANGED halVars
  BY <1>2, GotoEffect, HalAssumption DEF OpenSem, Arrives, TableType, Points, LockPoints
<1>3. CASE TestSem(p) /\ UNCHANGED halVars
  BY <1>3, GotoEffect DEF TestSem, shmVars, Arrives, Free, HolderInv, HolderOf, Points, LockPoints
<1>4. CASE UnlinkSem(p) /\ UNCHANGED halVars
  BY <1>4, GotoEffect DEF UnlinkSem, halVars, Arrives, Points, LockPoints
<1>5. CASE RecreateSem(p) /\ UNCHANGED halVars
  BY <1>5, GotoEffect DEF RecreateSem, Create, halVars, Arrives, Points, LockPoints
<1>6. CASE acquireSharedMemory(p) /\ UNCHANGED halVars
  BY <1>6, GotoEffect DEF acquireSharedMemory, ClearedTable, halVars, Arrives, Points, LockPoints
<1>7. CASE CheckStatus(p) /\ UNCHANGED halVars
  BY <1>7, GotoEffect DEF CheckStatus, CanLock, Free, Arrives, TableType, Points, LockPoints
<1>8. CASE MarkOpened(p) /\ UNCHANGED halVars
  BY <1>8, GotoEffect DEF MarkOpened, halVars, Arrives, Points, LockPoints
<1>9. CASE init(p)
  BY <1>9 DEF init, Arrives, Pc
<1>10. CASE deinit(p)
  BY <1>10 DEF deinit, Arrives, Pc
<1>11. CASE Opened(p)
  BY <1>11 DEF Opened, Arrives, MemoryType
<1>12. CASE Closing(p)
  BY <1>12 DEF Closing, Arrives, MemoryType
<1>13. CASE CloseNothing(p)
  BY <1>13 DEF CloseNothing, Arrives, Pc
<1>14. CASE Unload(p)
  BY <1>14, GotoEffect DEF Unload, shmVars, halVars, Arrives, Points, LockPoints
<1>15. ASSUME NEW c \in Cameras, deviceClose(p, c)
      PROVE  Arrives(p)
  BY <1>15 DEF deviceClose, Arrives, MemoryType
<1>16. ASSUME NEW c \in Cameras, NEW vc \in VcNums, deviceOpen(p, c, vc)
      PROVE  Arrives(p)
  BY <1>16 DEF deviceOpen, Arrives, MemoryType
<1>17. CASE releaseSharedMemory(p) /\ Gone(p)
  BY <1>17, GoneEffect DEF releaseSharedMemory, Arrives
<1>18. CASE Crash(p) /\ Gone(p)
  BY <1>18, GoneEffect DEF Crash, Arrives
<1> QED BY <1>1, <1>2, <1>3, <1>4, <1>5, <1>6, <1>7, <1>8, <1>9, <1>10, <1>11, <1>12, <1>13, <1>14, <1>15, <1>16, <1>17, <1>18 DEF Process

\* Every step keeps HolderInv: the process between the check and the mark holds the
\* semaphore, and one that is to unlink a semaphore has found its holder dead.
LEMMA HolderStep ==
  ASSUME MemoryType, TableType, CallInv, HolderInv, [Next]_vars
  PROVE  HolderInv'
<1>1. CASE UNCHANGED vars
  BY <1>1 DEF vars, shmVars, halVars, HolderInv, HolderOf, LockFails, Pc, processExist
<1>2. ASSUME NEW p \in Pids, Process(p), NEW q \in Pids
      PROVE  HolderOf(q)'
  <2>1. semaphore'[q] # None => call'[semaphore'[q]].pc # "out"
    <3>1. CASE semaphore'[q] = p
      BY <1>2, <3>1, AliveStep
    <3>2. CASE semaphore'[q] \notin {None, p}
      <4>1. semaphore'[q] = semaphore[q] /\ semaphore[q] \in Pids
        BY <1>2, <3>2, OwnSemaphoreStep DEF OwnSemaphore, TableType
      <4> QED BY <1>2, <3>2, <4>1, OwnStep DEF Own, HolderInv, HolderOf, Pc
    <3> QED BY <3>1, <3>2
  <2>2. CASE q = p
    <3>1. call'[p].pc = "unlink" => LockFails(p)'
      BY <1>2, ArriveStep, LockFailsStep DEF Arrives
    <3> QED BY <1>2, <2>1, <2>2, <3>1, ArriveStep DEF Arrives, HolderOf, Pc
  <2>3. CASE q # p
    <3>1. /\ call'[q] = call[q] /\ mSemLock'[q] = mSemLock[q]
          /\ q \in attached' <=> q \in attached
      BY <1>2, <2>3, OwnStep DEF Own
    <3>2. Pc(q) = "unlink" => LockFails(q)'
      BY <1>2, <3>1, LockFailsStep DEF HolderInv, HolderOf
    <3>3. Pc(q) = "mark" => semaphore'[mSemLock[q]] = q
      <4>1. SUFFICES ASSUME Pc(q) = "mark" PROVE semaphore'[mSemLock[q]] = q
        OBVIOUS
      <4>2. mSemLock[q] \in Pids /\ semaphore[mSemLock[q]] = q /\ q # None
        BY <4>1, HalAssumption DEF HolderInv, HolderOf, TableType
      <4> QED BY <1>2, <2>3, <4>2, OwnSemaphoreStep DEF OwnSemaphore
    <3> QED BY <2>1, <3>1, <3>2, <3>3 DEF HolderInv, HolderOf, Pc
  <2> QED BY <2>2, <2>3
<1> QED BY <1>1, <1>2 DEF Next, HolderInv

-----------------------------------------------------------------------------
\* how a step of p changes the name of the semaphore and the one that p uses
Renames(p) ==
    /\ doubleUnlink => doubleUnlink'
    /\ \/ camlock' = camlock /\ mSemLock'[p] \in {mSemLock[p], camlock, None}
       \/ camlock = None /\ camlock' = p /\ mSemLock'[p] = p
       \/ /\ Pc(p) = "unlink" /\ camlock' = None /\ mSemLock'[p] = mSemLock[p]
          /\ ~ doubleUnlink' => camlock \in {mSemLock[p], None}

\* The name of the semaphore is given to a new one, taken or unlinked.
LEMMA RenameStep ==
  ASSUME NEW p \in Pids, Process(p), MemoryType, TableType, CallInv
  PROVE  Renames(p)
<1>1. CASE openSemLock(p) /\ UNCHANGED halVars
  BY <1>1 DEF openSemLock, Create, halVars, Renames, TableType, Pc
<1>2. CASE OpenSem(p) /\ UNCHANGED halVars
  BY <1>2 DEF OpenSem, halVars, Renames, TableType, Pc
<1>3. CASE TestSem(p) /\ UNCHANGED halVars
  BY <1>3 DEF TestSem, shmVars, halVars, Renames, TableType, Pc
<1>4. CASE UnlinkSem(p) /\ UNCHANGED halVars
  BY <1>4 DEF UnlinkSem, halVars, Renames, TableType, Pc
<1>5. CASE RecreateSem(p) /\ UNCHANGED halVars
  BY <1>5 DEF RecreateSem, Create, halVars, Renames, TableType, Pc
<1>6. CASE acquireSharedMemory(p) /\ UNCHANGED halVars
  BY <1>6 DEF acquireSharedMemory, ClearedTable, halVars, Renames, TableType, Pc
<1>7. CASE CheckStatus(p) /\ UNCHANGED halVars
  BY <1>7 DEF CheckStatus, halVars, Renames, TableType, Pc
<1>8. CASE MarkOpened(p) /\ UNCHANGED halVars
  BY <1>8 DEF MarkOpened, halVars, Renames, TableType, Pc
<1>9. CASE init(p)
  BY <1>9 DEF init, shmVars, Renames, TableType, Pc
<1>10. CASE deinit(p)
  BY <1>10 DEF deinit, shmVars, Renames, TableType, Pc
<1>11. CASE Opened(p)
  BY <1>11 DEF Opened, shmVars, Renames, TableType, Pc
<1>12. CASE Closing(p)
  BY <1>12 DEF Closing, CameraDeviceClose, Renames, TableType, Pc
<1>13. CASE CloseNothing(p)
  BY <1>13 DEF CloseNothing, shmVars, Renames, TableType, Pc
<1>14. CASE Unload(p)
  BY <1>14 DEF Unload, shmVars, halVars, Renames, TableType, Pc
<1>15. ASSUME NEW c \in Cameras, deviceClose(p, c)
      PROVE  Renames(p)
  BY <1>15 DEF deviceClose, shmVars, Renames, TableType, Pc
<1>16. ASSUME NEW c \in Cameras, NEW vc \in VcNums, deviceOpen(p, c, vc)
      PROVE  Renames(p)
  BY <1>16 DEF deviceOpen, shmVars, Renames, TableType, Pc
<1>17. CASE releaseSharedMemory(p) /\ Gone(p)
  BY <1>17 DEF releaseSharedMemory, Exit, Renames, TableType, Pc
<1>18. CASE Crash(p) /\ Gone(p)
  BY <1>18 DEF Crash, Exit, Renames, TableType, Pc
<1> QED BY <1>1, <1>2, <1>3, <1>4, <1>5, <1>6, <1>7, <1>8, <1>9, <1>10, <1>11, <1>12, <1>13, <1>14, <1>15, <1>16, <1>17, <1>18 DEF Process

\* Every step keeps SameLock: the processes that can lock a semaphore lock the one
\* that has the name.
LEMMA SameLockStep ==
  ASSUME MemoryType, TableType, CallInv, HolderInv, SameLock, [Next]_vars
  PROVE  SameLock'
<1>1. CASE UNCHANGED vars
  BY <1>1 DEF vars, shmVars, halVars, SameLock, LockFails, Pc, processExist
<1>2. ASSUME NEW p \in Pids, Process(p), ~ doubleUnlink',
             NEW q \in Pids, mSemLock'[q] # None, ~ LockFails(q)'
      PROVE  mSemLock'[q] = camlock'
  <2>1. Renames(p)
    BY <1>2, RenameStep
  <2>2. ~ doubleUnlink
    BY <1>2, <2>1 DEF Renames
  <2>3. mSemLock'[q] = mSemLock[q] => mSemLock[q] = camlock /\ ~ LockFails(q)
    BY <1>2, <2>2, LockFailsStep DEF SameLock
  <2>4. q # p => mSemLock'[q] = mSemLock[q]
    BY <1>2, OwnStep DEF Own
  <2>5. CASE camlock' = camlock /\ mSemLock'[p] \in {mSemLock[p], camlock, None}
    BY <1>2, <2>3, <2>4, <2>5
  <2>6. CASE camlock = None /\ camlock' = p /\ mSemLock'[p] = p
    BY <1>2, <2>3, <2>4, <2>6
  <2>7. CASE /\ Pc(p) = "unlink" /\ camlock' = None /\ mSemLock'[p] = mSemLock[p]
             /\ camlock \in {mSemLock[p], None}
    <3>1. LockFails(p)
      BY <2>7 DEF HolderInv, HolderOf
    <3>2. mSemLock[q] = camlock /\ ~ LockFails(q) /\ mSemLock[q] # None
      BY <1>2, <2>3, <2>4, <2>7
    <3> QED BY <2>7, <3>1, <3>2 DEF LockFails
  <2> QED BY <1>2, <2>1, <2>5, <2>6, <2>7 DEF Renames
<1> QED BY <1>1, <1>2 DEF Next, SameLock

\* At most one process is between the check and the mark.
LEMMA OneMarks ==
  ASSUME TableType, HolderInv, SameLock, ~ doubleUnlink,
         NEW p \in Pids, NEW q \in Pids, Pc(p) = "mark", Pc(q) = "mark"
  PROVE  p = q
<1>1. ASSUME NEW r \in Pids, Pc(r) = "mark"
      PROVE  mSemLock[r] = camlock /\ semaphore[mSemLock[r]] = r
  BY <1>1 DEF HolderInv, HolderOf, SameLock, LockFails, processExist
<1> QED BY <1>1

\* how a step of p attaches or detaches it
Attaches(p) ==
    Pc(p) \notin Early =>
         \/ /\ p \in attached' <=> p \in attached
            /\ mSemLock'[p] = mSemLock[p]
         \/ call'[p].pc = "dead" /\ p \notin attached'

\* A process that has attached the table keeps it and its semaphore until it ends.
LEMMA AttachStep ==
  ASSUME NEW p \in Pids, Process(p), MemoryType, TableType, CallInv
  PROVE  Attaches(p)
<1>1. CASE openSemLock(p) /\ UNCHANGED halVars
  BY <1>1 DEF openSemLock, Create, halVars, Attaches, TableType, MemoryType, Pc, Early, processExist
<1>2. CASE OpenSem(p) /\ UNCHANGED halVars
  BY <1>2 DEF OpenSem, halVars, Attaches, TableType, MemoryType, Pc, Early, processExist
<1>3. CASE TestSem(p) /\ UNCHANGED halVars
  BY <1>3 DEF TestSem, shmVars, halVars, Attaches, TableType, MemoryType, Pc, Early, processExist
<1>4. CASE UnlinkSem(p) /\ UNCHANGED halVars
  BY <1>4 DEF UnlinkSem, halVars, Attaches, TableType, MemoryType, Pc, Early, processExist
<1>5. CASE RecreateSem(p) /\ UNCHANGED halVars
  BY <1>5 DEF RecreateSem, Create, halVars, Attaches, TableType, MemoryType, Pc, Early, processExist
<1>6. CASE acquireSharedMemory(p) /\ UNCHANGED halVars
  BY <1>6 DEF acquireSharedMemory, ClearedTable, halVars, Attaches, TableType, MemoryType, Pc, Early, processExist
<1>7. CASE CheckStatus(p) /\ UNCHANGED halVars
  BY <1>7 DEF CheckStatus, halVars, Attaches, TableType, MemoryType, Pc, Early, processExist
<1>8. CASE MarkOpened(p) /\ UNCHANGED halVars
  BY <1>8 DEF MarkOpened, halVars, Attaches, TableType, MemoryType, Pc, Early, processExist
<1>9. CASE init(p)
  BY <1>9 DEF init, shmVars, Attaches, TableType, MemoryType, Pc, Early, processExist
<1>10. CASE deinit(p)
  BY <1>10 DEF deinit, shmVars, Attaches, TableType, MemoryType, Pc, Early, processExist
<1>11. CASE Opened(p)
  BY <1>11 DEF Opened, shmVars, Attaches, TableType, MemoryType, Pc, Early, processExist
<1>12. CASE Closing(p)
  BY <1>12 DEF Closing, CameraDeviceClose, Attaches, TableType, MemoryType, Pc, Early, processExist
<1>13. CASE CloseNothing(p)
  BY <1>13 DEF CloseNothing, shmVars, Attaches, TableType, MemoryType, Pc, Early, processExist
<1>14. CASE Unload(p)
  BY <1>14 DEF Unload, shmVars, halVars, Attaches, TableType, MemoryType, Pc, Early, processExist
<1>15. ASSUME NEW c \in Cameras, deviceClose(p, c)
      PROVE  Attaches(p)
  BY <1>15 DEF deviceClose, shmVars, Attaches, TableType, MemoryType, Pc, Early, processExist
<1>16. ASSUME NEW c \in Cameras, NEW vc \in VcNums, deviceOpen(p, c, vc)
      PROVE  Attaches(p)
  BY <1>16 DEF deviceOpen, shmVars, Attaches, TableType, MemoryType, Pc, Early, processExist
<1>17. CASE releaseSharedMemory(p) /\ Gone(p)
  BY <1>17 DEF releaseSharedMemory, Exit, Attaches, TableType, MemoryType, Pc, Early, processExist
<1>18. CASE Crash(p) /\ Gone(p)
  BY <1>18 DEF Crash, Exit, Attaches, TableType, MemoryType, Pc, Early, processExist
<1> QED BY <1>1, <1>2, <1>3, <1>4, <1>5, <1>6, <1>7, <1>8, <1>9, <1>10, <1>11, <1>12, <1>13, <1>14, <1>15, <1>16, <1>17, <1>18 DEF Process

\* A process without a table, or without its lock, does not get them back.
LEMMA NoTableStep ==
  ASSUME MemoryType, TableType, CallInv, HolderInv, NEW p \in Pids, Process(p),
         NEW q \in Pids, NoTable(q), Pc(q) \notin Early
  PROVE  NoTable(q)'
<1>1. CASE q = p
  BY <1>1, AttachStep, LockFailsStep DEF Attaches, NoTable
<1>2. CASE q # p
  BY <1>2, OwnStep, LockFailsStep DEF Own, NoTable
<1> QED BY <1>1, <1>2

\* A process that has the table runs.
LEMMA AttachedRuns ==
  ASSUME MemoryType, CallInv, NEW q \in attached, q \in Pids
  PROVE  Pc(q) \notin Early /\ Pc(q) # "dead" /\ processExist(q)
  BY DEF CallInv, Early, processExist

\* Every step keeps OwnerInv: a mark is of a process that has the table or is dead.
LEMMA OwnerStep ==
  ASSUME MemoryType, TableType, CallInv, HolderInv, OwnerInv, [Next]_vars
  PROVE  OwnerInv'
<1>1. CASE UNCHANGED vars
  BY <1>1 DEF vars, shmVars, halVars, OwnerInv, Pc
<1>2. ASSUME NEW p \in Pids, Process(p), NEW c \in Cameras, camDevStatus'[c] # None
      PROVE  camDevStatus'[c] \in attached' \/ call'[camDevStatus'[c]].pc = "dead"
  <2>1. CASE camDevStatus'[c] = p
    <3>1. p \in attached
      <4>1. CASE camDevStatus[c] = p
        BY <1>2, <4>1, AliveStep, HalAssumption DEF OwnerInv
      <4>2. CASE Pc(p) = "mark"
        BY <4>2 DEF HolderInv, HolderOf
      <4> QED BY <1>2, <2>1, <4>1, <4>2, OwnMarksStep DEF OwnMarks
    <3> QED BY <1>2, <2>1, <3>1, AttachStep, AttachedRuns DEF Attaches
  <2>2. CASE camDevStatus'[c] # p
    <3>1. camDevStatus'[c] = camDevStatus[c] /\ camDevStatus[c] \in Pids
      BY <1>2, <2>2, OwnMarksStep DEF OwnMarks, TableType
    <3> QED BY <1>2, <2>2, <3>1, OwnStep DEF Own, OwnerInv, Pc
  <2> QED BY <2>1, <2>2
<1> QED BY <1>1, <1>2 DEF Next, OwnerInv, Pc

\* The mark of a process that has the table stays until that process removes it.
LEMMA MarkStays ==
  ASSUME MemoryType, TableType, CallInv, MarkedInv, ~ doubleUnlink,
         NEW p \in Pids, Process(p), NEW q \in Pids, q # p, q \in attached,
         NEW c \in Cameras, camDevStatus[c] = q
  PROVE  camDevStatus'[c] = q
<1>1. processExist(q) /\ Pc(q) # "dead"
  BY AttachedRuns
<1>2. ~ (Pc(p) = "mark" /\ Cam(p) = c)
  BY <1>1, HalAssumption DEF MarkedInv, MarkedOf
<1> QED BY <1>1, <1>2, OwnMarksStep DEF OwnMarks

\* A process that can lock the table has it.
LEMMA CanLockTable == ASSUME NEW p \in Pids, CanLock(p) PROVE ~ NoTable(p)
  BY HalAssumption DEF CanLock, NoTable, Free, LockFails

\* what a step of p does to its own cameras and marks
Uses(p) ==
    /\ call'[p].pc = "mark" => /\ Pc(p) = "open" /\ Cam(p)' = Cam(p)
                               /\ UNCHANGED camDevStatus
                               /\ \/ camDevStatus[Cam(p)] = None
                                  \/ ~ processExist(camDevStatus[Cam(p)])
    /\ call'[p].pc = "count" => \/ Pc(p) = "open" /\ NoTable(p)
                                \/ camDevStatus'[call'[p].cam] = p
    /\ \A c \in Cameras : device'[p][c] \in {"created", "open"} =>
         \/ /\ device'[p][c] = device[p][c]
            /\ camDevStatus[c] = p => camDevStatus'[c] = p
         \/ /\ Pc(p) = "count" /\ c = Cam(p) /\ UNCHANGED camDevStatus
            /\ device'[p][c] = "open" => ~ NoTable(p)

\* A camera is put to use only when it is marked, and its mark stays as long.
LEMMA UseStep ==
  ASSUME NEW p \in Pids, Process(p), MemoryType, TableType, CallInv
  PROVE  Uses(p)
<1>1. CASE openSemLock(p) /\ UNCHANGED halVars
  <2>1. UNCHANGED <<device, camDevStatus>>
    BY <1>1 DEF openSemLock, Create, halVars
  <2> QED BY <1>1, <2>1, GotoEffect DEF openSemLock, Create, halVars, Uses, Pc, Points, LockPoints
<1>2. CASE OpenSem(p) /\ UNCHANGED halVars
  <2>1. UNCHANGED <<device, camDevStatus>>
    BY <1>2 DEF OpenSem, halVars
  <2> QED BY <1>2, <2>1, GotoEffect DEF OpenSem, halVars, Uses, Pc, Points, LockPoints
<1>3. CASE TestSem(p) /\ UNCHANGED halVars
  <2>1. UNCHANGED <<device, camDevStatus>>
    BY <1>3 DEF TestSem, shmVars, halVars
  <2> QED BY <1>3, <2>1, GotoEffect DEF TestSem, shmVars, halVars, Uses, Pc, Points, LockPoints
<1>4. CASE UnlinkSem(p) /\ UNCHANGED halVars
  <2>1. UNCHANGED <<device, camDevStatus>>
    BY <1>4 DEF UnlinkSem, halVars
  <2> QED BY <1>4, <2>1, GotoEffect DEF UnlinkSem, halVars, Uses, Pc, Points, LockPoints
<1>5. CASE RecreateSem(p) /\ UNCHANGED halVars
  <2>1. UNCHANGED <<device, camDevStatus>>
    BY <1>5 DEF RecreateSem, Create, halVars
  <2> QED BY <1>5, <2>1, GotoEffect DEF RecreateSem, Create, halVars, Uses, Pc, Points, LockPoints
<1>6. CASE acquireSharedMemory(p) /\ UNCHANGED halVars
  <2>1. UNCHANGED device /\ Pc(p) \in Early /\ call'[p].pc = "idle"
    BY <1>6, GotoEffect DEF acquireSharedMemory, halVars, Early, Points, LockPoints
  <2>2. \A c \in Cameras : device'[p][c] = "null"
    BY <2>1 DEF CallInv, NoDevice
  <2> QED BY <2>1, <2>2 DEF Uses
<1>7. CASE CheckStatus(p) /\ UNCHANGED halVars
  <2>1. UNCHANGED <<device, camDevStatus>> /\ Pc(p) = "open"
    BY <1>7 DEF CheckStatus, halVars
  <2>2. CASE NoTable(p) /\ Goto(p, "count")
    BY <2>1, <2>2, GotoEffect DEF Uses, Points, LockPoints
  <2>3. CASE Goto(p, "idle")
    BY <2>1, <2>3, GotoEffect DEF Uses, Points, LockPoints
  <2>4. CASE /\ Goto(p, "mark")
             /\ camDevStatus[Cam(p)] = None \/ ~ processExist(camDevStatus[Cam(p)])
    BY <2>1, <2>4, GotoEffect DEF Uses, Cam, Points, LockPoints
  <2> QED BY <1>7, <2>2, <2>3, <2>4 DEF CheckStatus
<1>8. CASE MarkOpened(p) /\ UNCHANGED halVars
  <2>1. UNCHANGED device /\ call'[p].pc = "count" /\ call'[p].cam = Cam(p)
    BY <1>8, GotoEffect DEF MarkOpened, halVars, Cam, Points, LockPoints
  <2>2. Cam(p) \in Cameras /\ camDevStatus' = [camDevStatus EXCEPT ![Cam(p)] = p]
    BY <1>8 DEF MarkOpened, CallInv
  <2>3. camDevStatus'[Cam(p)] = p
        /\ \A c \in Cameras : camDevStatus[c] = p => camDevStatus'[c] = p
    BY <2>2 DEF TableType
  <2> QED BY <2>1, <2>3 DEF Uses
<1>9. CASE init(p)
  <2>1. UNCHANGED <<device, camDevStatus>>
    BY <1>9 DEF init, shmVars
  <2> QED BY <1>9, <2>1 DEF init, Uses, Pc, Points, LockPoints
<1>10. CASE deinit(p)
  <2>1. UNCHANGED <<device, camDevStatus>>
    BY <1>10 DEF deinit, shmVars
  <2> QED BY <1>10, <2>1 DEF deinit, Uses, Pc, Points, LockPoints
<1>11. CASE Opened(p)
  <2>1. Pc(p) = "count" /\ Cam(p) \in Cameras /\ UNCHANGED camDevStatus
    BY <1>11 DEF Opened, CallInv, shmVars
  <2>2. hal'[p].mCameraOpenNum # 0 => ~ NoTable(p)
    <3>1. cameraDeviceOpenNum(p, hal'[p].mCameraOpenNum)
      BY <1>11, <2>1, OpenedEffect
    <3> QED BY <3>1, CanLockTable DEF cameraDeviceOpenNum
  <2> QED BY <1>11, <2>1, <2>2, OpenedEffect DEF Uses
<1>12. CASE Closing(p)
  <2>1. /\ Pc(p) = "close" /\ Cam(p) \in Cameras /\ call'[p].pc = "idle"
        /\ device[p][Cam(p)] \in {"null", "closing"}
    BY <1>12 DEF Closing, CallInv, MemoryType
  <2>2. \A c \in Cameras : device'[p][c] \in {"created", "open"} => device'[p][c] = device[p][c]
    BY <1>12, DestroyEffect DEF Closing
  <2>3. \A c \in Cameras : c # Cam(p) => camDevStatus'[c] = camDevStatus[c]
    BY <1>12 DEF Closing, CameraDeviceClose, TableType
  <2> QED BY <2>1, <2>2, <2>3 DEF Uses
<1>13. CASE CloseNothing(p)
  <2>1. Pc(p) = "idle" /\ UNCHANGED <<camDevStatus, call>> /\ DestroyClosed(p)
    BY <1>13 DEF CloseNothing, shmVars
  <2> QED BY <2>1, DestroyEffect DEF Uses, Pc
<1>14. CASE Unload(p)
  <2>1. UNCHANGED <<device, camDevStatus>>
    BY <1>14 DEF Unload, shmVars, halVars
  <2> QED BY <1>14, <2>1, GotoEffect DEF Unload, shmVars, halVars, Uses, Pc, Points, LockPoints
<1>15. ASSUME NEW c \in Cameras, deviceClose(p, c)
      PROVE  Uses(p)
  <2>1. UNCHANGED camDevStatus
    BY <1>15 DEF deviceClose, shmVars
  <2> QED BY <1>15, <2>1, deviceCloseEffect DEF Uses
<1>16. ASSUME NEW c \in Cameras, NEW vc \in VcNums, deviceOpen(p, c, vc)
      PROVE  Uses(p)
  <2>1. UNCHANGED <<device, camDevStatus>>
    BY <1>16 DEF deviceOpen, shmVars
  <2> QED BY <1>16, <2>1, deviceOpenEffect DEF Uses
<1>17. CASE releaseSharedMemory(p) /\ Gone(p)
  <2>1. Exit(p) /\ Gone(p)
    BY <1>17 DEF releaseSharedMemory
  <2> QED BY <2>1, GoneEffect DEF Uses, NoDevice
<1>18. CASE Crash(p) /\ Gone(p)
  <2>1. Exit(p) /\ Gone(p)
    BY <1>18 DEF Crash
  <2> QED BY <2>1, GoneEffect DEF Uses, NoDevice
<1> QED BY <1>1, <1>2, <1>3, <1>4, <1>5, <1>6, <1>7, <1>8, <1>9, <1>10, <1>11, <1>12, <1>13, <1>14, <1>15, <1>16, <1>17, <1>18 DEF Process

\* Every step keeps MarkedInv: what is in use is marked, and nobody takes the mark.
LEMMA MarkedStep ==
  ASSUME MemoryType, TableType, CallInv, HolderInv, SameLock, OwnerInv, MarkedInv,
         [Next]_vars
  PROVE  MarkedInv'
<1>1. CASE UNCHANGED vars
  BY <1>1 DEF vars, shmVars, halVars, MarkedInv, MarkedOf, NoTable, LockFails, Pc, Cam,
              processExist
<1>2. ASSUME NEW p \in Pids, Process(p), ~ doubleUnlink', NEW q \in Pids
      PROVE  MarkedOf(q)'
  <2>1. ~ doubleUnlink
    BY <1>2, RenameStep DEF Renames
  <2>2. MarkedOf(q) /\ MarkedOf(p)
    BY <1>2, <2>1 DEF MarkedInv
  <2>3. ASSUME NEW c \in Cameras, camDevStatus[c] = None \/ Pc(camDevStatus[c]) = "dead",
               camDevStatus'[c] = camDevStatus[c]
        PROVE  camDevStatus'[c] = None \/ call'[camDevStatus'[c]].pc = "dead"
    BY <1>2, <2>3, AliveStep, OwnStep DEF Own, Pc, TableType
  <2>4. CASE q # p
    <3>1. /\ call'[q] = call[q] /\ device'[q] = device[q] /\ mSemLock'[q] = mSemLock[q]
          /\ q \in attached' <=> q \in attached
      BY <1>2, <2>4, OwnStep DEF Own
    <3>2. ASSUME NEW c \in Cameras, camDevStatus[c] = q, Pc(q) # "dead"
          PROVE  camDevStatus'[c] = q
      <4>1. q \in attached
        BY <3>2, HalAssumption DEF OwnerInv
      <4> QED BY <1>2, <2>1, <2>4, <3>2, <4>1, MarkStays
    <3>3. Pc(q) = "mark" => \/ camDevStatus'[Cam(q)] = None
                            \/ call'[camDevStatus'[Cam(q)]].pc = "dead"
      <4>1. SUFFICES ASSUME Pc(q) = "mark"
                     PROVE  \/ camDevStatus'[Cam(q)] = None
                            \/ call'[camDevStatus'[Cam(q)]].pc = "dead"
        OBVIOUS
      <4>2. Pc(p) # "mark" /\ Cam(q) \in Cameras
        BY <1>2, <2>1, <2>4, <4>1, OneMarks DEF CallInv
      <4>3. camDevStatus'[Cam(q)] \in {None, camDevStatus[Cam(q)]}
        BY <1>2, <4>2, OwnMarksStep DEF OwnMarks
      <4> QED BY <2>2, <2>3, <4>1, <4>2, <4>3 DEF MarkedOf
    <3>4. Pc(q) # "dead" /\ ~ NoTable(q)' => ~ NoTable(q)
      BY <1>2, <3>1, LockFailsStep DEF NoTable
    <3>5. Pc(q) = "count" /\ ~ NoTable(q)' => camDevStatus'[Cam(q)] = q
      BY <2>2, <3>2, <3>4 DEF MarkedOf, CallInv
    <3>6. \A c \in Cameras : device[q][c] # "null" => Pc(q) # "dead"
      BY DEF CallInv, NoDevice
    <3>7. \A c \in Cameras : device[q][c] = "open" => camDevStatus'[c] = q
      BY <2>2, <3>2, <3>6 DEF MarkedOf
    <3>8. \A c \in Cameras : device[q][c] = "created" /\ ~ NoTable(q)' => camDevStatus'[c] = q
      BY <2>2, <3>2, <3>4, <3>6 DEF MarkedOf
    <3> QED BY <3>1, <3>3, <3>5, <3>7, <3>8 DEF MarkedOf, Pc, Cam
  <2>5. CASE q = p
    <3>1. Uses(p)
      BY <1>2, UseStep
    <3>2. Pc(p) \notin Early /\ ~ NoTable(p)' => ~ NoTable(p)
      BY <1>2, NoTableStep
    <3>3. call'[p].pc = "mark" => \/ camDevStatus'[Cam(p)'] = None
                                  \/ call'[camDevStatus'[Cam(p)']].pc = "dead"
      <4>1. SUFFICES ASSUME call'[p].pc = "mark"
                     PROVE  \/ camDevStatus'[Cam(p)] = None
                            \/ call'[camDevStatus'[Cam(p)]].pc = "dead"
        BY <3>1 DEF Uses
      <4>2. /\ Pc(p) = "open" /\ UNCHANGED camDevStatus
            /\ camDevStatus[Cam(p)] = None \/ ~ processExist(camDevStatus[Cam(p)])
        BY <3>1, <4>1 DEF Uses
      <4>3. Cam(p) \in Cameras
        BY <1>2, <4>2 DEF CallInv
      <4>4. camDevStatus[Cam(p)] = None \/ Pc(camDevStatus[Cam(p)]) = "dead"
        BY <4>2, <4>3, AttachedRuns DEF OwnerInv, TableType
      <4> QED BY <2>3, <4>2, <4>3, <4>4
    <3>4. call'[p].pc = "count" /\ ~ NoTable(p)' => camDevStatus'[Cam(p)'] = p
      BY <3>1, <3>2 DEF Uses, Early, Cam
    <3>5. \A c \in Cameras : device[p][c] # "null" => Pc(p) \notin Early
      BY <1>2 DEF CallInv, NoDevice
    <3>6. ASSUME NEW c \in Cameras, \/ device'[p][c] = "open"
                                    \/ device'[p][c] = "created" /\ ~ NoTable(p)'
          PROVE  camDevStatus'[c] = p
      <4>1. CASE device'[p][c] = device[p][c] /\ (camDevStatus[c] = p => camDevStatus'[c] = p)
        BY <2>2, <3>2, <3>5, <3>6, <4>1 DEF MarkedOf
      <4>2. CASE /\ Pc(p) = "count" /\ c = Cam(p) /\ UNCHANGED camDevStatus
                 /\ device'[p][c] = "open" => ~ NoTable(p)
        BY <2>2, <3>2, <3>6, <4>2 DEF MarkedOf, Early
      <4> QED BY <3>1, <3>6, <4>1, <4>2 DEF Uses
    <3> QED BY <2>5, <3>3, <3>4, <3>6 DEF MarkedOf, Pc, Cam
  <2> QED BY <2>4, <2>5
<1> QED BY <1>1, <1>2 DEF Next, MarkedInv

\* where p keeps the cameras that it has marked
Holds(p, c) ==
    \/ device[p][c] \in {"created", "open"}
    \/ Pc(p) \in {"count", "close"} /\ Cam(p) = c

\* a mark that p has after a step, while it can lock, is of a camera that it holds
KeepsTrue(p) == \A c \in Cameras :
    camDevStatus'[c] = p /\ processExist(p)' /\ ~ NoTable(p) =>
        \/ Holds(p, c)'
        \/ camDevStatus[c] = p /\ ~ Holds(p, c)

\* A process that can lock the table has no mark of a camera that it has closed.
LEMMA KeepsTrueStep ==
  ASSUME NEW p \in Pids, Process(p), MemoryType, TableType, CallInv
  PROVE  KeepsTrue(p)
<1>1. CASE openSemLock(p) /\ UNCHANGED halVars
  <2>1. UNCHANGED <<device, camDevStatus>> /\ Pc(p) \notin {"count", "close"}
    BY <1>1 DEF openSemLock, Create, halVars
  <2> QED BY <1>1, <2>1 DEF KeepsTrue, Holds
<1>2. CASE OpenSem(p) /\ UNCHANGED halVars
  <2>1. UNCHANGED <<device, camDevStatus>> /\ Pc(p) \notin {"count", "close"}
    BY <1>2 DEF OpenSem, halVars
  <2> QED BY <1>2, <2>1 DEF KeepsTrue, Holds
<1>3. CASE TestSem(p) /\ UNCHANGED halVars
  <2>1. UNCHANGED <<device, camDevStatus>> /\ Pc(p) \notin {"count", "close"}
    BY <1>3 DEF TestSem, shmVars, halVars
  <2> QED BY <1>3, <2>1 DEF KeepsTrue, Holds
<1>4. CASE UnlinkSem(p) /\ UNCHANGED halVars
  <2>1. UNCHANGED <<device, camDevStatus>> /\ Pc(p) \notin {"count", "close"}
    BY <1>4 DEF UnlinkSem, halVars
  <2> QED BY <1>4, <2>1 DEF KeepsTrue, Holds
<1>5. CASE RecreateSem(p) /\ UNCHANGED halVars
  <2>1. UNCHANGED <<device, camDevStatus>> /\ Pc(p) \notin {"count", "close"}
    BY <1>5 DEF RecreateSem, Create, halVars
  <2> QED BY <1>5, <2>1 DEF KeepsTrue, Holds
<1>6. CASE acquireSharedMemory(p) /\ UNCHANGED halVars
  <2>1. Pc(p) = "acquire" /\ p \notin attached
    BY <1>6 DEF acquireSharedMemory, CallInv, Early
  <2> QED BY <2>1 DEF KeepsTrue, NoTable
<1>7. CASE CheckStatus(p) /\ UNCHANGED halVars
  <2>1. UNCHANGED <<device, camDevStatus>> /\ Pc(p) \notin {"count", "close"}
    BY <1>7 DEF CheckStatus, halVars
  <2> QED BY <1>7, <2>1 DEF KeepsTrue, Holds
<1>8. CASE MarkOpened(p) /\ UNCHANGED halVars
  <2>1. UNCHANGED device /\ call'[p].pc = "count" /\ call'[p].cam = Cam(p)
    BY <1>8, GotoEffect DEF MarkOpened, halVars, Cam, Points, LockPoints
  <2>2. Pc(p) = "mark" /\ camDevStatus' = [camDevStatus EXCEPT ![Cam(p)] = p]
    BY <1>8 DEF MarkOpened
  <2>3. \A c \in Cameras : camDevStatus'[c] = p => camDevStatus[c] = p \/ c = Cam(p)
    BY <2>2 DEF TableType
  <2> QED BY <2>1, <2>2, <2>3 DEF KeepsTrue, Holds, Pc, Cam
<1>9. CASE init(p)
  <2>1. UNCHANGED <<device, camDevStatus>> /\ Pc(p) \notin {"count", "close"}
    BY <1>9 DEF init, shmVars
  <2> QED BY <1>9, <2>1 DEF KeepsTrue, Holds
<1>10. CASE deinit(p)
  <2>1. UNCHANGED <<device, camDevStatus>> /\ Pc(p) \notin {"count", "close"}
    BY <1>10 DEF deinit, shmVars
  <2> QED BY <1>10, <2>1 DEF KeepsTrue, Holds
<1>11. CASE Opened(p)
  <2>1. Pc(p) = "count" /\ Cam(p) \in Cameras /\ UNCHANGED camDevStatus
    BY <1>11 DEF Opened, CallInv, shmVars
  <2> QED BY <1>11, <2>1, OpenedEffect DEF KeepsTrue, Holds
<1>12. CASE Closing(p)
  <2>1. Pc(p) = "close" /\ Cam(p) \in Cameras
    BY <1>12 DEF Closing, CallInv
  <2>2. \A c \in Cameras : device[p][c] \in {"created", "open"} => device'[p][c] = device[p][c]
    BY <1>12, DestroyEffect DEF Closing
  <2>3. ~ NoTable(p) => camDevStatus' = [camDevStatus EXCEPT ![Cam(p)] = IF @ = p THEN None ELSE @]
    BY <1>12 DEF Closing, CameraDeviceClose
  <2>4. ~ NoTable(p) => camDevStatus'[Cam(p)] # p
                        /\ \A c \in Cameras : c # Cam(p) => camDevStatus'[c] = camDevStatus[c]
    BY <2>1, <2>3, HalAssumption DEF TableType
  <2> QED BY <2>1, <2>2, <2>4 DEF KeepsTrue, Holds
<1>13. CASE CloseNothing(p)
  <2>1. Pc(p) = "idle" /\ UNCHANGED camDevStatus /\ DestroyClosed(p)
    BY <1>13 DEF CloseNothing, shmVars
  <2> QED BY <2>1, DestroyEffect DEF KeepsTrue, Holds
<1>14. CASE Unload(p)
  <2>1. UNCHANGED <<device, camDevStatus>> /\ Pc(p) \notin {"count", "close"}
    BY <1>14 DEF Unload, shmVars, halVars
  <2> QED BY <1>14, <2>1 DEF KeepsTrue, Holds
<1>15. ASSUME NEW c \in Cameras, deviceClose(p, c)
      PROVE  KeepsTrue(p)
  <2>1. Pc(p) = "idle" /\ UNCHANGED camDevStatus
    BY <1>15 DEF deviceClose, shmVars
  <2> QED BY <1>15, <2>1, deviceCloseEffect DEF KeepsTrue, Holds, Pc, Cam
<1>16. ASSUME NEW c \in Cameras, NEW vc \in VcNums, deviceOpen(p, c, vc)
      PROVE  KeepsTrue(p)
  <2>1. UNCHANGED <<device, camDevStatus>> /\ Pc(p) \notin {"count", "close"}
    BY <1>16 DEF deviceOpen, shmVars
  <2> QED BY <1>16, <2>1 DEF KeepsTrue, Holds
<1>17. CASE releaseSharedMemory(p) /\ Gone(p)
  <2>1. Exit(p) /\ Gone(p)
    BY <1>17 DEF releaseSharedMemory
  <2>2. ~ processExist(p)'
    BY <2>1, GoneEffect DEF processExist, Pc
  <2> QED BY <2>2 DEF KeepsTrue
<1>18. CASE Crash(p) /\ Gone(p)
  <2>1. Exit(p) /\ Gone(p)
    BY <1>18 DEF Crash
  <2>2. ~ processExist(p)'
    BY <2>1, GoneEffect DEF processExist, Pc
  <2> QED BY <2>2 DEF KeepsTrue
<1> QED BY <1>1, <1>2, <1>3, <1>4, <1>5, <1>6, <1>7, <1>8, <1>9, <1>10, <1>11, <1>12, <1>13, <1>14, <1>15, <1>16, <1>17, <1>18 DEF Process

\* Every step keeps MarksTrue.
LEMMA MarksTrueStep ==
  ASSUME MemoryType, TableType, CallInv, HolderInv, OwnerInv, MarksTrue, [Next]_vars
  PROVE  MarksTrue'
<1>1. CASE UNCHANGED vars
  BY <1>1 DEF vars, shmVars, halVars, MarksTrue, LockFails, Pc, Cam, processExist
<1>2. ASSUME NEW p \in Pids, Process(p), NEW c \in Cameras, NEW q \in Pids,
             camDevStatus'[c] = q, processExist(q)', ~ LockFails(q)'
      PROVE  Holds(q, c)'
  <2>1. q # None
    BY HalAssumption
  <2>2. camDevStatus[c] = q /\ processExist(q) /\ ~ LockFails(q) => Holds(q, c)
    BY <2>1 DEF MarksTrue, Holds
  <2>3. CASE q # p
    <3>1. /\ call'[q] = call[q] /\ device'[q] = device[q] /\ mSemLock'[q] = mSemLock[q]
      BY <1>2, <2>3, OwnStep DEF Own
    <3>2. camDevStatus[c] = q
      BY <1>2, <2>1, <2>3, OwnMarksStep DEF OwnMarks
    <3>3. ~ LockFails(q) /\ processExist(q)
      BY <1>2, <3>1, LockFailsStep DEF processExist, Pc
    <3> QED BY <2>2, <3>1, <3>2, <3>3 DEF Holds, Pc, Cam
  <2>4. CASE q = p
    <3>1. processExist(p) \/ camDevStatus[c] # p
      BY <1>2, <2>1, <2>4, AliveStep, AttachedRuns DEF OwnerInv
    <3>2. camDevStatus[c] = p \/ Pc(p) = "mark"
      BY <1>2, <2>1, <2>4, OwnMarksStep DEF OwnMarks
    <3>3. p \in attached
      BY <1>2, <2>1, <2>4, <3>2, AliveStep DEF OwnerInv, HolderInv, HolderOf
    <3>4. Pc(p) \notin Early /\ processExist(p)
      BY <3>3, AttachedRuns
    <3>5. ~ LockFails(p)
      <4>1. call'[p].pc # "dead"
        BY <1>2, <2>4 DEF processExist, Pc
      <4>2. mSemLock'[p] = mSemLock[p]
        BY <1>2, <3>4, <4>1, AttachStep DEF Attaches
      <4> QED BY <1>2, <2>4, <4>2, LockFailsStep
    <3>6. KeepsTrue(p)
      BY <1>2, KeepsTrueStep
    <3> QED BY <1>2, <2>2, <2>4, <3>3, <3>4, <3>5, <3>6 DEF KeepsTrue, NoTable
  <2> QED BY <2>3, <2>4
<1>3. TableType'
  BY TableStep
<1> QED BY <1>1, <1>2, <1>3 DEF Next, MarksTrue, Holds, TableType

\* The cameras in use are finitely many.
LEMMA InUseCount ==
  ASSUME NEW p \in Pids
  PROVE  /\ IsFiniteSet(InUse(p)) /\ Cardinality(InUse(p)) \in Nat
         /\ Cardinality(InUse(p)) = 0 => InUse(p) = {}
<1>1. InUse(p) \subseteq Cameras
  BY DEF InUse
<1>2. IsFiniteSet(InUse(p))
  BY <1>1, HalAssumption, FS_Subset
<1> QED BY <1>2, FS_CardinalityType, FS_EmptySet

\* A process that has no device has none in use.
LEMMA NoneInUse ==
  ASSUME NEW p \in Pids, device[p] = NoDevice, hal[p].mCameraOpenNum = 0
  PROVE  Counted(p)
<1>1. InUse(p) = {}
  BY DEF InUse, NoDevice
<1>2. ~ \E c \in Cameras : device[p][c] = "closing"
  BY DEF NoDevice
<1>3. Cardinality(InUse(p)) = 0
  BY <1>1, FS_EmptySet
<1> QED BY <1>2, <1>3 DEF Counted

\* p stays counted when it has the table and nothing but its own cameras counted
StaysCounted(p) == p \notin mixed' /\ ~ NoTable(p)' => Counted(p)'

\* mCameraOpenNum of a process that has counted only its own cameras is the number
\* of those in use, and the last one that is closed destroys all.
LEMMA StaysCountedStep ==
  ASSUME NEW p \in Pids, Process(p), MemoryType, TableType, CallInv, MarkedInv, MarksTrue, OwnerInv,
         ~ doubleUnlink, p \notin mixed /\ ~ NoTable(p) => Counted(p),
         Pc(p) \notin Early => (NoTable(p) => NoTable(p)')
  PROVE  StaysCounted(p)
<1>1. CASE openSemLock(p) /\ UNCHANGED halVars
  <2>1. Pc(p) \in Early /\ UNCHANGED attached
    BY <1>1 DEF openSemLock, Create, halVars, Early
  <2> QED BY <2>1 DEF StaysCounted, NoTable, CallInv
<1>2. CASE OpenSem(p) /\ UNCHANGED halVars
  <2>1. Pc(p) \in Early /\ UNCHANGED attached
    BY <1>2 DEF OpenSem, halVars, Early
  <2> QED BY <2>1 DEF StaysCounted, NoTable, CallInv
<1>3. CASE TestSem(p) /\ UNCHANGED halVars
  <2>1. Pc(p) \in Early /\ UNCHANGED attached
    BY <1>3 DEF TestSem, shmVars, halVars, Early
  <2> QED BY <2>1 DEF StaysCounted, NoTable, CallInv
<1>4. CASE UnlinkSem(p) /\ UNCHANGED halVars
  <2>1. Pc(p) \in Early /\ UNCHANGED attached
    BY <1>4 DEF UnlinkSem, halVars, Early
  <2> QED BY <2>1 DEF StaysCounted, NoTable, CallInv
<1>5. CASE RecreateSem(p) /\ UNCHANGED halVars
  <2>1. Pc(p) \in Early /\ UNCHANGED attached
    BY <1>5 DEF RecreateSem, Create, halVars, Early
  <2> QED BY <2>1 DEF StaysCounted, NoTable, CallInv
<1>6. CASE acquireSharedMemory(p) /\ UNCHANGED halVars
  <2>1. Pc(p) \in Early /\ UNCHANGED <<device, hal>>
    BY <1>6 DEF acquireSharedMemory, halVars, Early
  <2>2. device[p] = NoDevice /\ hal[p].mCameraOpenNum = 0
    BY <2>1 DEF CallInv, NewHal
  <2>3. InUse(p)' = {} /\ device'[p] = NoDevice /\ hal'[p].mCameraOpenNum = 0
    BY <2>1, <2>2 DEF InUse, NoDevice
  <2>4. ~ \E c \in Cameras : device'[p][c] = "closing"
    BY <2>3 DEF NoDevice
  <2>5. Counted(p)'
    BY <2>3, <2>4, FS_EmptySet DEF Counted
  <2> QED BY <2>5 DEF StaysCounted
<1>7. CASE CheckStatus(p) /\ UNCHANGED halVars
  <2>1. /\ UNCHANGED <<device, hal, mixed>>
        /\ Pc(p) \notin Early /\ Pc(p) # "close"
    BY <1>7 DEF CheckStatus, halVars, Early
  <2>2. InUse(p)' = InUse(p)
    BY <2>1 DEF InUse
  <2> QED BY <2>1, <2>2 DEF StaysCounted, Counted
<1>8. CASE MarkOpened(p) /\ UNCHANGED halVars
  <2>1. /\ UNCHANGED <<device, hal, mixed>>
        /\ Pc(p) \notin Early /\ Pc(p) # "close"
    BY <1>8 DEF MarkOpened, halVars, Early
  <2>2. InUse(p)' = InUse(p)
    BY <2>1 DEF InUse
  <2> QED BY <2>1, <2>2 DEF StaysCounted, Counted
<1>9. CASE init(p)
  <2>1. /\ UNCHANGED <<device, mixed>> /\ device[p] = NoDevice
        /\ Pc(p) \notin Early
    BY <1>9 DEF init, CallInv, Early
  <2>2. hal'[p].mCameraOpenNum = hal[p].mCameraOpenNum
    BY <1>9, initEffect
  <2>3. InUse(p)' = InUse(p) /\ ~ \E c \in Cameras : device'[p][c] = "closing"
    BY <2>1 DEF InUse, NoDevice
  <2> QED BY <2>1, <2>2, <2>3 DEF StaysCounted, Counted
<1>10. CASE deinit(p)
  <2>1. /\ UNCHANGED <<device, mixed>> /\ device[p] = NoDevice
        /\ Pc(p) \notin Early
    BY <1>10 DEF deinit, CallInv, Early
  <2>2. hal'[p].mCameraOpenNum = hal[p].mCameraOpenNum
    BY <1>10, initEffect
  <2>3. InUse(p)' = InUse(p) /\ ~ \E c \in Cameras : device'[p][c] = "closing"
    BY <2>1 DEF InUse, NoDevice
  <2> QED BY <2>1, <2>2, <2>3 DEF StaysCounted, Counted
<1>11. CASE Opened(p)
  <2> DEFINE n == hal'[p].mCameraOpenNum
  <2>1. /\ Pc(p) = "count" /\ Cam(p) \in Cameras /\ UNCHANGED <<camDevStatus, attached, mSemLock>>
    BY <1>11 DEF Opened, CallInv, shmVars
  <2>2. SUFFICES ASSUME p \notin mixed', ~ NoTable(p) PROVE Counted(p)'
    BY <2>1 DEF StaysCounted, Early
  <2>3. /\ p \notin mixed
        /\ \A c \in Cameras : camDevStatus[c] \in {None, p}
    BY <1>11, <2>2 DEF Opened
  <2>4. Counted(p)
    BY <2>2, <2>3
  <2>5. n = Cardinality({c \in Cameras : camDevStatus[c] # None})
    BY <1>11, <2>1, <2>2, OpenedEffect DEF cameraDeviceOpenNum
  <2>6. MarkedOf(p) /\ p # None /\ processExist(p) /\ ~ LockFails(p)
    BY <2>1, <2>2, HalAssumption DEF MarkedInv, processExist, NoTable
  <2>7. ASSUME NEW c \in Cameras
        PROVE  camDevStatus[c] # None <=> device'[p][c] \in {"created", "open"}
    <3>1. CASE c = Cam(p)
      BY <1>11, <2>1, <2>2, <2>6, <3>1, OpenedEffect DEF MarkedOf
    <3>2. CASE c # Cam(p)
      <4>1. device'[p][c] = device[p][c]
        BY <1>11, <2>1, <3>2, OpenedEffect
      <4>2. camDevStatus[c] = p => device[p][c] \in {"created", "open"}
        BY <2>1, <2>6, <3>2 DEF MarksTrue
      <4>3. device[p][c] \in {"created", "open"} => camDevStatus[c] = p
        BY <2>2, <2>6 DEF MarkedOf
      <4> QED BY <2>3, <2>6, <4>1, <4>2, <4>3
    <3> QED BY <3>1, <3>2
  <2>8. InUse(p)' = {c \in Cameras : camDevStatus[c] # None}
    BY <2>7 DEF InUse
  <2>9. Cam(p) \in InUse(p)'
    BY <1>11, <2>1, OpenedEffect DEF InUse
  <2>10. (\E c \in Cameras : device'[p][c] = "closing") => hal'[p].mVcNum > 0
    BY <1>11, <2>1, <2>4, OpenedEffect DEF Counted
  <2> QED BY <2>5, <2>8, <2>9, <2>10 DEF Counted
<1>12. CASE Closing(p)
  <2>1. Pc(p) = "close" /\ UNCHANGED mixed /\ call'[p].pc = "idle"
    BY <1>12 DEF Closing, MemoryType
  <2>2. SUFFICES ASSUME Counted(p) PROVE Counted(p)'
    BY <2>1 DEF StaysCounted, Early
  <2>3. CASE LastClosed(p) /\ DestroyClosed(p)
    <3>1. InUse(p)' = InUse(p)
      BY <2>3, DestroyEffect DEF InUse
    <3>2. \A c \in Cameras : device'[p][c] # "closing"
      BY <2>3, DestroyEffect
    <3>3. InUse(p)' = {} => device'[p] = NoDevice
      BY <2>3, <3>2, DestroyEffect DEF InUse, NoDevice, DeviceStates
    <3> QED BY <2>3, <2>2, <3>1, <3>2, <3>3, DestroyEffect DEF Counted
  <2>4. CASE ~ LastClosed(p) /\ UNCHANGED <<device, hal>>
    <3>1. InUse(p)' = InUse(p)
      BY <2>4 DEF InUse
    <3>2. InUse(p) = {} => ~ (hal[p].mVcNum > 0)
      BY <2>2, <2>4, FS_EmptySet DEF Counted, LastClosed
    <3>3. InUse(p) = {} => device[p] = NoDevice
      BY <2>2, <3>2 DEF Counted, InUse, NoDevice, MemoryType, DeviceStates
    <3> QED BY <2>2, <2>4, <3>1, <3>3 DEF Counted
  <2> QED BY <1>12, <2>3, <2>4 DEF Closing
<1>13. CASE CloseNothing(p)
  <2>1. Pc(p) = "idle" /\ UNCHANGED <<mixed, call>> /\ DestroyClosed(p)
    BY <1>13 DEF CloseNothing
  <2>2. SUFFICES ASSUME Counted(p) PROVE Counted(p)'
    BY <2>1 DEF StaysCounted, Early
  <2>3. Counted(p)'
    <3>1. InUse(p)' = InUse(p)
      BY <2>1, DestroyEffect DEF InUse
    <3>2. \A c \in Cameras : device'[p][c] # "closing"
      BY <2>1, DestroyEffect
    <3>3. InUse(p)' = {} => device'[p] = NoDevice
      BY <2>1, <3>2, DestroyEffect DEF InUse, NoDevice, DeviceStates
    <3> QED BY <2>1, <2>2, <3>1, <3>2, <3>3, DestroyEffect DEF Counted
  <2> QED BY <2>3
<1>14. CASE Unload(p)
  <2>1. /\ UNCHANGED <<device, hal, mixed>>
        /\ Pc(p) \notin Early /\ Pc(p) # "close"
    BY <1>14 DEF Unload, halVars, Early
  <2>2. InUse(p)' = InUse(p)
    BY <2>1 DEF InUse
  <2> QED BY <2>1, <2>2 DEF StaysCounted, Counted
<1>15. ASSUME NEW c \in Cameras, deviceClose(p, c)
      PROVE  StaysCounted(p)
  <2>1. Pc(p) = "idle" /\ device[p][c] # "null" /\ UNCHANGED mixed
    BY <1>15 DEF deviceClose
  <2>2. SUFFICES ASSUME Counted(p) PROVE Counted(p)'
    BY <2>1 DEF StaysCounted, Early
  <2>3. device[p][c] \in DeviceStates
    BY DEF MemoryType
  <2>4. CASE device[p][c] = "closing"
    <3>1. hal[p].mVcNum > 0
      BY <2>2, <2>4 DEF Counted
    <3>2. InUse(p)' = InUse(p) /\ hal'[p].mCameraOpenNum = hal[p].mCameraOpenNum
      BY <1>15, <2>4, <3>1, deviceCloseEffect, ZenonT(60) DEF InUse
    <3> QED BY <1>15, <2>2, <3>1, <3>2, deviceCloseEffect DEF Counted, Pc
  <2>5. CASE device[p][c] \in {"created", "open"}
    <3>1. InUse(p)' = InUse(p) \ {c} /\ c \in InUse(p)
      BY <1>15, <2>5, deviceCloseEffect DEF InUse
    <3>2. Cardinality(InUse(p)') = Cardinality(InUse(p)) - 1
      BY <3>1, InUseCount, FS_RemoveElement
    <3>3. hal'[p].mCameraOpenNum = hal[p].mCameraOpenNum - 1
      BY <1>15, <2>5, deviceCloseEffect
    <3>4. (\E d \in Cameras : device'[p][d] = "closing") => hal'[p].mVcNum > 0
      <4>1. CASE hal[p].mVcNum > 0
        BY <1>15, <4>1, deviceCloseEffect
      <4>2. CASE ~ (hal[p].mVcNum > 0)
        BY <1>15, <2>2, <4>2, deviceCloseEffect DEF Counted
      <4> QED BY <4>1, <4>2
    <3> QED BY <1>15, <2>2, <3>2, <3>3, <3>4, deviceCloseEffect DEF Counted, Pc
  <2> QED BY <2>1, <2>3, <2>4, <2>5 DEF DeviceStates
<1>16. ASSUME NEW c \in Cameras, NEW vc \in VcNums, deviceOpen(p, c, vc)
      PROVE  StaysCounted(p)
  <2>1. /\ UNCHANGED <<device, mixed>> /\ Pc(p) = "idle"
        /\ hal[p].mCameraOpenNum = 0 \/ vc = hal[p].mVcNum
    BY <1>16 DEF deviceOpen
  <2>2. /\ hal'[p].mCameraOpenNum = hal[p].mCameraOpenNum /\ hal'[p].mVcNum = vc
    BY <1>16, deviceOpenEffect
  <2>3. InUse(p)' = InUse(p)
    BY <2>1 DEF InUse
  <2>4. SUFFICES ASSUME Counted(p) PROVE Counted(p)'
    BY <2>1 DEF StaysCounted, Early
  <2>5. hal[p].mCameraOpenNum = 0 => device[p] = NoDevice
    BY <2>1, <2>4, InUseCount DEF Counted
  <2>6. (\E d \in Cameras : device[p][d] = "closing") => vc = hal[p].mVcNum
    BY <2>1, <2>5 DEF NoDevice
  <2> QED BY <2>1, <2>2, <2>3, <2>4, <2>6 DEF Counted
<1>17. CASE releaseSharedMemory(p) /\ Gone(p)
  <2>1. p \notin attached'
    BY <1>17 DEF releaseSharedMemory, Exit
  <2> QED BY <2>1 DEF StaysCounted, NoTable
<1>18. CASE Crash(p) /\ Gone(p)
  <2>1. p \notin attached'
    BY <1>18 DEF Crash, Exit
  <2> QED BY <2>1 DEF StaysCounted, NoTable
<1> QED BY <1>1, <1>2, <1>3, <1>4, <1>5, <1>6, <1>7, <1>8, <1>9, <1>10, <1>11, <1>12, <1>13, <1>14, <1>15, <1>16, <1>17, <1>18 DEF Process

\* Every step keeps CountInv.
LEMMA CountStep ==
  ASSUME MemoryType, TableType, CallInv, HolderInv, OwnerInv, MarkedInv, MarksTrue,
         CountInv, [Next]_vars
  PROVE  CountInv'
<1>1. CASE UNCHANGED vars
  <2>1. \A p \in Pids : InUse(p)' = InUse(p)
    BY <1>1 DEF vars, halVars, InUse
  <2> QED BY <1>1, <2>1 DEF vars, shmVars, halVars, CountInv, Counted, NoTable, LockFails, Pc,
                        processExist
<1>2. ASSUME NEW p \in Pids, Process(p), ~ doubleUnlink', NEW q \in Pids,
             q \notin mixed', ~ NoTable(q)'
      PROVE  Counted(q)'
  <2>1. ~ doubleUnlink
    BY <1>2, RenameStep DEF Renames
  <2>2. q \notin mixed /\ ~ NoTable(q) => Counted(q)
    BY <2>1 DEF CountInv
  <2>3. CASE q # p
    <3>1. /\ call'[q] = call[q] /\ device'[q] = device[q] /\ hal'[q] = hal[q]
          /\ mSemLock'[q] = mSemLock[q]
          /\ q \in attached' <=> q \in attached
          /\ q \in mixed' <=> q \in mixed
      BY <1>2, <2>3, OwnStep DEF Own
    <3>2. ~ NoTable(q)
      BY <1>2, <3>1, LockFailsStep DEF NoTable
    <3>3. InUse(q)' = InUse(q)
      BY <3>1 DEF InUse
    <3> QED BY <1>2, <2>2, <3>1, <3>2, <3>3 DEF Counted, Pc
  <2>4. CASE q = p
    <3>1. Pc(p) \notin Early => (NoTable(p) => NoTable(p)')
      BY <1>2, NoTableStep
    <3>2. StaysCounted(p)
      BY <1>2, <2>1, <2>2, <2>4, <3>1, StaysCountedStep
    <3> QED BY <1>2, <2>4, <3>2 DEF StaysCounted
  <2> QED BY <2>3, <2>4
<1> QED BY <1>1, <1>2 DEF Next, CountInv

-----------------------------------------------------------------------------
IInv ==
    /\ MemoryType /\ TableType /\ CallInv /\ SpentInv /\ HolderInv /\ SameLock
    /\ OwnerInv /\ MarkedInv /\ MarksTrue /\ CountInv

\* The inductive invariant holds when no process has been loaded.
LEMMA IInvInit == Init => IInv
<1> SUFFICES ASSUME Init PROVE IInv
  OBVIOUS
<1> USE DEF Init, ShmInit
<1>1. MemoryType
  BY DEF MemoryType, Calls, Hals, NewHal, NoDevice, DeviceStates, Points, LockPoints
<1>2. TableType
  BY DEF TableType
<1>3. CallInv
  BY DEF CallInv, Pc, Cam, NewHal
<1>4. SpentInv
  <2>1. \A p \in Pids : hal[p].mCameraOpenNum = 0
    BY DEF NewHal
  <2>2. ASSUME NEW p \in Pids
        PROVE  0 >= - Cardinality(Spent(p)) /\ 0 <= Cardinality(Cameras)
    BY SpentCount, CamerasCount
  <2> QED BY <2>1, <2>2 DEF SpentInv
<1>5. HolderInv /\ SameLock
  BY DEF HolderInv, HolderOf, SameLock, Pc
<1>6. OwnerInv /\ MarksTrue
  BY DEF OwnerInv, MarksTrue
<1>7. \A p \in Pids : NoTable(p)
  BY DEF NoTable
<1>8. MarkedInv
  BY <1>7 DEF MarkedInv, MarkedOf, NoDevice, Pc
<1>9. CountInv
  BY <1>7 DEF CountInv
<1> QED BY <1>1, <1>2, <1>3, <1>4, <1>5, <1>6, <1>8, <1>9 DEF IInv

\* Every step keeps the inductive invariant.
LEMMA IInvStep == IInv /\ [Next]_vars => IInv'
<1> SUFFICES ASSUME IInv, [Next]_vars PROVE IInv'
  OBVIOUS
<1> USE DEF IInv
<1>1. MemoryType' /\ TableType' /\ CallInv' /\ SpentInv'
  BY MemoryStep, TableStep, CallStep, SpentStep
<1>2. HolderInv' /\ SameLock' /\ OwnerInv'
  BY HolderStep, SameLockStep, OwnerStep
<1>3. MarkedInv' /\ MarksTrue' /\ CountInv'
  BY MarkedStep, MarksTrueStep, CountStep
<1> QED BY <1>1, <1>2, <1>3

\* The inductive invariant holds in every state of every behaviour.
LEMMA IInvHolds == Spec => []IInv
  BY IInvInit, IInvStep, PTL DEF Spec

\* Every member of CameraHal and of CameraSharedMemory keeps its type, and
\* mCameraOpenNum its bounds, in every behaviour (CameraHal.cpp, CameraShm.cpp).
THEOREM TypeCorrect == Spec => []TypeOK
<1>1. IInv => TypeOK
  <2> SUFFICES ASSUME IInv PROVE TypeOK
    OBVIOUS
  <2>1. ShmTypeOK
    BY DEF IInv, MemoryType, TableType, ShmTypeOK, Calls
  <2>2. ASSUME NEW p \in Pids
        PROVE  hal[p] \in
                 [init : BOOLEAN, mVcNum : VcNums \cup {0},
                  mCameraOpenNum : - Cardinality(Cameras) .. Cardinality(Cameras),
                  mCurrentGroupId : {Group[c] : c \in Cameras} \cup {-1}]
    BY SpentBound DEF IInv, MemoryType, Hals
  <2> QED BY <2>1, <2>2 DEF IInv, MemoryType, TypeOK
<1> QED BY <1>1, IInvHolds, PTL

\* The mark of a process that runs and can lock the table is of a camera that it has
\* or is about to get or to give up: a camera nobody uses can be opened, after any
\* crash (CameraSharedMemory::CameraDeviceOpen, CameraDeviceClose).
THEOREM MarksAreTrue == Spec => []MarksTrue
<1>1. IInv => MarksTrue
  BY DEF IInv
<1> QED BY <1>1, IInvHolds, PTL

\* No camera is open in two processes, unless two have recovered the semaphore at the
\* same time (CameraSharedMemory::openSemLock).
THEOREM CamerasAreExclusive == Spec => []Exclusive
<1>1. IInv => Exclusive
  <2> SUFFICES ASSUME IInv, ~ doubleUnlink, NEW c \in Cameras
               PROVE  Cardinality({p \in Pids : device[p][c] = "open"}) <= 1
    BY DEF Exclusive
  <2> DEFINE S == {p \in Pids : device[p][c] = "open"}
  <2>1. S \subseteq {camDevStatus[c]}
    BY DEF IInv, MarkedInv, MarkedOf
  <2>2. IsFiniteSet({camDevStatus[c]}) /\ Cardinality({camDevStatus[c]}) = 1
    BY FS_Singleton
  <2> QED BY <2>1, <2>2, FS_Subset, FS_CardinalityType
<1> QED BY <1>1, IInvHolds, PTL

\* A process that has closed all its cameras has destroyed them, and its count is 0,
\* unless it has counted cameras of other processes (CameraHal::deviceClose).
THEOREM ClosedIsReleased == Spec => []Released
<1>1. IInv => Released
  <2> SUFFICES ASSUME IInv, ~ doubleUnlink, NEW p \in Pids, Pc(p) = "idle",
                      p \notin mixed, ~ NoTable(p), Closed(p)
               PROVE  device[p] = NoDevice /\ hal[p].mCameraOpenNum = 0
    BY DEF Released
  <2>1. InUse(p) = {}
    BY DEF InUse, Closed
  <2> QED BY <2>1, FS_EmptySet DEF IInv, CountInv, Counted
<1> QED BY <1>1, IInvHolds, PTL

=============================================================================
