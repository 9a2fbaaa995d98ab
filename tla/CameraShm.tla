----------------------------- MODULE CameraShm -----------------------------
(***************************************************************************)
(* CameraSharedMemory, src/src/iutils/CameraShm.cpp: the processes that     *)
(* have loaded the HAL share a table of the cameras in use, guarded by the  *)
(* named semaphore "/camlock".  A process may die at any time, also while   *)
(* it holds the semaphore; nobody posts it then, and the next process to    *)
(* come unlinks it and creates another one.                                *)
(*                                                                         *)
(* A semaphore is named by the process that created it: a process creates  *)
(* at most one.  A wait for it (CAMERA_SHM_LOCK_TIME) times out when its    *)
(* holder is dead, the critical sections being short; pids are not reused. *)
(* A critical section is one step, but for the check and the mark of       *)
(* CameraDeviceOpen, with the death of the holder in it as another.        *)
(***************************************************************************)
EXTENDS Integers, FiniteSets

CONSTANTS
    Pids,       \* processes, each runs once
    Cameras,    \* camera ids
    MaxLive,    \* bound: processes that run at the same time
    None        \* CAMERA_DEVICE_IDLE, SEM_FAILED, a free semaphore, no name

VARIABLES
    semaphore,     \* creator -> the process that holds it
    camlock,       \* the semaphore that has the name SEM_NAME
    mSemLock,      \* process -> the semaphore it uses
    attached,      \* the processes that have attached the shared memory
    camDevStatus,  \* camera -> the pid stored for it
    call,          \* process -> where it is and with which camera
    doubleUnlink   \* a recovery has unlinked the semaphore of another one

shmVars == <<semaphore, camlock, mSemLock, attached, camDevStatus, doubleUnlink>>

LockPoints == {"test", "acquire", "open", "count", "close", "release"}
Points == LockPoints \cup {"out", "opensem", "unlink", "recreate", "idle",
                           "mark", "dead"}

-----------------------------------------------------------------------------
Pc(p)      == call[p].pc
Cam(p)     == call[p].cam
Goto(p, l) == call' = [call EXCEPT ![p].pc = l]

\* processExist()
processExist(p) == Pc(p) \notin {"out", "dead"}

Free(p)     == mSemLock[p] # None /\ semaphore[mSemLock[p]] = None
\* lock() returns an error: there is no semaphore, or the wait times out
LockFails(p) ==
    mSemLock[p] # None => \E q \in Pids :
        semaphore[mSemLock[p]] = q /\ ~ processExist(q)
NoTable(p)  == p \notin attached \/ LockFails(p)
\* lock() ... unlock() in one step
CanLock(p)  == p \in attached /\ Free(p)

\* sem_open(O_CREAT | O_EXCL)
Create(p) ==
    /\ camlock = None
    /\ camlock' = p
    /\ mSemLock' = [mSemLock EXCEPT ![p] = p]
    /\ Goto(p, "acquire")

\* acquireSharedMemory(): the process is loaded and calls openSemLock()
openSemLock(p) ==
    /\ Pc(p) = "out"
    /\ Cardinality({q \in Pids : processExist(q)}) < MaxLive
    /\ \/ Create(p)
       \/ camlock # None /\ Goto(p, "opensem") /\ UNCHANGED <<camlock, mSemLock>>
    /\ UNCHANGED <<semaphore, attached, camDevStatus, doubleUnlink>>

\* the name exists, but may be gone by now
OpenSem(p) ==
    /\ Pc(p) = "opensem"
    /\ mSemLock' = [mSemLock EXCEPT ![p] = camlock]
    /\ Goto(p, IF camlock = None THEN "acquire" ELSE "test")
    /\ UNCHANGED <<semaphore, camlock, attached, camDevStatus, doubleUnlink>>

\* the semaphore is taken and posted at once, or its holder has crashed
TestSem(p) ==
    /\ Pc(p) = "test"
    /\ \/ Free(p) /\ Goto(p, "acquire")
       \/ LockFails(p) /\ Goto(p, "unlink")
    /\ UNCHANGED shmVars

\* sem_unlink(SEM_NAME): of whatever has this name now
UnlinkSem(p) ==
    /\ Pc(p) = "unlink"
    /\ camlock' = None
    /\ doubleUnlink' = (doubleUnlink \/ camlock \notin {mSemLock[p], None})
    /\ Goto(p, "recreate")
    /\ UNCHANGED <<semaphore, mSemLock, attached, camDevStatus>>

RecreateSem(p) ==
    /\ Pc(p) = "recreate"
    /\ \/ Create(p)
       \/ /\ camlock # None
          /\ mSemLock' = [mSemLock EXCEPT ![p] = None]
          /\ Goto(p, "acquire")
          /\ UNCHANGED camlock
    /\ UNCHANGED <<semaphore, attached, camDevStatus, doubleUnlink>>

\* attaches the table; the only process clears it all, another one the marks
\* of processes that do not run any more
ClearedTable(p) ==
    [c \in Cameras |->
        IF \/ attached = {}
           \/ camDevStatus[c] # None /\ ~ processExist(camDevStatus[c])
        THEN None ELSE camDevStatus[c]]

acquireSharedMemory(p) ==
    /\ Pc(p) = "acquire"
    /\ \/ /\ Free(p)
          /\ attached' = attached \cup {p}
          /\ camDevStatus' = ClearedTable(p)
       \/ LockFails(p) /\ UNCHANGED <<attached, camDevStatus>>
    /\ Goto(p, "idle")
    /\ UNCHANGED <<semaphore, camlock, mSemLock, doubleUnlink>>

-----------------------------------------------------------------------------
\* Mutant: the table is not locked from the check to the mark
CheckStatusMutant(p) ==
    LET pid == camDevStatus[Cam(p)] IN
    /\ Pc(p) = "open"
    /\ \/ NoTable(p) /\ Goto(p, "count") /\ UNCHANGED semaphore
       \/ /\ CanLock(p)
          /\ IF pid # None /\ processExist(pid)
             THEN Goto(p, "idle")
             ELSE Goto(p, "mark")
          /\ UNCHANGED semaphore
    /\ UNCHANGED <<camlock, mSemLock, attached, camDevStatus, doubleUnlink>>
\* CameraDeviceOpen() up to the check: refused, locked for the mark, or, when
\* the table cannot be locked, OK without a mark
CheckStatus(p) ==
    LET pid == camDevStatus[Cam(p)] IN
    /\ Pc(p) = "open"
    /\ \/ NoTable(p) /\ Goto(p, "count") /\ UNCHANGED semaphore
       \/ /\ CanLock(p)
          /\ IF pid # None /\ processExist(pid)
             THEN Goto(p, "idle") /\ UNCHANGED semaphore
             ELSE /\ Goto(p, "mark")
                  /\ semaphore' = [semaphore EXCEPT ![mSemLock[p]] = p]
    /\ UNCHANGED <<camlock, mSemLock, attached, camDevStatus, doubleUnlink>>

\* CameraDeviceOpen() from the check on, and unlock()
MarkOpened(p) ==
    /\ Pc(p) = "mark"
    /\ camDevStatus' = [camDevStatus EXCEPT ![Cam(p)] = p]
    /\ semaphore' = [semaphore EXCEPT ![mSemLock[p]] = None]
    /\ Goto(p, "count")
    /\ UNCHANGED <<camlock, mSemLock, attached, doubleUnlink>>

\* cameraDeviceOpenNum() when it returns n: the marks of all processes
cameraDeviceOpenNum(p, n) ==
    \/ NoTable(p) /\ n = 0
    \/ CanLock(p) /\ n = Cardinality({c \in Cameras : camDevStatus[c] # None})

\* Mutant: the mark stays
CameraDeviceCloseMutant(p) == (NoTable(p) \/ CanLock(p)) /\ UNCHANGED shmVars
\* CameraDeviceClose()
CameraDeviceClose(p) ==
    /\ \/ NoTable(p) /\ UNCHANGED camDevStatus
       \/ /\ CanLock(p)
          /\ camDevStatus' = [camDevStatus EXCEPT ![Cam(p)] = IF @ = p THEN None ELSE @]
    /\ UNCHANGED <<semaphore, camlock, mSemLock, attached, doubleUnlink>>

\* The kernel detaches the shared memory of a process that ends
Exit(p) ==
    /\ attached' = attached \ {p}
    /\ mSemLock' = [mSemLock EXCEPT ![p] = None]
    /\ call' = [call EXCEPT ![p] = [pc |-> "dead", cam |-> None]]

\* releaseSharedMemory(): the library is unloaded, and the process ends
releaseSharedMemory(p) ==
    /\ Pc(p) = "release"
    /\ \/ NoTable(p) /\ UNCHANGED camDevStatus
       \/ /\ CanLock(p)
          /\ camDevStatus' = [c \in Cameras |->
                IF camDevStatus[c] = p THEN None ELSE camDevStatus[c]]
    /\ Exit(p)
    /\ UNCHANGED <<semaphore, camlock, doubleUnlink>>

\* A process dies; it takes the semaphore with it when it has just locked it
Crash(p) ==
    /\ processExist(p)
    /\ \/ UNCHANGED semaphore
       \/ /\ Pc(p) \in LockPoints /\ Free(p)
          /\ semaphore' = [semaphore EXCEPT ![mSemLock[p]] = p]
    /\ Exit(p)
    /\ UNCHANGED <<camlock, camDevStatus, doubleUnlink>>

-----------------------------------------------------------------------------
\* The types of the shared table, of the semaphores and of the processes' calls.
ShmTypeOK ==
    /\ semaphore \in [Pids -> Pids \cup {None}]
    /\ camlock \in Pids \cup {None}
    /\ mSemLock \in [Pids -> Pids \cup {None}]
    /\ attached \subseteq Pids
    /\ camDevStatus \in [Cameras -> Pids \cup {None}]
    /\ call \in [Pids -> [pc : Points, cam : Cameras \cup {None}]]
    /\ doubleUnlink \in BOOLEAN

ShmInit ==
    /\ semaphore = [p \in Pids |-> None]
    /\ camlock = None
    /\ mSemLock = [p \in Pids |-> None]
    /\ attached = {}
    /\ camDevStatus = [c \in Cameras |-> None]
    /\ call = [p \in Pids |-> [pc |-> "out", cam |-> None]]
    /\ doubleUnlink = FALSE

=============================================================================
