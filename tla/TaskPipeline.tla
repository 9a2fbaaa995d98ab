---------------------------- MODULE TaskPipeline ----------------------------
(***************************************************************************)
(* What PSysDAG promises to PSysProcessor (PSysDagCallback): tasks are      *)
(* added with a set of output ports each; every port hands its buffers back *)
(* in the order of the tasks, once each; a task is handed back once, when   *)
(* all its outputs are counted.  Buffers are counted and handed back in two *)
(* steps, so a task may come back before another port's buffer of it.       *)
(* stop() abandons the tasks that were not handed back.                     *)
(***************************************************************************)
EXTENDS Naturals, Sequences

CONSTANT Ports

VARIABLES added,     \* the ports of the tasks, in the order they were added
          counted,   \* for each task: the ports whose buffer is counted
          called,    \* for each task: the ports whose buffer was handed back
          finished,  \* the tasks that were handed back
          abandoned  \* the tasks that stop() dropped

vars == <<added, counted, called, finished, abandoned>>

Init == /\ added = <<>> /\ counted = <<>> /\ called = <<>>
        /\ finished = {} /\ abandoned = {}

AddTask == \E ports \in (SUBSET Ports) \ {{}} :
    /\ added' = Append(added, ports)
    /\ counted' = Append(counted, {}) /\ called' = Append(called, {})
    /\ UNCHANGED <<finished, abandoned>>

\* every earlier task that stop() did not drop is ahead of task n on the port
FirstOn(n, p, gone) ==
    \A m \in 1..(n - 1) : p \in added[m] /\ m \notin abandoned => p \in gone[m]

CountBuffer(n, p) ==
    /\ n \notin abandoned /\ p \in added[n] \ counted[n] /\ FirstOn(n, p, counted)
    /\ counted' = [counted EXCEPT ![n] = @ \cup {p}]
    /\ UNCHANGED <<added, called, finished, abandoned>>

BufferDone(n, p) ==
    /\ n \notin abandoned /\ p \in counted[n] \ called[n] /\ FirstOn(n, p, called)
    /\ called' = [called EXCEPT ![n] = @ \cup {p}]
    /\ UNCHANGED <<added, counted, finished, abandoned>>

FrameDone(n) ==
    /\ n \notin finished \cup abandoned
    /\ counted[n] = added[n] /\ called[n] # {}
    /\ finished' = finished \cup {n}
    /\ UNCHANGED <<added, counted, called, abandoned>>

Stop ==
    /\ \A n \in DOMAIN added : n \in finished => called[n] = added[n]
    /\ abandoned' = DOMAIN added \ finished
    /\ UNCHANGED <<added, counted, called, finished>>

Next == \/ AddTask \/ Stop
        \/ \E n \in DOMAIN added : FrameDone(n) \/ \E p \in Ports :
                                      CountBuffer(n, p) \/ BufferDone(n, p)

Spec == Init /\ [][Next]_vars

=============================================================================
