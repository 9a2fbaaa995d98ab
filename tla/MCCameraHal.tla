---------------------------- MODULE MCCameraHal ----------------------------
(***************************************************************************)
(* Instances of CameraHal: three processes and two cameras of one virtual   *)
(* channel group, opened as such or one by one.                            *)
(***************************************************************************)
EXTENDS CameraHal, TLC

OneGroup == [c \in Cameras |-> 0]
Alike    == {p @@ c : p \in Permutations(Pids), c \in Permutations(Cameras)}

=============================================================================
