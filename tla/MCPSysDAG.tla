----------------------------- MODULE MCPSysDAG -----------------------------
(***************************************************************************)
(* Instances of PSysDAG: a video stream of two executors, which PolicyManager *)
(* aligns as in config/linux/ipu6/psys_policy_profiles.xml, and a still      *)
(* stream of one.                                                          *)
(***************************************************************************)
EXTENDS PSysDAG

VideoAndStill == 1..2
Chains        == <<2, 1>>
StreamPorts   == <<{1}, {2}>>
LbAndBb       == {<<1, 1>>, <<1, 2>>}
LbBeforeBb    == [e \in LbAndBb |-> e[2] - 1]
Outputs       == <<{{1, 2}}, {{1}, {2}}, {{1}}>>
HeldOrNext    == {0, 1}
FromTheFirst  == -1
NotForTheSecond == [new |-> {1}, again |-> {}]

=============================================================================
