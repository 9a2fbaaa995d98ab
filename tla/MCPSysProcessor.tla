--------------------------- MODULE MCPSysProcessor ---------------------------
(***************************************************************************)
(* Instances of PSysProcessor for TLC.                                      *)
(***************************************************************************)
EXTENDS PSysProcessor

TwoModes     == [seq \in Sequences0 |-> IF seq = 0 THEN "video" ELSE "still"]
RawKinds     == {{1}, {2}, {1, 2}}
NoneOrSecond == {0, 2}
ThirdRepeats == <<{1, 2}, {1, 2}, {0, 1}>>
\* frame 1 follows a switch of the tuning mode; no frame is skipped when raw frames
\* are requested
SkipOne      == [p \in RawPorts |-> IF p = 0 THEN {1} ELSE {}]

=============================================================================
