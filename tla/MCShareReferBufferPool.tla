----------------------- MODULE MCShareReferBufferPool -----------------------
(* Instances of ShareReferBufferPool: which pipes the tasks run.           *)
EXTENDS ShareReferBufferPool

\* A request of a new frame has no output, one of the video pipe, or both
NewKinds == {{}, {"producer"}, {"producer", "consumer"}}
\* A kept frame is run again for a still picture
StillOnly == {{"consumer"}}
=============================================================================
