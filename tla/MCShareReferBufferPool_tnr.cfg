\* Three raw buffers and six frames: the video ring goes round twice, and kept frames
\* are run again by the still pipe while new ones come.  The run ends with the last
\* frame.
CONSTANTS
    MaxRawDataNum = 3
    MaxRequestsInflight = 2
    CONSUMER_BUFFER_NUM = 2
    WaitFrames = 3
    Kinds <- NewKinds
    Reprocess <- StillOnly
    LastFrame = 5
SPECIFICATION Spec
INVARIANT Sorted
INVARIANT RightReference
CHECK_DEADLOCK FALSE
