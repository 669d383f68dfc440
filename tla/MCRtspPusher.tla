---------------------------- MODULE MCRtspPusher -----------------------------
(***************************************************************************)
(* Instances of RtspPusher for TLC.  A video frame lasts 4 units and an    *)
(* audio frame 2; frames come at the nominal distance, or a video frame is *)
(* late by less than another.                                              *)
(***************************************************************************)
EXTENDS RtspPusher

BothFrames == [m \in {"audio", "video"} |-> IF m = "audio" THEN 2 ELSE 4]
EvenSteps  == [m \in {"audio", "video"} |-> {BothFrames[m]}]
ShortPts   == {0, 2, 4, 6, 8, 12, 16}

LateSteps  == [m \in {"audio", "video"} |-> IF m = "audio" THEN {2} ELSE {4, 7}]
LatePts    == {0, 2, 4, 8, 11, 12, 15, 18}

Pushes(a, v) == [m \in {"audio", "video"} |-> IF m = "audio" THEN a ELSE v]
OneAndThree == Pushes(1, 3)
OneAndTwo   == Pushes(1, 2)
==============================================================================
