---------------------------- MODULE MCPacketQueue ----------------------------
(***************************************************************************)
(* Instances of PacketQueue for TLC.  A video frame lasts 4 units and an   *)
(* audio frame 2, which keeps the proportion of 40 ms to 21 ms.            *)
(***************************************************************************)
EXTENDS PacketQueue

BothFrames == [m \in Media |-> IF m = "audio" THEN 2 ELSE 4]

(* get_video_pts may step back by less than half a frame after a burst, go *)
(* on by one frame, or jump over a gap that Trusted rejects.               *)
JitterSteps == [m \in Media |-> IF m = "audio" THEN {2} ELSE {-1, 4, 9}]
EvenSteps   == [m \in Media |-> {BothFrames[m]}]

OneAndThree == [m \in Media |-> IF m = "audio" THEN 1 ELSE 3]

ShortPts    == -3 .. 27
==============================================================================
