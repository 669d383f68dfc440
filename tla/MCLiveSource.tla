---------------------------- MODULE MCLiveSource -----------------------------
(***************************************************************************)
(* An instance of LiveSource for TLC, with a frame of 8 2/3 ms, half a     *)
(* frame being 4 ms.                                                       *)
(***************************************************************************)
EXTENDS LiveSource

Short == [m \in Media |-> 26]
==============================================================================
