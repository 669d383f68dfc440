----------------------------- MODULE PublishTime -----------------------------
(***************************************************************************)
(* tools/avpublish_time.h, AVPublishTime: the pts that PcmCallback and     *)
(* YuvCallback give to their frames.  Under PTS_RECTIFY, which is the      *)
(* strategy of both media (nobody calls set_*_pts_strategy), a frame that  *)
(* comes about when it is expected gets the pts of its predecessor plus    *)
(* one frame; any other frame gets the time on the clock.                  *)
(*                                                                         *)
(* The code keeps the last pts as a double of milliseconds.  Here it is an *)
(* integer of units, Scale units to the millisecond: an audio frame of     *)
(* 21 1/3 ms is 64 units at Scale = 3.  GetInstance is first called in     *)
(* PushWork::Init, before there is a second thread, and audio and video    *)
(* have no variable in common but the start time.                          *)
(***************************************************************************)
EXTENDS Integers

CONSTANTS
  Media,           (* audio and video                                       *)
  Scale,           (* units to the millisecond                              *)
  FrameDuration,   (* audio_frame_duration_, video_frame_duration_: units   *)
  Wrap,            (* 0xffffffff                                            *)
  Gaps,            (* bound: what may pass between two events, in ms        *)
  Backs,           (* bound: by how much the clock may be set back, in ms   *)
  MaxTime          (* bound: the last instant of an instance, in ms         *)

ASSUME PublishTimeAssumption ==
  /\ Scale \in Nat \ {0}
  /\ FrameDuration \in [Media -> Nat]
  /\ Wrap \in Nat \ {0}
  /\ Gaps \subseteq Nat
  /\ Backs \subseteq Nat
  /\ MaxTime \in Nat

VARIABLES
  now,             (* getCurrentTimeMsec() - start_time_                    *)
  pre_pts,         (* audio_pre_pts_, video_pre_pts_, in units              *)
  pts,             (* what the last call returned                           *)
  last             (* history: the time of the last call                    *)

vars == <<now, pre_pts, pts, last>>

Init ==
  /\ now = 0
  /\ pre_pts = [m \in Media |-> 0]
  /\ pts = [m \in Media |-> 0]
  /\ last = [m \in Media |-> 0]

(* The conversions (long long) and (int64_t) of a number of milliseconds. *)
Whole(units) == units \div Scale

(* (uint32_t)(frame_duration / 2) *)
Threshold(m) == Whole(FrameDuration[m] \div 2)

Expected(m) == pre_pts[m] + FrameDuration[m]

Distance(a, b) == IF a < b THEN b - a ELSE a - b

(* Defect for the mutation runs: a frame twice as far off is still taken   *)
(* for regular.                                                            *)
OnTimeWithinFrame(m) == Distance(now, Whole(Expected(m))) < 2 * Threshold(m) + 1

OnTime(m) == Distance(now, Whole(Expected(m))) < Threshold(m)

NextPre(m) == IF OnTime(m) THEN Expected(m) ELSE now * Scale

(* Defect for the mutation runs: a frame that is off is stamped with the   *)
(* clock, and forgotten.                                                   *)
GetPtsKeepingPre(m) ==
  /\ pre_pts' = [pre_pts EXCEPT ![m] = IF OnTime(m) THEN Expected(m) ELSE @]
  /\ pts' = [pts EXCEPT ![m] = Whole(NextPre(m)) % Wrap]
  /\ last' = [last EXCEPT ![m] = now]
  /\ UNCHANGED now

(* get_audio_pts, get_video_pts. *)
GetPts(m) ==
  /\ pre_pts' = [pre_pts EXCEPT ![m] = NextPre(m)]
  /\ pts' = [pts EXCEPT ![m] = Whole(NextPre(m)) % Wrap]
  /\ last' = [last EXCEPT ![m] = now]
  /\ UNCHANGED now

Pass == /\ \E gap \in Gaps : now' = now + gap
        /\ now' <= MaxTime
        /\ UNCHANGED <<pre_pts, pts, last>>

(* gettimeofday reads the time of day, which may be corrected meanwhile.   *)
(* (It is not set back beyond the start of the pipeline.)                  *)
SetBack == /\ \E back \in Backs : now' = now - back
           /\ now' >= 0
           /\ UNCHANGED <<pre_pts, pts, last>>

Next == Pass \/ SetBack \/ \E m \in Media : GetPts(m)

Spec == Init /\ [][Next]_vars

-----------------------------------------------------------------------------
(* Properties. *)

(* Every variable has its type, and the pts is the whole part of pre_pts.  *)
TypeOK ==
  /\ now \in Nat
  /\ pre_pts \in [Media -> Nat]
  /\ pts \in [Media -> Nat]
  /\ \A m \in Media : pts[m] = Whole(pre_pts[m]) % Wrap
  /\ last \in [Media -> Nat]

(* Adding up frame durations never lets the pts drift: at each call it is  *)
(* within half a frame of the clock, so that audio and video, which are    *)
(* stamped apart, stay together however long the session is.               *)
NearClock ==
  \A m \in Media :
     LET whole == Whole(pre_pts[m])
     IN  whole = last[m] \/ Distance(whole, last[m]) < Threshold(m)

(* A pts may be smaller than the one before, when a frame comes early      *)
(* after one that came late; until pts wraps around (after 49 days) it     *)
(* never goes back by half a frame, unless the clock has gone back between *)
(* the two calls.                                                          *)
BackLessThanHalf ==
  [][\A m \in Media :
       Whole(pre_pts[m])' < Wrap /\ pts[m]' < pts[m] /\ last[m] <= now
         => pts[m] - pts[m]' < Threshold(m)]_vars

IInv == TypeOK /\ NearClock
==============================================================================
