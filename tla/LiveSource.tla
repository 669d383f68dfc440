----------------------------- MODULE LiveSource ------------------------------
(***************************************************************************)
(* The two file capturers as live sources, together with the publish time: *)
(* readPcmFile and readYuvFile let a frame out when it is due by the clock *)
(* since the loop was entered, the callback gives it its pts (PublishTime).*)
(* Each of the two reads the clock for itself, and sleeps, encodes and     *)
(* pushes in between, so that a frame comes late by any amount; after a    *)
(* stall frames come in a burst until the capturer has caught up.          *)
(***************************************************************************)
EXTENDS PublishTime

CONSTANTS
  SourceDuration   (* frame_duration_ of the capturers, in units            *)

ASSUME LiveSourceAssumption == SourceDuration \in [Media -> Nat]

VARIABLES
  begun,           (* pcm_start_time_, yuv_start_time_; -1 before loop()    *)
  total,           (* pcm_total_duration_, yuv_total_duration_, in units    *)
  held,            (* a frame is read and has no pts yet                    *)
  first,           (* history: no frame has got a pts                       *)
  prompt,          (* history: no frame got its pts a whole frame late ...  *)
  timely,          (* ... nor half a frame late                             *)
  corrected        (* history: frames after the first, or since one was     *)
                   (* abandoned, that were not given the pts of their       *)
                   (* predecessor plus one frame, up to 2                   *)

sourceVars == <<begun, total, held, first, prompt, timely, corrected>>

LiveInit ==
  /\ Init
  /\ begun = [m \in Media |-> 0 - 1]
  /\ total = [m \in Media |-> 0]
  /\ held = [m \in Media |-> FALSE]
  /\ first = [m \in Media |-> TRUE]
  /\ prompt = [m \in Media |-> TRUE]
  /\ timely = [m \in Media |-> TRUE]
  /\ corrected = [m \in Media |-> 0]

(* loop() is entered. *)
Begin(m) ==
  /\ begun[m] = 0 - 1
  /\ begun' = [begun EXCEPT ![m] = now]
  /\ UNCHANGED <<vars, total, held, first, prompt, timely,
                 corrected>>

Due(m) == begun[m] # 0 - 1 /\ Whole(total[m]) <= now - begun[m]

ReadFrame(m) ==
  /\ ~held[m]
  /\ Due(m)
  /\ total' = [total EXCEPT ![m] = @ + SourceDuration[m]]
  /\ held' = [held EXCEPT ![m] = TRUE]
  /\ UNCHANGED <<vars, begun, first, prompt, timely, corrected>>

(* How late the frame in hand is, against the time at which it was due. *)
Lateness(m) == now - begun[m] - Whole(total[m] - SourceDuration[m])

InFrame(m) == Lateness(m) \in 0 .. Whole(FrameDuration[m]) - 1

(* The durations are truncated to milliseconds, which takes one.           *)
InHalf(m) == Lateness(m) \in 0 .. Threshold(m) - 2

(* The callback, as far as the pts. *)
Stamp(m) ==
  /\ held[m]
  /\ GetPts(m)
  /\ held' = [held EXCEPT ![m] = FALSE]
  /\ first' = [first EXCEPT ![m] = FALSE]
  /\ prompt' = [prompt EXCEPT ![m] = @ /\ InFrame(m)]
  /\ timely' = [timely EXCEPT ![m] = @ /\ InHalf(m)]
  /\ corrected' = [corrected EXCEPT ![m] =
                     IF first[m] \/ OnTime(m) \/ @ = 2 THEN @ ELSE @ + 1]
  /\ UNCHANGED <<begun, total>>

(* PcmCallback has no use for the frame: the libraries refuse it, before   *)
(* it gets a pts.  YuvCallback asks for the pts first.                     *)
Abandon(m) ==
  /\ m = "audio" /\ held[m]
  /\ held' = [held EXCEPT ![m] = FALSE]
  /\ corrected' = [corrected EXCEPT ![m] = 0]
  /\ UNCHANGED <<vars, begun, total, first, prompt, timely>>

Clock == (Pass \/ SetBack) /\ UNCHANGED sourceVars

LiveNext ==
  \/ Clock
  \/ \E m \in Media : Begin(m) \/ ReadFrame(m) \/ Stamp(m) \/ Abandon(m)

LiveSpec == LiveInit /\ [][LiveNext]_<<vars, sourceVars>>

-----------------------------------------------------------------------------
(* Properties. *)

(* As long as every frame gets its pts less than a frame after the time at *)
(* which it was due, the pts never goes back: frames that come close       *)
(* together are stamped in their order, and a clock set back stops the     *)
(* source rather than the pts.  As long as none is half a frame late, no   *)
(* two are the same either, which is what the muxer asks of                *)
(* av_write_frame.  (A stall of more than a frame breaks it: the frame     *)
(* after the stall is stamped with the clock, and the burst that follows   *)
(* with earlier times.)                                                    *)
PtsIncreases ==
  [][\A m \in Media :
       Stamp(m) /\ ~first[m]
       => /\ prompt'[m] => Whole(pre_pts[m]) <= Whole(pre_pts'[m])
          /\ timely'[m] => Whole(pre_pts[m]) < Whole(pre_pts'[m])
     ]_<<vars, sourceVars>>

(* If no frame is half a frame late, at most one is ever restamped from    *)
(* the clock, and one more for each that is abandoned: the rectification   *)
(* gives all others the distance of exactly one frame, whatever the jitter *)
(* of the threads.  The source and the publish time must agree on the      *)
(* duration of a frame: those of audio are 21.33 and 21.3333 ms, so that   *)
(* there is a second one after some hours.                                 *)
CorrectedOnce ==
  \A m \in Media :
     timely[m] /\ SourceDuration[m] = FrameDuration[m] => corrected[m] <= 1
==============================================================================
