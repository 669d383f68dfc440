---------------------------- MODULE Configuration -----------------------------
(***************************************************************************)
(* How the pipeline is configured: main sets Properties (media_base.h),    *)
(* PushWork::Init (push_work.cpp) reads them, fills in its defaults and    *)
(* hands each component Properties of its own, and the components compute  *)
(* buffer sizes and frame durations from what they are given.  The sizes   *)
(* and durations of different components must fit each other; the code     *)
(* compares only some of them.                                             *)
(*                                                                         *)
(* Values are integers, which to_string and atoi give back; paths, the url *)
(* and what only FFmpeg reads (bit rate, gop) are left out.                *)
(***************************************************************************)
EXTENDS Integers, Sequences, FiniteSets

CONSTANTS
  Choices,   (* the pairs <<key, value>> main may set before its own ones   *)
  MaxSets,   (* bound: how many of them it sets                             *)
  ParamSets  (* the pairs <<sps, pps>> that an opened H264 codec may have   *)

ASSUME ConfigurationAssumption ==
  /\ \A choice \in Choices : choice[1] \in STRING /\ choice[2] \in Int
  /\ \A set \in ParamSets : set[1] \in Seq(0 .. 255) /\ set[2] \in Seq(0 .. 255)

VARIABLES
  stage,     (* the next step of main and of PushWork::Init, "running" or   *)
             (* "failed"                                                    *)
  given,     (* the Properties of main                                      *)
  part       (* what each component built so far keeps of its Properties    *)

config == <<stage, given, part>>

-----------------------------------------------------------------------------
(* Properties is a map: insert leaves the value of a key that is there.    *)
(* A record, a function of its field names, is the Properties made by      *)
(* setting its fields.                                                     *)

SetProperty(p, key, val) ==
  [k \in DOMAIN p \cup {key} |-> IF k \in DOMAIN p THEN p[k] ELSE val]

GetProperty(p, key, default) ==
  IF key \in DOMAIN p THEN p[key] ELSE default

(* The members of PushWork read from the Properties of main, with its      *)
(* defaults, one of which is another member.                               *)
Members ==
  LET mic_sample_rate == GetProperty(given, "mic_sample_rate", 48000)
      mic_channels    == GetProperty(given, "mic_channels", 2)
  IN  [sample_rate |-> GetProperty(given, "audio_sample_rate", mic_sample_rate),
       channels    |-> GetProperty(given, "audio_channels", mic_channels),
       width       |-> GetProperty(given, "video_width", 720),
       height      |-> GetProperty(given, "video_height", 480),
       fps         |-> GetProperty(given, "video_fps", 25)]

-----------------------------------------------------------------------------
(* FFmpeg, as the code uses it. *)

FrameSize == 1024               (* samples of a channel in a frame of AAC   *)
BytesPerSample == [s16 |-> 2, fltp |-> 4]

Rates == <<96000, 88200, 64000, 48000, 44100, 32000, 24000, 22050, 16000,
           12000, 11025, 8000, 7350>>

(* One channel to the eight of 7.1. *)
AacOpens(rate, channels) ==
  /\ \E i \in DOMAIN Rates : Rates[i] = rate
  /\ channels \in 1 .. 8

(* The frame rate becomes the time base. *)
H264Opens(w, h, fps) == w > 0 /\ h > 0 /\ fps > 0

(* av_image_fill_arrays for YUV420P: the planes of chroma are rounded up. *)
ImageSize(w, h) == w * h + 2 * ((w + 1) \div 2) * ((h + 1) \div 2)

-----------------------------------------------------------------------------
(* The sps and the pps in the extradata of the codec. *)

StartCode == <<0, 0, 0, 1>>

Extradata(sps, pps) == StartCode \o sps \o StartCode \o pps

Split(extradata) ==
  LET data  == SubSeq(extradata, 5, Len(extradata))
      found == {i \in 1 .. Len(data) - 3 : SubSeq(data, i, i + 3) = StartCode}
      first == CHOOSE i \in found : \A j \in found : i <= j
  IN  <<SubSeq(data, 1, first - 1), SubSeq(data, first + 4, Len(data))>>

-----------------------------------------------------------------------------
Parts == {"aac", "h264", "frame", "pusher", "pcm", "yuv"}

Init ==
  /\ stage = "main"
  /\ given = <<>>
  /\ part = [name \in Parts |-> <<>>]

(* main as it may be edited: other values, set before or instead of those  *)
(* that main.cpp has.                                                      *)
Choose ==
  /\ stage = "main"
  /\ Cardinality(DOMAIN given) < MaxSets
  /\ \E choice \in Choices : given' = SetProperty(given, choice[1], choice[2])
  /\ UNCHANGED <<stage, part>>

SetOwn ==
  /\ stage = "main"
  /\ given' = SetProperty(SetProperty(given, "audio_sample_rate", 48000),
                          "audio_channels", 2)
  /\ stage' = "audio_encoder"
  /\ UNCHANGED part

Fail == stage' = "failed" /\ UNCHANGED <<given, part>>

Build(name, made, next) ==
  /\ part' = [part EXCEPT ![name] = made]
  /\ stage' = next
  /\ UNCHANGED given

(* Properties handed over under the names the component reads. *)
InitAudioEncoder ==
  /\ stage = "audio_encoder"
  /\ LET p == [sample_rate |-> Members.sample_rate,
               channels    |-> Members.channels]
         sample_rate == GetProperty(p, "sample_rate", 48000)
         channels    == GetProperty(p, "channels", 2)
     IN  IF AacOpens(sample_rate, channels)
         THEN Build("aac", [sample_rate |-> sample_rate, channels |-> channels,
                            frame_size |-> FrameSize], "video_encoder")
         ELSE Fail

(* Defect for the mutation runs: any size is taken. *)
SizeTakenAny(n) == n # 0

SizeTaken(n) == n # 0 /\ n % 2 = 0

InitVideoEncoder ==
  /\ stage = "video_encoder"
  /\ LET p == [width |-> Members.width, height |-> Members.height,
               fps |-> Members.fps]
         width  == GetProperty(p, "width", 0)
         height == GetProperty(p, "height", 0)
         fps    == GetProperty(p, "fps", 25)
     IN  IF SizeTaken(width) /\ SizeTaken(height) /\ H264Opens(width, height, fps)
         THEN \E s \in ParamSets :
                Build("h264", [width |-> width, height |-> height, fps |-> fps,
                               extradata |-> Extradata(s[1], s[2]),
                               params |-> Split(Extradata(s[1], s[2]))],
                      "audio_frame")
         ELSE Fail

(* av_samples_get_buffer_size against GetFrameBytes; audio_frame_ has the  *)
(* samples of one frame of the codec.                                      *)
FrameBytes(aac) == BytesPerSample.fltp * aac.channels * aac.frame_size

InitAudioFrame ==
  /\ stage = "audio_frame"
  /\ LET size == part.aac.channels * part.aac.frame_size * BytesPerSample.fltp
     IN  IF size = FrameBytes(part.aac)
         THEN Build("frame", [size |-> size, nb_samples |-> part.aac.frame_size],
                    "pusher")
         ELSE Fail

(* Defect for the mutation runs: the operations in an order that truncates *)
(* to 0.                                                                   *)
AudioDurationTruncated(aac) == (aac.frame_size \div aac.sample_rate) * 1000

AudioDuration(aac) == (aac.frame_size * 1000) \div aac.sample_rate
VideoDuration(h264) == 1000 \div h264.fps

InitPusher ==
  /\ stage = "pusher"
  /\ LET p == [audio_frame_duration |-> AudioDuration(part.aac),
               video_frame_duration |-> VideoDuration(part.h264)]
     IN  Build("pusher", [audio |-> GetProperty(p, "audio_frame_duration", 0),
                          video |-> GetProperty(p, "video_frame_duration", 0)],
               "audio_capturer")

InitAudioCapturer ==
  /\ stage = "audio_capturer"
  /\ LET p == [sample_rate |-> Members.sample_rate,
               channels |-> Members.channels,
               nb_samples |-> 1024, byte_per_sample |-> 2]
         channels   == GetProperty(p, "channels", 2)
         nb_samples == GetProperty(p, "nb_samples", 1024)
     IN  Build("pcm", [sample_rate |-> GetProperty(p, "sample_rate", 48000),
                       nb_samples |-> nb_samples,
                       buf_size |-> GetProperty(p, "byte_per_sample", 2)
                                      * channels * nb_samples],
               "video_capturer")

(* The frame rate is not among the Properties handed over.  The buffer is  *)
(* allocated when the thread enters loop().                                *)
InitVideoCapturer ==
  /\ stage = "video_capturer"
  /\ LET p == [width |-> Members.width, height |-> Members.height]
         w == GetProperty(p, "width", 1920)
         h == GetProperty(p, "height", 1080)
     IN  Build("yuv", [fps |-> GetProperty(p, "fps", 25),
                       buf_size |-> ((w + (w % 2)) * (h + (h % 2)) * 3) \div 2],
               "running")

Configure ==
  \/ Choose \/ SetOwn
  \/ InitAudioEncoder \/ InitVideoEncoder \/ InitAudioFrame \/ InitPusher
  \/ InitAudioCapturer \/ InitVideoCapturer

Spec == Init /\ [][Configure]_config

-----------------------------------------------------------------------------
(* The sample conversion reads two channels of 16-bit samples and writes   *)
(* two planes of floats, whatever the number of channels.                  *)
Converted(frame) == [read    |-> 2 * BytesPerSample.s16 * frame.nb_samples,
                     written |-> 2 * BytesPerSample.fltp * frame.nb_samples]

(* What goes from one component into a buffer of another has its size:     *)
(* - the image the video capturer reads is the one H264Encoder::Encode     *)
(*   compares it with, frame by frame (an unequal size loses every frame), *)
(* - with two channels, for which s16le_convert_to_fltp is written, the    *)
(*   conversion reads what the audio capturer has read and fills fltp_buf_,*)
(*   and only with two.                                                    *)
BuffersFit ==
  stage = "running" =>
    /\ part.yuv.buf_size = ImageSize(part.h264.width, part.h264.height)
    /\ LET c == Converted(part.frame)
       IN  Members.channels = 2 <=>
             c.read = part.pcm.buf_size /\ c.written = part.frame.size

(* The frame durations by which the pusher's queue counts its backlog are  *)
(* those at which the capturers deliver frames, cut to milliseconds: of    *)
(* audio at every sample rate, of video if the frame rate is the capturer's*)
(* default, since PushWork does not hand it on.                            *)
DurationsAgree ==
  stage = "running" =>
    /\ LET period == part.pcm.nb_samples * 1000
           rate   == part.pcm.sample_rate
       IN  /\ part.pusher.audio * rate <= period
           /\ period < (part.pusher.audio + 1) * rate
    /\ GetProperty(given, "video_fps", 25) = 25 =>
         part.pusher.video * part.yuv.fps = 1000
=============================================================================
