------------------------------- MODULE Encoding -------------------------------
(***************************************************************************)
(* From a captured frame to the packet pushed: PcmCallback and YuvCallback *)
(* of push_work.cpp with AACEncoder::Encode and H264Encoder::Encode, on a  *)
(* pipeline set up by Configuration, and the dump files they write.        *)
(*                                                                         *)
(* A callback runs on the thread of its capturer.  The two share nothing   *)
(* but the pusher's queue (PacketQueue, RtspPusher), so that each is one   *)
(* step here.  A frame is its number; a packet has the frame it was made   *)
(* of and its size.                                                        *)
(***************************************************************************)
EXTENDS Configuration

CONSTANTS
  Delay,      (* per media: frames the codec holds back                     *)
  PacketSizes,
  MaxFrames,  (* bound: frames per media                                    *)
  MaxErrors   (* bound: calls of FFmpeg or fopen that fail, together        *)

Media == {"audio", "video"}

ASSUME EncodingAssumption ==
  /\ Delay \in [Media -> Nat]
  /\ MaxFrames \in Nat /\ MaxErrors \in Nat

VARIABLES
  frames,     (* per media: frames delivered to the callback                *)
  codec,      (* per media: [inside, out], the frames held back and the     *)
              (* packet that is ready, in a sequence of at most one         *)
  file,       (* per media: [open, data], the dump file                     *)
  stream,     (* per media: packets pushed                                  *)
  lost,       (* history, per media: frames no packet will be pushed for    *)
  errors      (* calls that have failed                                     *)

encoding == <<frames, codec, file, stream, lost, errors>>

EncodingInit ==
  /\ Init
  /\ frames = [m \in Media |-> 0]
  /\ codec = [m \in Media |-> [inside |-> <<>>, out |-> <<>>]]
  /\ file = [m \in Media |-> [open |-> FALSE, data |-> <<>>]]
  /\ stream = [m \in Media |-> <<>>]
  /\ lost = [m \in Media |-> {}]
  /\ errors = 0

-----------------------------------------------------------------------------
(* A codec of FFmpeg.  avcodec_send_frame refuses a frame (EAGAIN) while a *)
(* packet is ready; otherwise it takes it and, when it holds more than its *)
(* delay, makes a packet of the oldest.                                    *)

Refuses(c) == c.out # <<>>

Sent(c, m, frame, size) ==
  LET inside == Append(c.inside, frame)
  IN  IF Len(inside) <= Delay[m] THEN [c EXCEPT !.inside = inside]
      ELSE [inside |-> Tail(inside),
            out    |-> <<[frame |-> Head(inside), size |-> size]>>]

Received(c) == [c EXCEPT !.out = <<>>]

-----------------------------------------------------------------------------
(* What a call of Encode may come to: the codec afterwards, the packet, if *)
(* any, the frames that have gone, and how many calls failed.              *)

Outcome(c, packet, gone, failed) ==
  [codec |-> c, packet |-> packet, gone |-> gone, failed |-> failed]

(* Defect for the mutation runs: what is ready is received before the      *)
(* frame is sent.                                                          *)
ExchangeReceivingFirst(m, frame, size) ==
  Outcome(Sent(Received(codec[m]), m, frame, size), codec[m].out, {}, 0)

Exchange(m, frame, size) ==
  LET sent == Sent(codec[m], m, frame, size)
  IN  IF Refuses(codec[m]) THEN Outcome(codec[m], <<>>, {frame}, 0)
      ELSE Outcome(Received(sent), sent.out, {}, 0)

NotSent(m, frame) == Outcome(codec[m], <<>>, {frame}, 1)

NotReceived(m, frame, size) ==
  LET sent == Sent(codec[m], m, frame, size)
  IN  Outcome(Received(sent), <<>>,
              {sent.out[i].frame : i \in DOMAIN sent.out}, 1)

(* H264Encoder::Encode first compares the size of the image. *)
SizeAccepted(m) ==
  m = "video" =>
    part.yuv.buf_size = ImageSize(part.h264.width, part.h264.height)

Encode(m, frame) ==
  IF ~SizeAccepted(m) THEN {Outcome(codec[m], <<>>, {frame}, 0)}
  ELSE {Exchange(m, frame, s) : s \in PacketSizes}
         \cup IF errors = MaxErrors THEN {}
              ELSE {NotSent(m, frame)}
                     \cup {NotReceived(m, frame, s) : s \in PacketSizes}

-----------------------------------------------------------------------------
(* GetAdtsHeader: bytes 2 to 5 of the header, with the profile 1 (LC).     *)

Byte(n) == n % 256

FreqIdx(rate) == (CHOOSE i \in DOMAIN Rates : Rates[i] = rate) - 1

HasFreqIdx(rate) == \E i \in DOMAIN Rates : Rates[i] = rate

(* Defect for the mutation runs: the 7 bytes of the header not counted.    *)
FrameLengthOfPayload(aac_length) == aac_length

FrameLength(aac_length) == aac_length + 7

AdtsHeader(aac, aac_length) ==
  LET ch_cfg == aac.channels
      frame_length == FrameLength(aac_length)
  IN  <<Byte(64 + FreqIdx(aac.sample_rate) * 4 + ch_cfg \div 4),
        Byte((ch_cfg % 4) * 64 + frame_length \div 2048),
        (frame_length % 2048) \div 8,
        (frame_length % 8) * 32 + 31>>

-----------------------------------------------------------------------------
(* The callbacks. *)

Deliver(m) ==
  /\ stage = "running" /\ frames[m] < MaxFrames
  /\ frames' = [frames EXCEPT ![m] = @ + 1]
  /\ UNCHANGED config

Lose(m, gone) == lost' = [lost EXCEPT ![m] = @ \cup gone]

(* av_frame_make_writable or av_samples_fill_arrays fails. *)
Abandon(m) ==
  /\ errors < MaxErrors
  /\ Lose(m, {frames'[m]})
  /\ errors' = errors + 1
  /\ UNCHANGED <<codec, file, stream>>

(* No packet: the callback only logs. *)
NoPacket(m, o) ==
  /\ o.packet = <<>>
  /\ Lose(m, o.gone)
  /\ errors' = errors + o.failed
  /\ UNCHANGED <<file, stream>>

(* The dump file cannot be opened: the callback returns with the packet.   *)
(* It will try again with the next one.                                    *)
NoFile(m, o) ==
  /\ o.packet # <<>> /\ ~file[m].open /\ errors < MaxErrors
  /\ Lose(m, {o.packet[1].frame})
  /\ errors' = errors + 1
  /\ UNCHANGED <<file, stream>>

(* What opening the file writes: start codes, sps and pps. *)
Preamble(m) ==
  IF file[m].open \/ m = "audio" THEN <<>>
  ELSE <<Extradata(part.h264.params[1], part.h264.params[2])>>

(* Defect for the mutation runs: the handle is not kept. *)
WriteForgettingHandle(m, entries) ==
  file' = [file EXCEPT ![m].data = @ \o Preamble(m) \o entries]

Write(m, entries) ==
  file' = [file EXCEPT ![m] = [open |-> TRUE,
                               data |-> @.data \o Preamble(m) \o entries]]

Push(m, packet) ==
  /\ stream' = [stream EXCEPT ![m] = Append(@, packet)]
  /\ UNCHANGED <<lost, errors>>

(* GetAdtsHeader knows no index for the sample rate. *)
NoHeader(o) ==
  /\ o.packet # <<>> /\ ~HasFreqIdx(part.aac.sample_rate)
  /\ Write("audio", <<>>)
  /\ Lose("audio", {o.packet[1].frame})
  /\ UNCHANGED <<stream, errors>>

DumpAndPush(m, o) ==
  LET packet == o.packet[1]
  IN  /\ o.packet # <<>>
      /\ m = "audio" => HasFreqIdx(part.aac.sample_rate)
      /\ Write(m, IF m = "audio"
                  THEN <<AdtsHeader(part.aac, packet.size), packet>>
                  ELSE <<packet>>)
      /\ Push(m, packet)

PcmCallback ==
  /\ Deliver("audio")
  /\ \/ Abandon("audio")
     \/ \E o \in Encode("audio", frames'["audio"]) :
          /\ codec' = [codec EXCEPT !["audio"] = o.codec]
          /\ \/ NoPacket("audio", o) \/ NoFile("audio", o)
             \/ NoHeader(o) \/ DumpAndPush("audio", o)

YuvCallback ==
  /\ Deliver("video")
  /\ \E o \in Encode("video", frames'["video"]) :
       /\ codec' = [codec EXCEPT !["video"] = o.codec]
       /\ NoPacket("video", o) \/ NoFile("video", o) \/ DumpAndPush("video", o)

EncodingNext ==
  \/ Configure /\ UNCHANGED encoding
  \/ PcmCallback
  \/ YuvCallback

EncodingSpec == EncodingInit /\ [][EncodingNext]_<<config, encoding>>

-----------------------------------------------------------------------------
Packet == [frame : 1 .. MaxFrames, size : PacketSizes]

TypeOK ==
  /\ stage \in {"main", "audio_encoder", "video_encoder", "audio_frame",
                "pusher", "audio_capturer", "video_capturer", "running",
                "failed"}
  /\ DOMAIN part = Parts
  /\ frames \in [Media -> 0 .. MaxFrames]
  /\ \A m \in Media : /\ \A i \in DOMAIN stream[m] : stream[m][i] \in Packet
                      /\ lost[m] \subseteq 1 .. MaxFrames
                      /\ file[m].data # <<>> => file[m].open
  /\ errors \in 0 .. MaxErrors

FramesOf(packets) == [i \in DOMAIN packets |-> packets[i].frame]

(* One send and one receive a frame are enough, although the result of     *)
(* Encode is not looked at: between callbacks no packet is left in a codec,*)
(* which would refuse the next frame and every one after it; what has come *)
(* out went to the pusher in order, what has not is at most the delay of   *)
(* the codec, and a frame is missing only for a call that failed: never    *)
(* for its size or its sample rate.                                        *)
FramesAccounted ==
  /\ \A m \in Media :
       LET out  == FramesOf(stream[m])
           held == codec[m].inside
       IN  /\ codec[m].out = <<>>
           /\ Len(held) <= Delay[m]
           /\ \A i \in 1 .. Len(out \o held) - 1 :
                (out \o held)[i] < (out \o held)[i + 1]
           /\ lost[m] = (1 .. frames[m]) \ {(out \o held)[i] :
                                          i \in DOMAIN (out \o held)}
  /\ Cardinality(lost["audio"]) + Cardinality(lost["video"]) <= errors

(* How a reader takes an ADTS header apart. *)
ReadAdts(h) ==
  [rate     |-> Rates[1 + ((h[1] \div 4) % 16)],
   channels |-> (h[1] % 2) * 4 + h[2] \div 64,
   size     |-> (h[2] % 4) * 2048 + h[3] * 8 + h[4] \div 32 - 7]

(* A reader of a dump finds in it what went to the pusher, no more and no  *)
(* less: in dump.aac before each packet a header with its rate, channels   *)
(* and size, in dump.h264 the parameter sets of the codec, once and first. *)
(* (Of eight channels a header says nothing: it has three bits for them.)  *)
DumpReadsBack ==
  /\ LET d == file["audio"].data
         n == Len(stream["audio"])
     IN  /\ Len(d) = 2 * n
         /\ \A i \in 1 .. n :
              /\ d[2 * i] = stream["audio"][i]
              /\ part.aac.channels < 8 =>
                   ReadAdts(d[2 * i - 1]) =
                     [rate |-> part.aac.sample_rate,
                      channels |-> part.aac.channels, size |-> d[2 * i].size]
  /\ file["video"].data =
       IF file["video"].open THEN <<part.h264.extradata>> \o stream["video"]
       ELSE <<>>
=============================================================================
