---------------------------- MODULE EncodingProofs ----------------------------
(***************************************************************************)
(* However main.cpp is edited: if PushWork::Init succeeds, the buffers of  *)
(* its components fit each other and their frame durations agree; and an   *)
(* ADTS header says what it was made from.                                 *)
(***************************************************************************)
EXTENDS Encoding, TLAPS

(* What is built before a stage is reached.                                *)
Has(name) ==
  stage \in CASE name = "yuv"    -> {"running"}
              [] name = "pcm"    -> {"running", "video_capturer"}
              [] name = "pusher" -> {"running", "video_capturer", "audio_capturer"}
              [] name = "frame"  -> {"running", "video_capturer", "audio_capturer",
                                     "pusher"}
              [] name = "h264"   -> {"running", "video_capturer", "audio_capturer",
                                     "pusher", "audio_frame"}
              [] name = "aac"    -> {"running", "video_capturer", "audio_capturer",
                                     "pusher", "audio_frame", "video_encoder"}

(* A component keeps what Members says, and nothing changes Members once   *)
(* the first component is built.                                           *)
Kept ==
  /\ Has("aac") =>
       /\ part["aac"].sample_rate = Members.sample_rate
       /\ part["aac"].channels = Members.channels
       /\ part["aac"].frame_size = FrameSize
       /\ AacOpens(Members.sample_rate, Members.channels)
  /\ Has("h264") =>
       /\ part["h264"].width = Members.width /\ part["h264"].height = Members.height
       /\ part["h264"].fps = Members.fps
       /\ SizeTaken(Members.width) /\ SizeTaken(Members.height)
       /\ H264Opens(Members.width, Members.height, Members.fps)
  /\ Has("frame") =>
       /\ part["frame"].nb_samples = FrameSize
       /\ part["frame"].size = Members.channels * FrameSize * BytesPerSample.fltp
  /\ Has("pusher") =>
       /\ part["pusher"].audio = (FrameSize * 1000) \div Members.sample_rate
       /\ part["pusher"].video = 1000 \div Members.fps
  /\ Has("pcm") =>
       /\ part["pcm"].sample_rate = Members.sample_rate
       /\ part["pcm"].nb_samples = 1024
       /\ part["pcm"].buf_size = 2 * Members.channels * 1024
  /\ Has("yuv") =>
       /\ part["yuv"].fps = 25
       /\ part["yuv"].buf_size =
            ((Members.width + (Members.width % 2))
               * (Members.height + (Members.height % 2)) * 3) \div 2

(* The Properties of main have integers for values.                        *)
Given == \A key \in DOMAIN given : given[key] \in Int

IInv == Given /\ part = [name \in Parts |-> part[name]] /\ Kept

-----------------------------------------------------------------------------
(* A property set is found again, the others are left as they are.         *)
LEMMA SetKeepsGiven ==
  ASSUME NEW p, \A key \in DOMAIN p : p[key] \in Int, NEW k, NEW v \in Int
  PROVE  \A key \in DOMAIN SetProperty(p, k, v) : SetProperty(p, k, v)[key] \in Int
<1> QED
  BY DEF SetProperty

(* All members are integers.                                               *)
LEMMA MembersType ==
  ASSUME Given
  PROVE  /\ Members.sample_rate \in Int /\ Members.channels \in Int
         /\ Members.width \in Int /\ Members.height \in Int /\ Members.fps \in Int
<1> QED
  BY DEF Given, Members, GetProperty

(* A stage that builds a part leaves the others as they are.               *)
LEMMA BuildKeeps ==
  ASSUME IInv, NEW name \in Parts, NEW made, NEW next, Build(name, made, next)
  PROVE  /\ part' = [n \in Parts |-> part'[n]]
         /\ part'[name] = made
         /\ \A n \in Parts \ {name} : part'[n] = part[n]
         /\ stage' = next /\ given' = given /\ Given'
         /\ Members' = Members
<1>1. stage' = next /\ given' = given
  BY DEF Build
<1>2. part' = [part EXCEPT ![name] = made]
  BY DEF Build
<1> QED
  BY <1>1, <1>2 DEF IInv, Given, Members
(* main.cpp sets integers.                                                 *)
LEMMA MainKeeps ==
  ASSUME IInv, Choose \/ SetOwn
  PROVE  IInv'
<1>1. Given'
  <2>1. CASE Choose
    BY <2>1, SetKeepsGiven, ConfigurationAssumption DEF Choose, IInv, Given
  <2>2. CASE SetOwn
    <3>1. \A key \in DOMAIN SetProperty(given, "audio_sample_rate", 48000) :
            SetProperty(given, "audio_sample_rate", 48000)[key] \in Int
      BY SetKeepsGiven DEF IInv, Given
    <3> QED
      BY <2>2, <3>1, SetKeepsGiven DEF SetOwn, Given
  <2> QED
    BY <2>1, <2>2
<1>2. part' = part /\ stage' \in {"main", "audio_encoder"}
  BY DEF Choose, SetOwn
<1> QED
  BY <1>1, <1>2 DEF IInv, Kept, Has

(* A component built by PushWork::Init keeps what it is given.             *)
LEMMA InitKeeps ==
  ASSUME IInv,
         \/ InitAudioEncoder \/ InitVideoEncoder \/ InitAudioFrame \/ InitPusher
         \/ InitAudioCapturer \/ InitVideoCapturer
  PROVE  IInv'
<1>0. CASE Fail
  BY <1>0 DEF Fail, IInv, Given, Kept, Has
<1>1. CASE InitAudioEncoder /\ ~Fail
  <2>1. /\ stage = "audio_encoder"
        /\ AacOpens(Members.sample_rate, Members.channels)
        /\ Build("aac", [sample_rate |-> Members.sample_rate,
                         channels |-> Members.channels,
                         frame_size |-> FrameSize], "video_encoder")
    BY <1>1 DEF InitAudioEncoder, GetProperty
  <2> QED
    BY <2>1, BuildKeeps DEF IInv, Kept, Has, Parts
<1>2. CASE InitVideoEncoder /\ ~Fail
  <2>1. /\ stage = "video_encoder"
        /\ SizeTaken(Members.width) /\ SizeTaken(Members.height)
        /\ H264Opens(Members.width, Members.height, Members.fps)
        /\ \E s \in ParamSets :
             Build("h264", [width |-> Members.width, height |-> Members.height,
                            fps |-> Members.fps,
                            extradata |-> Extradata(s[1], s[2]),
                            params |-> Split(Extradata(s[1], s[2]))],
                   "audio_frame")
    BY <1>2 DEF InitVideoEncoder, GetProperty
  <2> QED
    BY <2>1, BuildKeeps DEF IInv, Kept, Has, Parts
<1>3. CASE InitAudioFrame /\ ~Fail
  <2>1. /\ stage = "audio_frame"
        /\ Build("frame", [size |-> part["aac"].channels * part["aac"].frame_size
                                     * BytesPerSample.fltp,
                           nb_samples |-> part["aac"].frame_size], "pusher")
    BY <1>3 DEF InitAudioFrame
  <2> QED
    BY <2>1, BuildKeeps DEF IInv, Kept, Has, Parts
<1>4. CASE InitPusher /\ ~Fail
  <2>1. /\ stage = "pusher"
        /\ Build("pusher", [audio |-> AudioDuration(part["aac"]),
                            video |-> VideoDuration(part["h264"])],
                 "audio_capturer")
    BY <1>4 DEF InitPusher, GetProperty
  <2> QED
    BY <2>1, BuildKeeps DEF IInv, Kept, Has, Parts, AudioDuration, VideoDuration
<1>5. CASE InitAudioCapturer /\ ~Fail
  <2>1. /\ stage = "audio_capturer"
        /\ Build("pcm", [sample_rate |-> Members.sample_rate, nb_samples |-> 1024,
                         buf_size |-> 2 * Members.channels * 1024],
                 "video_capturer")
    BY <1>5 DEF InitAudioCapturer, GetProperty
  <2> QED
    BY <2>1, BuildKeeps DEF IInv, Kept, Has, Parts
<1>6. CASE InitVideoCapturer /\ ~Fail
  <2> DEFINE size == ((Members.width + (Members.width % 2))
                        * (Members.height + (Members.height % 2)) * 3) \div 2
  <2>1. /\ stage = "video_capturer"
        /\ Build("yuv", [fps |-> 25, buf_size |-> size], "running")
    BY <1>6 DEF InitVideoCapturer, GetProperty
  <2> QED
    BY <2>1, BuildKeeps DEF IInv, Kept, Has, Parts
<1> QED
  BY <1>0, <1>1, <1>2, <1>3, <1>4, <1>5, <1>6

(* Nothing is built when main begins. *)
LEMMA InitIInv == EncodingInit => IInv
<1> QED
  BY DEF EncodingInit, Init, IInv, Given, Kept, Has

(* What is built stays as it is. *)
LEMMA NextIInv == IInv /\ [EncodingNext]_<<config, encoding>> => IInv'
<1> SUFFICES ASSUME IInv, [EncodingNext]_<<config, encoding>>
             PROVE  IInv'
  OBVIOUS
<1>1. CASE Configure
  BY <1>1, MainKeeps, InitKeeps DEF Configure
<1>2. CASE PcmCallback \/ YuvCallback \/ UNCHANGED <<config, encoding>>
  <2>1. UNCHANGED <<stage, given, part>>
    BY <1>2 DEF PcmCallback, YuvCallback, Deliver, config
  <2> QED
    BY <2>1 DEF IInv, Given, Kept, Has, Members
<1> QED
  BY <1>1, <1>2 DEF EncodingNext

(* Through PushWork::Init and all callbacks every component keeps what     *)
(* PushWork read from the Properties of main.                              *)
THEOREM Invariance == EncodingSpec => []IInv
<1> QED
  BY InitIInv, NextIInv, PTL DEF EncodingSpec

-----------------------------------------------------------------------------
(* Half of an even number.                                                 *)
LEMMA EvenHalf ==
  ASSUME NEW n \in Int, SizeTaken(n), n > 0
  PROVE  \E a \in Nat : n = 2 * a
<1>1. n % 2 = 0 /\ n \in Nat
  BY DEF SizeTaken
<1>2. n \div 2 \in Nat /\ n = 2 * (n \div 2)
  BY <1>1
<1> QED
  BY <1>2

(* Both computations of the size of an image come to 6 bytes for every     *)
(* square of four pixels.                                                  *)
LEMMA ImageSizes ==
  ASSUME NEW a \in Nat, NEW b \in Nat
  PROVE  /\ ImageSize(2 * a, 2 * b) = 6 * (a * b)
         /\ ((2 * a + ((2 * a) % 2)) * (2 * b + ((2 * b) % 2)) * 3) \div 2 = 6 * (a * b)
<1> DEFINE ab == a * b
<1>1. ab \in Nat
  OBVIOUS
<1>2. (2 * a + 1) \div 2 = a /\ (2 * b + 1) \div 2 = b
  OBVIOUS
<1>3. 2 * a + ((2 * a) % 2) = 2 * a /\ 2 * b + ((2 * b) % 2) = 2 * b
  <2>1. (2 * a) % 2 = 0 /\ (2 * b) % 2 = 0
    OBVIOUS
  <2> QED
    BY <2>1
<1>4. (2 * a) * (2 * b) = 4 * ab
  OBVIOUS
<1> HIDE DEF ab
<1>5. ((4 * ab) * 3) \div 2 = 6 * ab
  BY <1>1
<1>6. ImageSize(2 * a, 2 * b) = 4 * ab + 2 * ab
  BY <1>2, <1>4 DEF ImageSize, ab
<1>7. ASSUME NEW w, NEW h, w = 2 * a, h = 2 * b
      PROVE  (w * h * 3) \div 2 = 6 * ab
  <2>1. w * h = 4 * ab
    BY <1>4, <1>7
  <2> QED
    BY <1>5, <2>1
<1>8. ((2 * a + ((2 * a) % 2)) * (2 * b + ((2 * b) % 2)) * 3) \div 2 = 6 * ab
  BY <1>3, <1>7
<1> QED
  BY <1>1, <1>6, <1>8 DEF ab

(* The sizes fit when PushWork::Init is done. *)
LEMMA Fits == IInv => BuffersFit
<1> SUFFICES ASSUME IInv, stage = "running"
             PROVE  BuffersFit
  BY DEF BuffersFit
<1>1. /\ Members.width \in Int /\ Members.height \in Int /\ Members.channels \in Int
  BY MembersType DEF IInv
<1>2. /\ part["h264"].width = Members.width /\ part["h264"].height = Members.height
      /\ SizeTaken(Members.width) /\ SizeTaken(Members.height)
      /\ Members.width > 0 /\ Members.height > 0
  BY DEF IInv, Kept, Has, H264Opens
<1>3. part["yuv"].buf_size =
        ((Members.width + (Members.width % 2))
           * (Members.height + (Members.height % 2)) * 3) \div 2
  BY DEF IInv, Kept, Has
<1>4. PICK a \in Nat, b \in Nat : Members.width = 2 * a /\ Members.height = 2 * b
  BY <1>1, <1>2, EvenHalf
<1>5. part["yuv"].buf_size = ImageSize(part["h264"].width, part["h264"].height)
  BY <1>2, <1>3, <1>4, ImageSizes
<1>6. /\ part["pcm"].buf_size = 2 * Members.channels * 1024
      /\ part["frame"].nb_samples = 1024
      /\ part["frame"].size = Members.channels * 1024 * 4
  BY DEF IInv, Kept, Has, FrameSize, BytesPerSample
<1>7. LET c == Converted(part["frame"])
      IN  Members.channels = 2 <=>
            c.read = part["pcm"].buf_size /\ c.written = part["frame"].size
  <2>1. /\ Converted(part["frame"]).read = 4 * 1024
        /\ Converted(part["frame"]).written = 8 * 1024
    BY <1>6 DEF Converted, BytesPerSample
  <2> QED
    BY <1>1, <1>6, <2>1
<1> QED
  BY <1>5, <1>7 DEF BuffersFit

(* For every size that H264Encoder::Init takes, the image that the video   *)
(* capturer reads has the size that H264Encoder::Encode wants; and the     *)
(* sample conversion fits its buffers for two channels and for no other    *)
(* number.                                                                 *)
THEOREM BuffersAlwaysFit == EncodingSpec => []BuffersFit
<1> QED
  BY Fits, Invariance, PTL

(* At each of the 13 rates the duration of an audio frame, cut to          *)
(* milliseconds, is less than one short of it.                             *)
LEMMA AudioDurations ==
  ASSUME NEW rate, \E i \in DOMAIN Rates : Rates[i] = rate
  PROVE  LET duration == (1024 * 1000) \div rate
         IN  duration * rate <= 1024 * 1000 /\ 1024 * 1000 < (duration + 1) * rate
<1>1. rate \in {96000, 88200, 64000, 48000, 44100, 32000, 24000, 22050, 16000,
               12000, 11025, 8000, 7350}
  BY DEF Rates
<1>2. CASE rate \in {96000, 88200, 64000, 48000, 44100, 32000}
  BY <1>2
<1>3. CASE rate \in {24000, 22050, 16000, 12000, 11025, 8000, 7350}
  BY <1>3
<1> QED
  BY <1>1, <1>2, <1>3

(* The frame duration of the queue is that of the capturer, for every      *)
(* sample rate and for the frame rate that PushWork does not hand on.      *)
THEOREM DurationsAlwaysAgree == EncodingSpec => []DurationsAgree
<1>1. IInv => DurationsAgree
  <2> SUFFICES ASSUME IInv, stage = "running"
               PROVE  DurationsAgree
    BY DEF DurationsAgree
  <2>1. \E i \in DOMAIN Rates : Rates[i] = Members.sample_rate
    BY DEF IInv, Kept, Has, AacOpens
  <2>2. /\ part["pusher"].audio = (1024 * 1000) \div Members.sample_rate
        /\ part["pusher"].video = 1000 \div Members.fps
        /\ part["pcm"].nb_samples = 1024
        /\ part["pcm"].sample_rate = Members.sample_rate
        /\ part["yuv"].fps = 25
    BY DEF IInv, Kept, Has, FrameSize
  <2>3. LET period == part["pcm"].nb_samples * 1000
            rate   == part["pcm"].sample_rate
        IN  /\ part["pusher"].audio * rate <= period
            /\ period < (part["pusher"].audio + 1) * rate
    BY <2>1, <2>2, AudioDurations
  <2>4. ASSUME GetProperty(given, "video_fps", 25) = 25
        PROVE  part["pusher"].video * part["yuv"].fps = 1000
    <3>1. Members.fps = 25
      BY <2>4 DEF Members
    <3> QED
      BY <2>2, <3>1
  <2> QED
    BY <2>3, <2>4 DEF DurationsAgree
<1> QED
  BY <1>1, Invariance, PTL

-----------------------------------------------------------------------------
(* The sizes that 13 bits can count with a header of 7 bytes.              *)
Countable == 0 .. 8184

(* A reader of dump.aac gets from an ADTS header the rate, the channels    *)
(* and the length it was made from, for each of the 13 rates, up to seven  *)
(* channels and every packet that 13 bits can count with its header.       *)
THEOREM HeaderReadsBack ==
  ASSUME NEW i \in 1 .. 13, NEW channels \in 0 .. 7, NEW length \in Countable,
         NEW aac, aac.channels = channels, FreqIdx(aac.sample_rate) = i - 1
  PROVE  ReadAdts(AdtsHeader(aac, length)) =
           [rate |-> Rates[i], channels |-> channels, size |-> length]
<1> DEFINE h == AdtsHeader(aac, length)
<1>1. /\ h[1] = (64 + (i - 1) * 4 + channels \div 4) % 256
      /\ h[2] = ((channels % 4) * 64 + (length + 7) \div 2048) % 256
      /\ h[3] = ((length + 7) % 2048) \div 8
      /\ h[4] = ((length + 7) % 8) * 32 + 31
  BY DEF AdtsHeader, FrameLength, Byte
<1> HIDE DEF h
<1>0. length \in 0 .. 8184
  BY DEF Countable
<1>2. 1 + ((h[1] \div 4) % 16) = i
  BY <1>1
<1>3. (h[1] % 2) * 4 + h[2] \div 64 = channels
  BY <1>0, <1>1
<1>4. (h[2] % 4) * 2048 + h[3] * 8 + h[4] \div 32 - 7 = length
  BY <1>0, <1>1
<1> QED
  BY <1>2, <1>3, <1>4 DEF ReadAdts, h
===============================================================================
