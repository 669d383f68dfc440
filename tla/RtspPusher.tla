----------------------------- MODULE RtspPusher ------------------------------
(***************************************************************************)
(* The pipeline around the packet queue: pushWork/pusher/rtsp_pusher.cpp   *)
(* with the thread it inherits from common_looper.cpp, and the part of     *)
(* push_work.cpp that builds it and takes it down.  It composes            *)
(*   - main: PushWork::Init, the message loop of main.cpp, and ~PushWork   *)
(*     (program counter mpc);                                              *)
(*   - the pusher thread: RtspPusher::loop (program counter wpc), the only *)
(*     consumer of the packet queue, which it uses through Q;              *)
(*   - the audio and the video capturer thread, reduced to the callbacks   *)
(*     PcmCallback and YuvCallback (CapturerThread has the threads);       *)
(*   - the muxer and network of FFmpeg, whose calls block, succeed, fail,  *)
(*     and fail after decode_interrupt_cb has said that time is up.        *)
(***************************************************************************)
EXTENDS Integers, Sequences, FiniteSets

CONSTANTS
  FrameDuration, PtsSteps, Pts, Sizes, MaxPushes,  (* see PacketQueue       *)
  MaxQueueDuration, (* max_queue_duration_                                  *)
  Timeout,          (* timeout_, in ticks of the clock                      *)
  MaxLost,          (* bound: how often a dump file cannot be opened        *)
  MainQuits         (* TRUE if main ever leaves its message loop: in        *)
                    (* main.cpp the break is commented out                  *)

VARIABLES queue, abort_request, stats, front_pts, back_pts, first_packet,
          wait, blocking, ret, pushed              (* see PacketQueue       *)

Q == INSTANCE PacketQueue WITH Consumers <- {"pusher"},
                               RemainMax <- MaxQueueDuration

Media == Q!Media

(* The queue's constants are what PacketQueue assumes of them.             *)
ASSUME RtspPusherAssumption ==
  /\ FrameDuration \in [Media -> Nat]
  /\ PtsSteps \in [Media -> SUBSET Int]
  /\ 0 \in Pts /\ Pts \subseteq Int
  /\ Sizes \subseteq Nat
  /\ MaxPushes \in [Media -> Nat]
  /\ MaxQueueDuration \in Nat
  /\ Timeout \in Nat
  /\ MaxLost \in Nat
  /\ MainQuits \in BOOLEAN

VARIABLES
  mpc,             (* main: the next step of PushWork or RtspPusher         *)
  wpc,             (* the pusher thread: the next step of loop()            *)
  encoder,         (* audio_encoder_, video_encoder_: "none", "closed" (its *)
                   (* Init failed), "open" or "deleted"                     *)
  audio_frame,     (* fltp_buf_ with audio_frame_: "none", "partial",       *)
                   (* "ready" or "freed"                                    *)
  request_abort,   (* request_abort_ of the pusher                          *)
  hand,            (* pkt: the packet that loop() has popped, if any        *)
  ctx,             (* ofmt_ctx_: "none", "open", "header", "trailer" or     *)
                   (* "freed"                                               *)
  streams,         (* media whose stream is configured                      *)
  alive,           (* queue_ is allocated                                   *)
  capturer,        (* per media: "off", "on", "stopping" or "joined"        *)
  notices,         (* message types main has yet to read from msg_queue_    *)
  elapsed,         (* ticks since pre_time_ was set, at most Timeout + 1    *)
  blocked,         (* history: ticks the FFmpeg call in progress has lasted *)
  live,            (* history: packets allocated and not freed              *)
  lost,            (* history: packets a callback returned with             *)
  leaked,          (* history: packets still queued when queue_ was deleted *)
  cut              (* history: video was dropped and no key frame popped    *)
                   (* since                                                 *)

queueVars  == <<queue, abort_request, stats, front_pts, back_pts, first_packet,
                wait, blocking, ret, pushed>>
encodeVars == <<encoder, audio_frame>>
setupVars  == <<streams, encodeVars>>
timeVars   == <<elapsed, blocked>>
sharedVars == <<request_abort, alive, capturer, notices>>
history    == <<live, lost, leaked, cut>>
ownVars    == <<mpc, wpc, sharedVars, hand, ctx, setupVars, timeVars,
                history>>
vars       == <<queueVars, ownVars>>

Init ==
  /\ Q!Init
  /\ mpc = "audio_encoder" /\ wpc = "none"
  /\ encoder = [m \in Media |-> "none"] /\ audio_frame = "none"
  /\ request_abort = FALSE
  /\ hand = <<>>
  /\ ctx = "none" /\ streams = {} /\ alive = FALSE
  /\ capturer = [m \in Media |-> "off"]
  /\ notices = {}
  /\ elapsed = 0 /\ blocked = 0
  /\ live = 0 /\ lost = 0 /\ leaked = 0 /\ cut = FALSE

Goto(pc) == mpc' = pc
Then(pc) == wpc' = pc

-----------------------------------------------------------------------------
(* Time.  A call of FFmpeg is in progress from its start to its result;    *)
(* ResetTimeout just before it starts the clock of IsTimeout.              *)

InCall == mpc = "in_header" \/ wpc \in {"in_frame", "in_trailer"}

ResetTimeout == elapsed' = 0

StartCall == ResetTimeout /\ blocked' = 0

(* Defect for the mutation runs: the difference taken the wrong way round. *)
IsTimeoutReversed == 0 - elapsed > Timeout

IsTimeout == elapsed > Timeout

Tick ==
  /\ elapsed <= Timeout
  /\ elapsed' = elapsed + 1
  /\ blocked' = IF InCall /\ blocked <= Timeout THEN blocked + 1 ELSE blocked
  /\ UNCHANGED <<queueVars, mpc, wpc, sharedVars, hand, ctx, setupVars,
                 history>>

-----------------------------------------------------------------------------
(* Main builds the pipeline; every failure of Init ends in ~PushWork. *)

FailInit == Goto("stop_audio")

(* An encoder object is made; its Init fails (an odd size, an unknown      *)
(* codec, avcodec_open2) or leaves an open codec context.                  *)
OpenEncoder(m, here, next) ==
  /\ mpc = here
  /\ \/ encoder' = [encoder EXCEPT ![m] = "closed"] /\ FailInit
     \/ encoder' = [encoder EXCEPT ![m] = "open"] /\ Goto(next)
  /\ UNCHANGED <<queueVars, wpc, sharedVars, hand, ctx, streams, audio_frame,
                 timeVars, history>>

(* fltp_buf_ and audio_frame_; the allocation of the one, the comparison   *)
(* of their sizes, or the buffer of the other may end it.                  *)
PrepareFrame ==
  /\ mpc = "audio_frame"
  /\ \/ audio_frame' \in {"none", "partial"} /\ FailInit
     \/ audio_frame' = "ready" /\ Goto("init")
  /\ UNCHANGED <<queueVars, wpc, sharedVars, hand, ctx, streams, encoder,
                 timeVars, history>>

(* RtspPusher::Init fails before or after it has allocated ofmt_ctx_, or   *)
(* succeeds and has allocated queue_ too.                                  *)
PusherInit ==
  /\ mpc = "init"
  /\ \/ ctx' \in {"none", "open"} /\ FailInit /\ UNCHANGED alive
     \/ ctx' = "open" /\ alive' = TRUE /\ Goto("config_video")
  /\ UNCHANGED <<queueVars, wpc, request_abort, capturer, notices, hand,
                 setupVars, timeVars, history>>

(* ConfigVideoStream, then ConfigAudioStream. *)
ConfigStream(m, here, next) ==
  /\ mpc = here
  /\ \/ FailInit /\ UNCHANGED streams
     \/ streams' = streams \cup {m} /\ Goto(next)
  /\ UNCHANGED <<queueVars, wpc, encodeVars, sharedVars, hand, ctx, timeVars,
                 history>>

(* Connect up to avformat_write_header (its check that a stream is         *)
(* configured is met here: ConfigStream fails or configures) ...           *)
Connect ==
  /\ mpc = "connect"
  /\ StartCall
  /\ Goto("in_header")
  /\ UNCHANGED <<queueVars, wpc, sharedVars, hand, ctx, setupVars, history>>

(* ... and from its result on: startThread. *)
HeaderDone(ok) ==
  /\ mpc = "in_header"
  /\ IF ok THEN ctx' = "header" /\ Then("top") /\ Goto("start_audio")
           ELSE FailInit /\ UNCHANGED <<ctx, wpc>>
  /\ UNCHANGED <<queueVars, sharedVars, hand, setupVars, timeVars, history>>

(* Init and startThread of a capturer; Init fails if its file is missing.  *)
StartCapturer(m, here, next) ==
  /\ mpc = here
  /\ \/ FailInit /\ UNCHANGED capturer
     \/ capturer' = [capturer EXCEPT ![m] = "on"] /\ Goto(next)
  /\ UNCHANGED <<queueVars, wpc, request_abort, alive, notices, hand, ctx,
                 setupVars, timeVars, history>>

(* The loop of main: it reads one message at a time and goes on. *)
ReadNotice ==
  /\ mpc = "run"
  /\ \E n \in notices : notices' = notices \ {n}
  /\ UNCHANGED <<queueVars, mpc, wpc, request_abort, alive, capturer, hand,
                 ctx, setupVars, timeVars, history>>

Quit ==
  /\ MainQuits
  /\ mpc = "run"
  /\ Goto("stop_audio")
  /\ UNCHANGED <<queueVars, wpc, sharedVars, hand, ctx, setupVars, timeVars,
                 history>>

-----------------------------------------------------------------------------
(* ~PushWork: the capturers are stopped and joined one after the other,    *)
(* then RtspPusher::DeInit.                                                *)

(* Defect for the mutation runs: a capturer that is told to stop and not   *)
(* waited for.                                                             *)
StopCapturerWithoutJoin(m, here, next) ==
  /\ mpc = here
  /\ Goto(next)
  /\ capturer' = [capturer EXCEPT ![m] = IF @ = "on" THEN "stopping" ELSE @]
  /\ UNCHANGED <<queueVars, wpc, request_abort, alive, notices, hand, ctx,
                 setupVars, timeVars, history>>

StopCapturer(m, here, next) ==
  /\ mpc = here
  /\ IF capturer[m] = "on"
       THEN capturer' = [capturer EXCEPT ![m] = "stopping"] /\ UNCHANGED mpc
       ELSE capturer[m] # "stopping" /\ Goto(next) /\ UNCHANGED capturer
  /\ UNCHANGED <<queueVars, wpc, request_abort, alive, notices, hand, ctx,
                 setupVars, timeVars, history>>

(* Between the capturers and the pusher: the encoders, fltp_buf_ and       *)
(* audio_frame_.  rtsp_pusher_ is null, and ~PushWork done, if Init got no *)
(* further than these.                                                     *)
FreeEncoders ==
  /\ mpc = "free_encoders"
  /\ encoder' = [m \in Media |->
                   IF encoder[m] = "none" THEN "none" ELSE "deleted"]
  /\ audio_frame' = IF audio_frame = "none" THEN "none" ELSE "freed"
  /\ Goto(IF audio_frame = "ready" THEN "abort" ELSE "done")
  /\ UNCHANGED <<queueVars, wpc, sharedVars, hand, ctx, streams, timeVars,
                 history>>

AbortQueue ==
  /\ mpc = "abort"
  /\ Goto("request_stop")
  /\ IF alive THEN Q!Abort ELSE UNCHANGED queueVars
  /\ UNCHANGED <<wpc, sharedVars, hand, ctx, setupVars, timeVars, history>>

(* Defect for the mutation runs: stopThread forgets the flag.              *)
RequestStopForgotten ==
  /\ mpc = "request_stop"
  /\ Goto("join")
  /\ UNCHANGED <<queueVars, wpc, sharedVars, hand, ctx, setupVars, timeVars,
                 history>>

(* stopThread: the flag, then the join. *)
RequestStop ==
  /\ mpc = "request_stop"
  /\ request_abort' = TRUE
  /\ Goto("join")
  /\ UNCHANGED <<queueVars, wpc, alive, capturer, notices, hand, ctx,
                 setupVars, timeVars, history>>

(* Defect for the mutation runs: the context is freed under the thread.    *)
JoinSkipped ==
  /\ mpc = "join"
  /\ Goto("free_ctx")
  /\ UNCHANGED <<queueVars, wpc, sharedVars, hand, ctx, setupVars, timeVars,
                 history>>

Join ==
  /\ mpc = "join"
  /\ wpc \in {"none", "exit"}
  /\ Goto("free_ctx")
  /\ UNCHANGED <<queueVars, wpc, sharedVars, hand, ctx, setupVars, timeVars,
                 history>>

FreeContext ==
  /\ mpc = "free_ctx"
  /\ ctx' = IF ctx = "none" THEN "none" ELSE "freed"
  /\ Goto("delete_queue")
  /\ UNCHANGED <<queueVars, wpc, sharedVars, hand, setupVars, timeVars,
                 history>>

(* ~PacketQueue does nothing for the packets still queued. *)
DeleteQueue ==
  /\ mpc = "delete_queue"
  /\ alive' = FALSE
  /\ leaked' = Len(queue)
  /\ Goto("done")
  /\ UNCHANGED <<queueVars, wpc, request_abort, capturer, notices, hand, ctx,
                 setupVars, timeVars, live, lost, cut>>

-----------------------------------------------------------------------------
(* The capturer threads: callbacks, also while main waits for the thread.  *)
(* A callback encodes a frame, dumps the packet, and pushes it.            *)

(* The encoder's first video packet is a key frame. *)
Capture(m) ==
  /\ capturer[m] \in {"on", "stopping"}
  /\ \E p \in Q!NextPackets :
        /\ p.media = m
        /\ m = "video" /\ first_packet[m] /\ lost = 0 => p.key
        /\ Q!Push(p)
  /\ live' = live + 1
  /\ UNCHANGED <<mpc, wpc, sharedVars, hand, ctx, setupVars, timeVars, lost,
                 leaked, cut>>

(* If the dump file is not yet open and cannot be opened, or the audio has *)
(* no ADTS header, the callback returns with the packet.                   *)
CaptureUndumped(m) ==
  /\ capturer[m] \in {"on", "stopping"}
  /\ first_packet[m]
  /\ lost < MaxLost
  /\ live' = live + 1
  /\ lost' = lost + 1
  /\ UNCHANGED <<queueVars, mpc, wpc, sharedVars, hand, ctx, setupVars,
                 timeVars, leaked, cut>>

CapturerExit(m) ==
  /\ capturer[m] = "stopping"
  /\ capturer' = [capturer EXCEPT ![m] = "joined"]
  /\ UNCHANGED <<queueVars, mpc, wpc, request_abort, alive, notices, hand,
                 ctx, setupVars, timeVars, history>>

-----------------------------------------------------------------------------
(* The pusher thread: RtspPusher::loop. *)

LoopTop ==
  /\ wpc = "top"
  /\ Then(IF request_abort THEN "trailer" ELSE "check")
  /\ UNCHANGED <<queueVars, mpc, sharedVars, hand, ctx, setupVars, timeVars,
                 history>>

(* checkPacketQueueDuration decides on the durations of one GetStats and   *)
(* acts on them, without the mutex in between.                             *)
Over == \E m \in Media : Q!StatsDuration(m) > MaxQueueDuration

CheckDuration ==
  /\ wpc = "check"
  /\ Then(IF Over THEN "notify" ELSE "pop")
  /\ UNCHANGED <<queueVars, mpc, sharedVars, hand, ctx, setupVars, timeVars,
                 history>>

NotifyDuration ==
  /\ wpc = "notify"
  /\ notices' = notices \cup {"MSG_RTSP_QUEUE_DURATION"}
  /\ Then("drop")
  /\ UNCHANGED <<queueVars, mpc, request_abort, alive, capturer, hand, ctx,
                 setupVars, timeVars, history>>

(* Packets that Drop takes out are freed by it. *)
Drop ==
  /\ wpc = "drop"
  /\ Q!DropUntilKey("pusher")
  /\ live' = live - (Len(queue) - Len(queue'))
  /\ cut' = (cut \/ stats'["video"].nb < stats["video"].nb)
  /\ Then("pop")
  /\ UNCHANGED <<mpc, sharedVars, hand, ctx, setupVars, timeVars, lost, leaked>>

(* PopWithTimeout(&pkt, media_type, 1000), which may have to wait. *)
Pop ==
  /\ wpc = "pop"
  /\ Q!PopStart("pusher", FALSE) \/ Q!PopResume("pusher")
  /\ IF ret'["pusher"] = "packet"
       THEN /\ hand' = <<Head(queue)>>
            /\ cut' = (cut /\ ~Q!IsKeyVideo(Head(queue)))
            /\ Then("got")
       ELSE /\ Then(IF wait'["pusher"] = "none" THEN "top" ELSE "pop")
            /\ UNCHANGED <<hand, cut>>
  /\ UNCHANGED <<mpc, sharedVars, ctx, setupVars, timeVars, live, lost, leaked>>

PopExpire ==
  /\ Q!Expire("pusher")
  /\ UNCHANGED ownVars

PopWakeSpuriously ==
  /\ Q!WakeSpuriously("pusher")
  /\ UNCHANGED ownVars

(* av_packet_free on the packet in hand. *)
FreeHand == hand' = <<>> /\ live' = live - 1

(* Defect for the mutation runs: the early break forgets the packet.       *)
StopWithPacketLeaking ==
  /\ wpc = "got"
  /\ request_abort
  /\ hand' = <<>>
  /\ Then("trailer")
  /\ UNCHANGED <<queueVars, mpc, sharedVars, ctx, setupVars, timeVars,
                 history>>

(* The flag is read again after the pop. *)
StopWithPacket ==
  /\ wpc = "got"
  /\ request_abort
  /\ FreeHand
  /\ Then("trailer")
  /\ UNCHANGED <<queueVars, mpc, sharedVars, ctx, setupVars, timeVars, lost,
                 leaked, cut>>

(* sendPacket up to av_write_frame ... *)
SendPacket ==
  /\ wpc = "got"
  /\ ~request_abort
  /\ StartCall
  /\ Then("in_frame")
  /\ UNCHANGED <<queueVars, mpc, sharedVars, hand, ctx, setupVars, history>>

(* ... and from its result on; whatever it is, the packet is freed. *)
FrameDone(ok) ==
  /\ wpc = "in_frame"
  /\ notices' = IF ok THEN notices ELSE notices \cup {"MSG_RTSP_ERROR"}
  /\ FreeHand
  /\ Then("top")
  /\ UNCHANGED <<queueVars, mpc, request_abort, alive, capturer, ctx,
                 setupVars, timeVars, lost, leaked, cut>>

(* Defect for the mutation runs: the clock still runs from the last frame. *)
StartTrailerWithoutReset ==
  /\ wpc = "trailer"
  /\ blocked' = 0
  /\ Then("in_trailer")
  /\ UNCHANGED <<queueVars, mpc, sharedVars, hand, ctx, setupVars, elapsed,
                 history>>

(* After the loop: av_write_trailer. *)
StartTrailer ==
  /\ wpc = "trailer"
  /\ StartCall
  /\ Then("in_trailer")
  /\ UNCHANGED <<queueVars, mpc, sharedVars, hand, ctx, setupVars, history>>

TrailerDone(ok) ==
  /\ wpc = "in_trailer"
  /\ ctx' = "trailer"
  /\ Then("exit")
  /\ UNCHANGED <<queueVars, mpc, sharedVars, hand, setupVars, timeVars,
                 history>>

-----------------------------------------------------------------------------
(* What FFmpeg may do, and what decode_interrupt_cb makes it do. *)

CallDone(ok) == HeaderDone(ok) \/ FrameDone(ok) \/ TrailerDone(ok)

Interrupt == IsTimeout /\ CallDone(FALSE)

Main ==
  \/ OpenEncoder("audio", "audio_encoder", "video_encoder")
  \/ OpenEncoder("video", "video_encoder", "audio_frame")
  \/ PrepareFrame \/ PusherInit
  \/ ConfigStream("video", "config_video", "config_audio")
  \/ ConfigStream("audio", "config_audio", "connect")
  \/ Connect
  \/ StartCapturer("audio", "start_audio", "start_video")
  \/ StartCapturer("video", "start_video", "run")
  \/ ReadNotice
  \/ StopCapturer("audio", "stop_audio", "stop_video")
  \/ StopCapturer("video", "stop_video", "free_encoders")
  \/ FreeEncoders
  \/ AbortQueue \/ RequestStop \/ Join \/ FreeContext \/ DeleteQueue

Worker ==
  \/ LoopTop \/ CheckDuration \/ NotifyDuration \/ Drop \/ Pop
  \/ StopWithPacket \/ SendPacket \/ StartTrailer

Next ==
  \/ Main \/ Quit \/ Worker
  \/ PopExpire \/ PopWakeSpuriously
  \/ \E m \in Media : Capture(m) \/ CaptureUndumped(m) \/ CapturerExit(m)
  \/ \E ok \in BOOLEAN : CallDone(ok)
  \/ Tick

SafeSpec == Init /\ [][Next]_vars

(* Threads run, time passes, FFmpeg asks decode_interrupt_cb while it      *)
(* blocks, and wait_for keeps its deadline.  The network owes nothing: no  *)
(* call need ever succeed.  Nor need a capturer capture, or main quit.     *)
Spec ==
  /\ SafeSpec
  /\ WF_vars(Main) /\ WF_vars(Worker) /\ SF_vars(PopExpire)
  /\ \A m \in Media : WF_vars(CapturerExit(m))
  /\ WF_vars(Tick) /\ WF_vars(Interrupt)

-----------------------------------------------------------------------------
(* Properties. *)

(* Every variable has its type. *)
TypeOK ==
  /\ Q!TypeOK
  /\ mpc \in {"audio_encoder", "video_encoder", "audio_frame", "init",
              "config_video", "config_audio", "connect", "in_header",
              "start_audio", "start_video", "run", "stop_audio", "stop_video",
              "free_encoders", "abort", "request_stop", "join", "free_ctx",
              "delete_queue", "done"}
  /\ wpc \in {"none", "top", "check", "notify", "drop", "pop", "got",
              "in_frame", "trailer", "in_trailer", "exit"}
  /\ encoder \in [Media -> {"none", "closed", "open", "deleted"}]
  /\ audio_frame \in {"none", "partial", "ready", "freed"}
  /\ {request_abort, alive, cut} \subseteq BOOLEAN
  /\ hand = <<>> \/ \E p \in Q!Packet : hand = <<p>>
  /\ ctx \in {"none", "open", "header", "trailer", "freed"}
  /\ streams \subseteq Media
  /\ capturer \in [Media -> {"off", "on", "stopping", "joined"}]
  /\ notices \subseteq {"MSG_RTSP_ERROR", "MSG_RTSP_QUEUE_DURATION"}
  /\ {elapsed, blocked} \subseteq 0 .. Timeout + 1
  /\ live \in Nat /\ leaked \in Nat /\ lost \in 0 .. MaxLost

(* Nobody touches what is gone: while the pusher thread runs there are a   *)
(* queue and a muxer with its header written, and while a capturer can     *)
(* still call back there are the encoders, the frame that audio is copied  *)
(* to, and an open queue, so that no Push is refused and no packet lost on *)
(* the way in.                                                             *)
NoUseAfterFree ==
  /\ wpc \notin {"none", "exit"} => alive /\ ctx = "header"
  /\ \A m \in Media :
        capturer[m] \in {"on", "stopping"} =>
          /\ alive /\ ~abort_request
          /\ encoder[m] = "open" /\ audio_frame = "ready"

(* What FFmpeg asks of its callers: frames only after the header and only  *)
(* for configured streams, and a context that got its header gets its      *)
(* trailer, too, before it is freed.                                       *)
MuxerProtocol ==
  [][/\ wpc' = "in_frame" => ctx = "header" /\ hand'[1].media \in streams
     /\ ctx = "header" => ctx' # "freed"]_vars

(* While the queue exists, every packet the encoders allocated is in it,   *)
(* in the hand of the pusher thread, or freed, exactly once, on every way  *)
(* through loop() and Drop, but for those that a callback could not dump.  *)
(* What is left in the queue when DeInit deletes it (rtsp_pusher.cpp:92)   *)
(* is freed by nobody: from then on those packets are lost as well, and no *)
(* others, for nobody pushes or pops any more.                             *)
PacketsConserved ==
  live = lost + Len(hand) + (IF alive THEN Len(queue) ELSE leaked)

(* No call of FFmpeg is cut short: decode_interrupt_cb measures from the   *)
(* start of the call in progress, header, frame or trailer, and not from   *)
(* an earlier one.                                                         *)
FullBudget == InCall => elapsed = blocked

(* As long as no pts goes back, or on by more than two frames, the         *)
(* decision to drop is still right when Drop takes the mutex, whatever was *)
(* pushed since GetStats.                                                  *)
DropStillDue ==
  wpc = "drop" => \E m \in Media : Q!StatsDuration(m) > MaxQueueDuration

(* With video frames a frame apart or further, a Drop leaves at most       *)
(* max_queue_duration_ of video, and a frame if nothing had left before.   *)
VideoRetainedWithinMax ==
  [][wpc = "drop" /\ wpc' = "pop" =>
       FrameDuration["video"] * stats'["video"].nb
         <= MaxQueueDuration + FrameDuration["video"]]_vars

(* packet_queue.h:227 says that data is dropped until an I frame: no frame *)
(* that refers to a dropped one is sent.                                   *)
NoOrphanFrame ==
  wpc = "in_frame" /\ hand[1].media = "video" /\ ~hand[1].key => ~cut

(* Seen from outside: building goes on until the pusher thread is started, *)
(* and the pipeline is closed when ~PushWork has returned.                 *)
Phase ==
  CASE mpc \in {"start_audio", "start_video", "run"} -> "live"
    [] mpc \in {"stop_audio", "stop_video"}          -> "stopping"
    [] mpc \in {"free_encoders", "abort", "request_stop", "join", "free_ctx",
                "delete_queue"}                      -> "draining"
    [] mpc = "done"                                  -> "closed"
    [] OTHER                                         -> "building"

Pipe == INSTANCE Pipeline WITH
          Packet <- Q!Packet, phase <- Phase, out <- hand,
          backlog <- IF mpc = "done" THEN <<>> ELSE queue

(* The threads together are one pipeline: whatever fails and wherever they *)
(* are interrupted, packets leave in the order in which they came and one  *)
(* at a time, none comes in after the capturers are joined, and tear-down  *)
(* ends with nothing on its way out, also when the server never answers:   *)
(* the join waits for a blocked frame and a trailer, and both are          *)
(* interrupted.                                                            *)
ImplementsPipeline == Pipe!Spec

(* A backlog is sent, dropped or taken down, also when the server never    *)
(* answers.                                                                *)
BacklogDrains ==
  queue # <<>> ~> \/ queue = <<>>
                  \/ mpc \notin {"start_audio", "start_video", "run"}
==============================================================================
