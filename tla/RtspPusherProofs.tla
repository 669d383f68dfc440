--------------------------- MODULE RtspPusherProofs ---------------------------
(***************************************************************************)
(* For all frame durations, pts, limits and timeouts, and any number of    *)
(* frames: the pipeline uses nothing it has freed, cuts no call of FFmpeg  *)
(* short, keeps account of every packet, calls FFmpeg in its order, uses   *)
(* its queue as PacketQueue allows, and takes the steps of Pipeline.       *)
(***************************************************************************)
EXTENDS RtspPusher, FiniteSetTheorems, SequenceTheorems, TLAPS

(* How far main has got: what comes after a point of PushWork::Init ...    *)
Running   == {"start_audio", "start_video", "run"}
Configuring == {"config_video", "config_audio", "connect", "in_header"}
Preparing == {"audio_encoder", "video_encoder", "audio_frame", "init"}

(* ... and of ~PushWork. *)
Ending    == {"abort", "request_stop", "join", "free_ctx", "delete_queue", "done"}

(* A capturer may still call back.                                         *)
Calls(m) == capturer[m] \in {"on", "stopping"}

(* The pusher thread runs.                                                 *)
Pushing == wpc \notin {"none", "exit"}

(* Where main and the pusher thread are.                                   *)
Places ==
  /\ mpc \in Preparing \cup Configuring \cup Running \cup Ending
               \cup {"stop_audio", "stop_video", "free_encoders"}
  /\ wpc \in {"none", "top", "check", "notify", "drop", "pop", "got",
              "in_frame", "trailer", "in_trailer", "exit"}
  /\ mpc \in Preparing \cup Configuring => wpc = "none"
  /\ mpc \in {"free_ctx", "delete_queue", "done"} => ~Pushing

(* The encoders and the frame: there from their making to free_encoders,   *)
(* which no capturer that calls back outlives.                             *)
Encoders ==
  /\ encoder \in [Media -> {"none", "closed", "open", "deleted"}]
  /\ capturer \in [Media -> {"off", "on", "stopping", "joined"}]
  /\ mpc \in {"video_encoder", "audio_frame", "init"} \cup Configuring \cup Running
       => encoder["audio"] = "open"
  /\ mpc \in {"audio_frame", "init"} \cup Configuring \cup Running
       => encoder["video"] = "open"
  /\ mpc \in {"init"} \cup Configuring \cup Running => audio_frame = "ready"
  /\ mpc \in Preparing \cup Configuring => ~Calls("audio") /\ ~Calls("video")
  /\ mpc = "stop_video" => ~Calls("audio")
  /\ mpc \in {"free_encoders"} \cup Ending => ~Calls("audio") /\ ~Calls("video")
  /\ \A m \in Media : Calls(m) => encoder[m] = "open" /\ audio_frame = "ready"
  /\ wpc # "none" /\ mpc \notin Ending => audio_frame = "ready"

(* The queue: there from RtspPusher::Init to DeInit, and open until no     *)
(* capturer is left to push.                                               *)
QueueThere ==
  /\ mpc \in Configuring \cup Running => alive
  /\ Pushing \/ Calls("audio") \/ Calls("video") => alive
  /\ mpc \notin Ending => ~abort_request

(* The muxer: its header is written and its trailer is not exactly while   *)
(* the pusher thread runs, which starts with all streams configured.       *)
Muxer ==
  /\ mpc \in Configuring => ctx = "open"
  /\ mpc \in {"config_audio", "connect", "in_header"} => "video" \in streams
  /\ mpc \in {"connect", "in_header"} => "audio" \in streams
  /\ streams \subseteq Media
  /\ Pushing <=> ctx = "header"
  /\ Pushing => streams = Media

(* Main, the pusher thread and the callbacks keep out of each other's way. *)
Control == Places /\ Encoders /\ QueueThere /\ Muxer

(* Nothing is freed twice or forgotten, except with the queue ...          *)
Accounted == live = Len(queue) + Len(hand) + lost

(* ... in which nothing changes after its deletion.                        *)
Leak == ~alive => leaked = Len(queue)

(* The packets: the one in hand is there from the pop to its freeing.      *)
Packets ==
  /\ queue \in Seq(Q!Packet)
  /\ ret \in [{"pusher"} -> {"none", "packet", "empty", "abort"}]
  /\ \/ wpc \in {"got", "in_frame"} /\ \E p \in Q!Packet : hand = <<p>>
     \/ wpc \notin {"got", "in_frame"} /\ hand = <<>>
  /\ live \in Int /\ lost \in Nat
  /\ Accounted

IInv == Control /\ Packets /\ Leak
-----------------------------------------------------------------------------
(* What the steps of the queue do to it. *)

(* A push appends to a queue that is open.                                 *)
LEMMA PushEffect ==
  ASSUME Packets, NEW p \in Q!NextPackets, Q!Push(p)
  PROVE  /\ p \in Q!Packet /\ ~abort_request
         /\ queue' = Append(queue, p)
         /\ UNCHANGED <<abort_request, ret>>
<1> QED
  BY DEF Q!Push, Q!Accept, Q!NextPackets

(* A pop that returns a packet takes it from the front, ...                *)
LEMMA PopEffect ==
  ASSUME Packets, Q!PopStart("pusher", FALSE) \/ Q!PopResume("pusher")
  PROVE  /\ abort_request' = abort_request
         /\ ret' \in [{"pusher"} -> {"none", "packet", "empty", "abort"}]
         /\ \/ /\ ret'["pusher"] = "packet" /\ queue # <<>>
               /\ queue' = SubSeq(queue, 2, Len(queue))
            \/ ret'["pusher"] # "packet" /\ queue' = queue
<1> USE DEF Packets
<1>1. CASE Q!ReturnPacket("pusher")
  BY <1>1 DEF Q!ReturnPacket, Q!Return, Q!RemoveFront
<1>2. CASE Q!ReturnAbort("pusher")
  BY <1>2 DEF Q!ReturnAbort, Q!Return, Q!dataVars
<1>3. CASE \E forever : Q!BeginWait("pusher", forever)
  BY <1>3 DEF Q!BeginWait, Q!dataVars
<1>4. CASE Q!Return("pusher", "empty") /\ UNCHANGED Q!dataVars
  BY <1>4 DEF Q!Return, Q!dataVars
<1> QED
  BY <1>1, <1>2, <1>3, <1>4 DEF Q!PopStart, Q!PopResume

(* ... and a drop takes some, up to a key frame or all.                    *)
LEMMA DropEffect ==
  ASSUME Packets, Q!DropUntilKey("pusher")
  PROVE  /\ UNCHANGED <<abort_request, ret>>
         /\ \E k \in 0 .. Len(queue) :
               /\ queue' = SubSeq(queue, k + 1, Len(queue))
               /\ k < Len(queue) => Q!IsKeyVideo(queue[k + 1])
<1>1. PICK k \in 0 .. Len(queue) : (k = Len(queue) \/ Q!StopsAt(k)) /\ Q!RemoveFront(k)
  BY DEF Q!DropUntilKey
<1>2. UNCHANGED <<abort_request, ret>>
  BY DEF Q!DropUntilKey, Q!callVars
<1>3. queue' = SubSeq(queue, k + 1, Len(queue))
  BY <1>1 DEF Q!RemoveFront
<1>4. k < Len(queue) => Q!IsKeyVideo(queue[k + 1])
  <2> SUFFICES ASSUME k < Len(queue) PROVE Q!IsKeyVideo(queue[k + 1])
    OBVIOUS
  <2>1. Len(queue) \in Nat /\ k # Len(queue)
    BY DEF Packets
  <2> QED
    BY <1>1, <2>1 DEF Q!StopsAt
<1> QED
  BY <1>2, <1>3, <1>4

-----------------------------------------------------------------------------
(* Control. *)

(* The steps of PushWork::Init and of main's loop.                         *)
LEMMA BuildKeepsControl ==
  ASSUME Control,
         \/ OpenEncoder("audio", "audio_encoder", "video_encoder")
         \/ OpenEncoder("video", "video_encoder", "audio_frame")
         \/ PrepareFrame \/ PusherInit
         \/ ConfigStream("video", "config_video", "config_audio")
         \/ ConfigStream("audio", "config_audio", "connect")
         \/ Connect
         \/ StartCapturer("audio", "start_audio", "start_video")
         \/ StartCapturer("video", "start_video", "run")
         \/ ReadNotice \/ Quit
         \/ \E ok \in BOOLEAN : HeaderDone(ok)
  PROVE  Control'
<1> USE DEF Control, Places, Encoders, QueueThere, Muxer, Preparing, Configuring,
            Running, Ending, Calls, Pushing, Media, Q!Media, Goto, FailInit, Then,
            queueVars, sharedVars, setupVars, encodeVars
<1>1. CASE OpenEncoder("audio", "audio_encoder", "video_encoder")
  BY <1>1 DEF OpenEncoder
<1>2. CASE OpenEncoder("video", "video_encoder", "audio_frame")
  BY <1>2 DEF OpenEncoder
<1>3. CASE PrepareFrame
  BY <1>3 DEF PrepareFrame
<1>4. CASE PusherInit
  BY <1>4 DEF PusherInit
<1>5. CASE ConfigStream("video", "config_video", "config_audio")
  BY <1>5 DEF ConfigStream
<1>6. CASE ConfigStream("audio", "config_audio", "connect")
  BY <1>6 DEF ConfigStream
<1>7. CASE Connect
  BY <1>7 DEF Connect
<1>8. CASE StartCapturer("audio", "start_audio", "start_video")
  BY <1>8 DEF StartCapturer
<1>9. CASE StartCapturer("video", "start_video", "run")
  BY <1>9 DEF StartCapturer
<1>10. CASE ReadNotice
  BY <1>10 DEF ReadNotice
<1>11. CASE Quit
  BY <1>11 DEF Quit
<1>12. CASE \E ok \in BOOLEAN : HeaderDone(ok)
  <2>1. PICK ok \in BOOLEAN : HeaderDone(ok)
    BY <1>12
  <2>2. mpc = "in_header" /\ UNCHANGED <<queueVars, sharedVars, setupVars>>
    BY <2>1 DEF HeaderDone
  <2>3. streams = Media
    BY <2>2
  <2>4. CASE ok
    <3>1. ctx' = "header" /\ wpc' = "top" /\ mpc' = "start_audio"
      BY <2>1, <2>4 DEF HeaderDone
    <3> QED
      BY <2>2, <2>3, <3>1
  <2>5. CASE ~ok
    BY <2>1, <2>5 DEF HeaderDone
  <2> QED
    BY <2>4, <2>5
<1> QED
  BY <1>1, <1>2, <1>3, <1>4, <1>5, <1>6, <1>7, <1>8, <1>9, <1>10, <1>11, <1>12
(* The steps of ~PushWork, each of which finds stopped what it frees.      *)
LEMMA TearDownKeepsControl ==
  ASSUME Control,
         \/ StopCapturer("audio", "stop_audio", "stop_video")
         \/ StopCapturer("video", "stop_video", "free_encoders")
         \/ FreeEncoders
         \/ AbortQueue \/ RequestStop \/ Join \/ FreeContext \/ DeleteQueue
  PROVE  Control'
<1> USE DEF Control, Places, Encoders, QueueThere, Muxer, Preparing, Configuring,
            Running, Ending, Calls, Pushing, Media, Q!Media, Goto,
            queueVars, sharedVars, setupVars, encodeVars
<1>1. CASE StopCapturer("audio", "stop_audio", "stop_video")
  BY <1>1 DEF StopCapturer
<1>2. CASE StopCapturer("video", "stop_video", "free_encoders")
  BY <1>2 DEF StopCapturer
<1>3. CASE FreeEncoders
  <2>1. /\ mpc = "free_encoders" /\ ~Calls("audio") /\ ~Calls("video")
        /\ UNCHANGED <<wpc, alive, abort_request, capturer, ctx, streams>>
    BY <1>3 DEF FreeEncoders
  <2>2. encoder' \in [Media -> {"none", "closed", "open", "deleted"}]
    BY <1>3 DEF FreeEncoders
  <2>3. mpc' = IF audio_frame = "ready" THEN "abort" ELSE "done"
    BY <1>3 DEF FreeEncoders
  <2> QED
    BY <2>1, <2>2, <2>3
<1>4. CASE AbortQueue
  <2>1. UNCHANGED <<wpc, sharedVars, ctx, setupVars>> /\ mpc = "abort"
        /\ mpc' = "request_stop"
    BY <1>4 DEF AbortQueue
  <2> QED
    BY <2>1
<1>5. CASE RequestStop
  BY <1>5 DEF RequestStop
<1>6. CASE Join
  BY <1>6 DEF Join
<1>7. CASE FreeContext
  BY <1>7 DEF FreeContext
<1>8. CASE DeleteQueue
  BY <1>8 DEF DeleteQueue
<1> QED
  BY <1>1, <1>2, <1>3, <1>4, <1>5, <1>6, <1>7, <1>8

(* The steps of the pusher thread move it on, and the last of them ends    *)
(* the muxer's work together with its own.                                 *)
LEMMA WorkerKeepsControl ==
  ASSUME Control, Packets, Worker \/ \E ok \in BOOLEAN : FrameDone(ok) \/ TrailerDone(ok)
  PROVE  Control'
<1> USE DEF Control, Places, Encoders, QueueThere, Muxer, Preparing, Configuring,
            Running, Ending, Calls, Pushing, Then
<1>1. CASE \E ok \in BOOLEAN : TrailerDone(ok)
  BY <1>1 DEF TrailerDone, queueVars, sharedVars, setupVars, encodeVars
<1>2. CASE Worker \/ \E ok \in BOOLEAN : FrameDone(ok)
  <2>1. /\ UNCHANGED <<mpc, alive, capturer, ctx, streams, encoder, audio_frame>>
        /\ wpc \in {"top", "check", "notify", "drop", "pop", "got", "in_frame",
                    "trailer"}
        /\ wpc' \in {"top", "check", "notify", "drop", "pop", "got", "in_frame",
                     "trailer", "in_trailer"}
    BY <1>2 DEF Worker, LoopTop, CheckDuration, NotifyDuration, Drop, Pop,
                StopWithPacket, SendPacket, StartTrailer, FrameDone,
                sharedVars, setupVars, encodeVars
  <2>2. abort_request' = abort_request
    <3>1. CASE Pop
      BY <3>1, PopEffect DEF Pop
    <3>2. CASE Drop
      BY <3>2, DropEffect DEF Drop
    <3> QED
      BY <1>2, <3>1, <3>2 DEF Worker, LoopTop, CheckDuration, NotifyDuration,
           StopWithPacket, SendPacket, StartTrailer, FrameDone, queueVars
  <2> QED
    BY <2>1, <2>2
<1> QED
  BY <1>1, <1>2

(* The callbacks, the end of a capturer, and time.                         *)
LEMMA OthersKeepControl ==
  ASSUME Control, Packets,
         \/ PopExpire \/ PopWakeSpuriously \/ Tick \/ UNCHANGED vars
         \/ \E m \in Media : Capture(m) \/ CaptureUndumped(m) \/ CapturerExit(m)
  PROVE  Control'
<1> USE DEF Control, Places, Encoders, QueueThere, Muxer, Preparing, Configuring,
            Running, Ending, Calls, Pushing
<1>1. CASE \E m \in Media : CapturerExit(m)
  BY <1>1 DEF CapturerExit, queueVars, setupVars, encodeVars, Media, Q!Media
<1>2. CASE ~\E m \in Media : CapturerExit(m)
  <2>1. UNCHANGED <<mpc, wpc, alive, capturer, ctx, streams, encoder, audio_frame>>
    BY <1>2 DEF PopExpire, PopWakeSpuriously, Tick, Capture, CaptureUndumped,
                vars, ownVars, sharedVars, setupVars, encodeVars
  <2>2. abort_request' = abort_request
    BY <1>2, PushEffect DEF PopExpire, PopWakeSpuriously, Tick, Capture,
         CaptureUndumped, Q!Expire, Q!WakeSpuriously, vars, queueVars
  <2> QED
    BY <2>1, <2>2
<1> QED
  BY <1>1, <1>2
-----------------------------------------------------------------------------
(* The packets. *)

(* What is left of the queue when its first k packets are gone.            *)
LEMMA Remaining ==
  ASSUME NEW q \in Seq(Q!Packet), NEW k \in 0 .. Len(q)
  PROVE  /\ SubSeq(q, k + 1, Len(q)) \in Seq(Q!Packet)
         /\ Len(SubSeq(q, k + 1, Len(q))) = Len(q) - k
<1> DEFINE n == Len(q)
<1>1. n \in Nat /\ \A i \in 1 .. n : q[i] \in Q!Packet
  BY LenProperties, ElementOfSeq
<1> HIDE DEF n
<1>2. k \in Nat /\ k <= n
  BY <1>1 DEF n
<1>3. k + 1 \in Int /\ \A i \in (k + 1) .. n : q[i] \in Q!Packet
  BY <1>1, <1>2
<1>4. /\ SubSeq(q, k + 1, n) \in Seq(Q!Packet)
      /\ Len(SubSeq(q, k + 1, n)) = IF k + 1 <= n THEN n - (k + 1) + 1 ELSE 0
  BY <1>1, <1>3, SubSeqProperties
<1>5. (IF k + 1 <= n THEN n - (k + 1) + 1 ELSE 0) = n - k
  BY <1>1, <1>2
<1> QED
  BY <1>4, <1>5 DEF n

(* The callbacks: what comes in is counted.                                *)
LEMMA CaptureKeepsPackets ==
  ASSUME Packets, NEW m \in Media, Capture(m) \/ CaptureUndumped(m)
  PROVE  Packets'
<1>1. CASE Capture(m)
  <2>1. PICK p \in Q!NextPackets : Q!Push(p)
    BY <1>1 DEF Capture
  <2>2. p \in Q!Packet /\ queue' = Append(queue, p) /\ UNCHANGED ret
    BY <2>1, PushEffect
  <2>3. /\ live' = live + 1 /\ UNCHANGED <<wpc, hand, lost>>
    BY <1>1 DEF Capture
  <2>4. queue' \in Seq(Q!Packet) /\ Len(queue') = Len(queue) + 1
    BY <2>2, AppendProperties DEF Packets
  <2>5. Len(queue) \in Nat /\ Len(hand) \in Nat
    BY DEF Packets
  <2> QED
    BY <2>2, <2>3, <2>4, <2>5 DEF Packets, Accounted
<1>2. CASE CaptureUndumped(m)
  <2>1. /\ live' = live + 1 /\ lost' = lost + 1
        /\ UNCHANGED <<queue, ret, wpc, hand>>
    BY <1>2 DEF CaptureUndumped, queueVars
  <2>2. Len(queue) \in Nat /\ Len(hand) \in Nat
    BY DEF Packets
  <2> QED
    BY <2>1, <2>2 DEF Packets, Accounted
<1> QED
  BY <1>1, <1>2

(* Drop frees what it takes, ...                                           *)
LEMMA DropKeepsPackets ==
  ASSUME Packets, Drop
  PROVE  Packets'
<1>1. PICK k \in 0 .. Len(queue) : queue' = SubSeq(queue, k + 1, Len(queue))
  BY DropEffect DEF Drop
<1>2. UNCHANGED ret
  BY DropEffect DEF Drop
<1>3. /\ wpc = "drop" /\ wpc' = "pop" /\ UNCHANGED <<hand, lost>>
      /\ live' = live - (Len(queue) - Len(queue'))
  BY DEF Drop, Then
<1>4. queue' \in Seq(Q!Packet) /\ Len(queue') = Len(queue) - k
  BY <1>1, Remaining DEF Packets
<1>5. Len(queue) \in Nat /\ Len(hand) \in Nat /\ hand = <<>>
  BY <1>3 DEF Packets
<1> QED
  BY <1>2, <1>3, <1>4, <1>5 DEF Packets, Accounted

(* ... and a pop puts it into the hand, ...                                *)
LEMMA PopKeepsPackets ==
  ASSUME Packets, Pop
  PROVE  Packets'
<1>1. /\ ret' \in [{"pusher"} -> {"none", "packet", "empty", "abort"}]
      /\ \/ /\ ret'["pusher"] = "packet" /\ queue # <<>>
            /\ queue' = SubSeq(queue, 2, Len(queue))
         \/ ret'["pusher"] # "packet" /\ queue' = queue
  BY PopEffect DEF Pop
<1>2. wpc = "pop" /\ hand = <<>> /\ UNCHANGED <<live, lost>>
  BY DEF Pop, Packets
<1>3. CASE ret'["pusher"] = "packet"
  <2>1. hand' = <<Head(queue)>> /\ wpc' = "got"
    BY <1>3 DEF Pop, Then
  <2>2. queue # <<>> /\ queue \in Seq(Q!Packet)
    BY <1>1, <1>3 DEF Packets
  <2>3. Head(queue) \in Q!Packet /\ Len(queue) \in Nat /\ Len(queue) >= 1
    BY <2>2, HeadTailProperties, EmptySeq, LenProperties
  <2>4. queue' \in Seq(Q!Packet) /\ Len(queue') = Len(queue) - 1
    <3>1. 1 \in 0 .. Len(queue) /\ queue' = SubSeq(queue, 1 + 1, Len(queue))
      BY <1>1, <1>3, <2>3
    <3> QED
      BY <2>2, <3>1, Remaining
  <2>5. Len(hand) = 0 /\ Len(hand') = 1
    BY <1>2, <2>1
  <2> QED
    BY <1>1, <1>2, <2>1, <2>3, <2>4, <2>5 DEF Packets, Accounted
<1>4. CASE ret'["pusher"] # "packet"
  <2>1. queue' = queue /\ hand' = hand /\ wpc' \in {"top", "pop"}
    BY <1>1, <1>4 DEF Pop, Then
  <2> QED
    BY <1>1, <1>2, <2>1 DEF Packets, Accounted
<1> QED
  BY <1>3, <1>4

(* ... from which it is freed, sent or not.                                *)
LEMMA FreeKeepsPackets ==
  ASSUME Packets, StopWithPacket \/ \E ok \in BOOLEAN : FrameDone(ok)
  PROVE  Packets'
<1>1. /\ wpc \in {"got", "in_frame"} /\ wpc' \in {"top", "trailer"}
      /\ hand' = <<>> /\ live' = live - 1 /\ UNCHANGED <<queue, ret, lost>>
  BY DEF StopWithPacket, FrameDone, FreeHand, Then, queueVars
<1>2. Len(hand) = 1 /\ Len(hand') = 0 /\ Len(queue) \in Nat
  BY <1>1 DEF Packets
<1> QED
  BY <1>1, <1>2 DEF Packets, Accounted

(* All other steps leave queue and hand alone.                             *)
LEMMA OthersKeepPackets ==
  ASSUME Control, Packets,
         \/ Main \/ Quit \/ LoopTop \/ CheckDuration \/ NotifyDuration
         \/ SendPacket \/ StartTrailer
         \/ \E ok \in BOOLEAN : HeaderDone(ok) \/ TrailerDone(ok)
         \/ PopExpire \/ PopWakeSpuriously \/ Tick \/ UNCHANGED vars
         \/ \E m \in Media : CapturerExit(m)
  PROVE  Packets'
<1>1. UNCHANGED <<queue, ret, hand, live, lost>>
  <2>1. CASE AbortQueue
    BY <2>1 DEF AbortQueue, Q!Abort, Q!dataVars, queueVars, history
  <2>2. CASE PopExpire \/ PopWakeSpuriously
    BY <2>2 DEF PopExpire, PopWakeSpuriously, Q!Expire, Q!WakeSpuriously,
                Q!dataVars, ownVars, history
  <2>3. CASE Main /\ ~AbortQueue
    BY <2>3 DEF Main, OpenEncoder, PrepareFrame, PusherInit, ConfigStream,
         Connect, StartCapturer, ReadNotice, StopCapturer, FreeEncoders,
         RequestStop, Join, FreeContext, DeleteQueue, queueVars, history
  <2>4. CASE ~Main /\ ~PopExpire /\ ~PopWakeSpuriously
    BY <2>4 DEF Quit, LoopTop, CheckDuration, NotifyDuration, SendPacket,
         StartTrailer, HeaderDone, TrailerDone, Tick, CapturerExit, vars,
         ownVars, queueVars, history
  <2> QED
    BY <2>1, <2>2, <2>3, <2>4
<1>2. wpc \in {"got", "in_frame"} <=> wpc' \in {"got", "in_frame"}
  <2>1. CASE Main
    BY <2>1 DEF Main, OpenEncoder, PrepareFrame, PusherInit, ConfigStream,
         Connect, StartCapturer, ReadNotice, StopCapturer, FreeEncoders,
         AbortQueue, RequestStop, Join, FreeContext, DeleteQueue
  <2>2. CASE \E ok \in BOOLEAN : HeaderDone(ok)
    BY <2>2 DEF HeaderDone, Then, Control, Places, Configuring
  <2>3. CASE ~Main /\ ~\E ok \in BOOLEAN : HeaderDone(ok)
    BY <2>3 DEF Quit, LoopTop, CheckDuration, NotifyDuration, SendPacket,
         StartTrailer, TrailerDone, PopExpire, PopWakeSpuriously, Tick,
         CapturerExit, Then, vars, ownVars
  <2> QED
    BY <2>1, <2>2, <2>3
<1> QED
  BY <1>1, <1>2 DEF Packets, Accounted

(* A queue that is gone, or not yet there, is touched by nobody: callbacks *)
(* and pusher thread use it only while it lives.                           *)
LEMMA LeakNext ==
  ASSUME Control, Leak, [Next]_vars
  PROVE  Leak'
<1> USE DEF Leak
<1>1. CASE DeleteQueue
  BY <1>1 DEF DeleteQueue, queueVars
<1>2. CASE \/ \E m \in Media : Capture(m) \/ CaptureUndumped(m)
           \/ Worker \/ \E ok \in BOOLEAN : FrameDone(ok) \/ TrailerDone(ok)
  <2>1. alive /\ alive' = alive
    <3>1. CASE \E m \in Media : Capture(m) \/ CaptureUndumped(m)
      BY <3>1 DEF Control, QueueThere, Calls, Capture, CaptureUndumped, sharedVars,
                  Media, Q!Media
    <3>2. CASE Worker \/ \E ok \in BOOLEAN : FrameDone(ok) \/ TrailerDone(ok)
      BY <3>2 DEF Control, QueueThere, Pushing, Worker, LoopTop, CheckDuration,
                  NotifyDuration, Drop, Pop, StopWithPacket, SendPacket, StartTrailer,
                  FrameDone, TrailerDone, sharedVars
    <3> QED
      BY <1>2, <3>1, <3>2
  <2> QED
    BY <2>1
<1>3. CASE \/ Main /\ ~DeleteQueue
           \/ Quit \/ \E ok \in BOOLEAN : HeaderDone(ok)
           \/ PopExpire \/ PopWakeSpuriously \/ Tick \/ UNCHANGED vars
           \/ \E m \in Media : CapturerExit(m)
  <2>1. UNCHANGED <<queue, leaked>> /\ (alive' = alive \/ alive')
    <3>1. CASE AbortQueue
      BY <3>1 DEF AbortQueue, Q!Abort, Q!dataVars, queueVars, history, sharedVars
    <3>2. CASE PopExpire \/ PopWakeSpuriously
      BY <3>2 DEF PopExpire, PopWakeSpuriously, Q!Expire, Q!WakeSpuriously,
                  Q!dataVars, ownVars, history, sharedVars
    <3>3. CASE Main /\ ~AbortQueue /\ ~DeleteQueue
      BY <3>3 DEF Main, OpenEncoder, PrepareFrame, PusherInit, ConfigStream,
           Connect, StartCapturer, ReadNotice, StopCapturer, FreeEncoders,
           RequestStop, Join, FreeContext, queueVars, history, sharedVars
    <3>4. CASE \/ Quit \/ \E ok \in BOOLEAN : HeaderDone(ok)
               \/ Tick \/ UNCHANGED vars \/ \E m \in Media : CapturerExit(m)
      BY <3>4 DEF Quit, HeaderDone, Tick, CapturerExit, vars, ownVars, queueVars,
                  history, sharedVars
    <3> QED
      BY <1>3, <3>1, <3>2, <3>3, <3>4
  <2> QED
    BY <2>1
<1> QED
  BY <1>1, <1>2, <1>3 DEF Next, CallDone
-----------------------------------------------------------------------------
(* The invariant. *)

(* It holds before anything is built.                                      *)
LEMMA InitIInv == Init => IInv
<1> SUFFICES ASSUME Init PROVE IInv
  OBVIOUS
<1>1. Control
  BY DEF Init, Control, Places, Encoders, QueueThere, Muxer, Preparing,
         Configuring, Running, Ending, Calls, Pushing, Media, Q!Media, Q!Init
<1>2. Packets
  <2>1. /\ queue = <<>> /\ ret = [c \in {"pusher"} |-> "none"]
        /\ wpc = "none" /\ hand = <<>> /\ live = 0 /\ lost = 0
    BY DEF Init, Q!Init
  <2>2. queue \in Seq(Q!Packet) /\ Len(queue) = 0 /\ Len(hand) = 0
    BY <2>1
  <2> QED
    BY <2>1, <2>2 DEF Packets, Accounted
<1>3. Leak
  BY DEF Init, Q!Init, Leak
<1> QED
  BY <1>1, <1>2, <1>3 DEF IInv

(* Every step of every thread keeps it.                                    *)
LEMMA NextIInv == IInv /\ [Next]_vars => IInv'
<1> SUFFICES ASSUME Control, Packets, Leak, [Next]_vars
             PROVE  Control' /\ Packets' /\ Leak'
  BY DEF IInv
<1>1. Control'
  BY BuildKeepsControl, TearDownKeepsControl, WorkerKeepsControl,
     OthersKeepControl DEF Next, Main, CallDone
<1>2. Packets'
  BY CaptureKeepsPackets, DropKeepsPackets, PopKeepsPackets, FreeKeepsPackets,
     OthersKeepPackets DEF Next, Worker, CallDone
<1> QED
  BY <1>1, <1>2, LeakNext

(* The program counters, the resources and the packets agree, always.      *)
THEOREM Invariance == SafeSpec => []IInv
<1> QED
  BY InitIInv, NextIInv, PTL DEF SafeSpec

(* ~PushWork and RtspPusher::DeInit free the encoders, the context and the *)
(* queue only when the threads that use them have been joined.             *)
THEOREM NothingUsedAfterFree == SafeSpec => []NoUseAfterFree
<1>1. IInv => NoUseAfterFree
  BY DEF IInv, Control, Places, Encoders, QueueThere, Muxer, Preparing,
         Configuring, Running, Ending, Calls, Pushing, Media, Q!Media,
         NoUseAfterFree
<1> QED
  BY <1>1, Invariance, PTL

(* On every way through loop() and Drop each packet is freed once, and     *)
(* what DeInit leaks is what it finds in the queue.                        *)
THEOREM PacketsAreConserved == SafeSpec => []PacketsConserved
<1>1. IInv => PacketsConserved
  <2> SUFFICES ASSUME IInv PROVE PacketsConserved
    OBVIOUS
  <2>1. live = Len(queue) + Len(hand) + lost /\ (~alive => leaked = Len(queue))
    BY DEF IInv, Packets, Accounted, Leak
  <2>2. Len(queue) \in Nat /\ Len(hand) \in Nat /\ lost \in Nat
    BY LenProperties DEF IInv, Packets
  <2> QED
    BY <2>1, <2>2 DEF PacketsConserved
<1> QED
  BY <1>1, Invariance, PTL

-----------------------------------------------------------------------------
(* decode_interrupt_cb measures the call in progress: whenever pre_time_   *)
(* is set a call begins, and a call begins only so.                        *)
THEOREM BudgetIsFull == SafeSpec => []FullBudget
<1>1. Init => FullBudget
  BY DEF Init, FullBudget, InCall
<1>2. FullBudget /\ [Next]_vars => FullBudget'
  <2> SUFFICES ASSUME FullBudget, [Next]_vars
               PROVE  FullBudget'
    OBVIOUS
  <2>1. CASE Tick
    BY <2>1 DEF Tick, FullBudget, InCall
  <2>2. CASE Connect \/ SendPacket \/ StartTrailer
    BY <2>2 DEF Connect, SendPacket, StartTrailer, StartCall, ResetTimeout, FullBudget
  <2>3. CASE ~Tick /\ ~Connect /\ ~SendPacket /\ ~StartTrailer
    <3>1. UNCHANGED <<elapsed, blocked>> /\ (InCall' => InCall)
      <4>1. CASE Main
        BY <2>3, <4>1 DEF Main, OpenEncoder, PrepareFrame, PusherInit,
           ConfigStream, StartCapturer, ReadNotice, StopCapturer, FreeEncoders,
           AbortQueue, RequestStop, Join, FreeContext, DeleteQueue, Goto,
           FailInit, timeVars, InCall
      <4>2. CASE Worker
        BY <2>3, <4>2 DEF Worker, LoopTop, CheckDuration, NotifyDuration, Drop,
           Pop, StopWithPacket, Then, timeVars, InCall
      <4>3. CASE ~Main /\ ~Worker
        BY <2>3, <4>3 DEF Next, Quit, PopExpire, PopWakeSpuriously, Capture,
           CaptureUndumped, CapturerExit, CallDone, HeaderDone, FrameDone,
           TrailerDone, Goto, FailInit, Then, timeVars, ownVars, vars, InCall
      <4> QED
        BY <4>1, <4>2, <4>3
    <3> QED
      BY <3>1 DEF FullBudget
  <2> QED
    BY <2>1, <2>2, <2>3
<1> QED
  BY <1>1, <1>2, PTL DEF SafeSpec

(* Frames are written between header and trailer and for configured        *)
(* streams only, and a context with its header is not freed without its    *)
(* trailer.                                                                *)
THEOREM MuxerIsUsedInOrder == SafeSpec => MuxerProtocol
<1> DEFINE InOrder ==
      /\ wpc' = "in_frame" => ctx = "header" /\ hand'[1].media \in streams
      /\ ctx = "header" => ctx' # "freed"
<1>1. IInv /\ IInv' /\ [Next]_vars => [InOrder]_vars
  <2> SUFFICES ASSUME IInv, IInv', [Next]_vars
               PROVE  InOrder
    OBVIOUS
  <2>1. ASSUME wpc' = "in_frame"
        PROVE  ctx = "header" /\ hand'[1].media \in streams
    <3>1. wpc \in {"got", "in_frame"}
      BY <2>1 DEF Next, Main, OpenEncoder, PrepareFrame, PusherInit, ConfigStream,
         Connect, StartCapturer, ReadNotice, StopCapturer, FreeEncoders,
         AbortQueue, RequestStop, Join, FreeContext, DeleteQueue, Quit, Worker,
         LoopTop, CheckDuration, NotifyDuration, Drop, Pop, StopWithPacket,
         SendPacket, StartTrailer, PopExpire, PopWakeSpuriously, Capture,
         CaptureUndumped, CapturerExit, CallDone, HeaderDone, FrameDone,
         TrailerDone, Tick, Then, vars, ownVars
    <3>2. ctx = "header" /\ streams = Media
      BY <3>1 DEF IInv, Control, Muxer, Pushing
    <3>3. hand'[1].media \in Media
      <4>1. PICK p \in Q!Packet : hand' = <<p>>
        BY <2>1 DEF IInv, Packets, Q!Packet
      <4> QED
        BY <4>1 DEF Q!Packet, Media
    <3> QED
      BY <3>2, <3>3
  <2>2. ASSUME ctx = "header"
        PROVE  ctx' # "freed"
    <3>1. CASE FreeContext
      BY <2>2, <3>1 DEF FreeContext, IInv, Control, Places, Muxer
    <3>2. CASE ~FreeContext
      BY <2>2, <3>2 DEF Next, Main, OpenEncoder, PrepareFrame, PusherInit,
         ConfigStream, Connect, StartCapturer, ReadNotice, StopCapturer,
         FreeEncoders, AbortQueue, RequestStop, Join, DeleteQueue, Quit, Worker,
         LoopTop, CheckDuration, NotifyDuration, Drop, Pop, StopWithPacket,
         SendPacket, StartTrailer, PopExpire, PopWakeSpuriously, Capture,
         CaptureUndumped, CapturerExit, CallDone, HeaderDone, FrameDone,
         TrailerDone, Tick, vars, ownVars
    <3> QED
      BY <3>1, <3>2
  <2> QED
    BY <2>1, <2>2
<1> QED
  BY <1>1, Invariance, PTL DEF SafeSpec, MuxerProtocol
-----------------------------------------------------------------------------
(* The pipeline uses its queue as PacketQueue allows.  (What the theorems  *)
(* of PacketQueueProofs say of every such use, they say of this one: the   *)
(* composition breaks no contract of its part.)                            *)
THEOREM QueueIsUsedAsAllowed == SafeSpec => Q!SafeSpec
<1>1. Init => Q!Init
  BY DEF Init
<1>2. [Next]_vars => [Q!Next]_(Q!queueVars)
  <2> SUFFICES ASSUME [Next]_vars
               PROVE  Q!Next \/ UNCHANGED Q!queueVars
    OBVIOUS
  <2>1. CASE AbortQueue
    <3>1. Q!Abort \/ UNCHANGED queueVars
      BY <2>1 DEF AbortQueue
    <3> QED
      BY <3>1 DEF Q!Next, queueVars, Q!queueVars, Q!dataVars, Q!ptsVars, Q!callVars
  <2>2. CASE \E m \in Media : Capture(m)
    BY <2>2 DEF Capture, Q!Next
  <2>3. CASE Pop \/ Drop \/ PopExpire \/ PopWakeSpuriously
    BY <2>3 DEF Pop, Drop, PopExpire, PopWakeSpuriously, Q!Next
  <2>4. CASE /\ ~AbortQueue /\ ~Pop /\ ~Drop /\ ~PopExpire /\ ~PopWakeSpuriously
             /\ ~\E m \in Media : Capture(m)
    <3>1. UNCHANGED queueVars
      BY <2>4 DEF Next, Main, OpenEncoder, PrepareFrame, PusherInit,
         ConfigStream, Connect, StartCapturer, ReadNotice, StopCapturer,
         FreeEncoders, RequestStop, Join, FreeContext, DeleteQueue, Quit, Worker,
         LoopTop, CheckDuration, NotifyDuration, StopWithPacket, SendPacket,
         StartTrailer, CaptureUndumped, CapturerExit, CallDone, HeaderDone,
         FrameDone, TrailerDone, Tick, vars
    <3> QED
      BY <3>1 DEF queueVars, Q!queueVars, Q!dataVars, Q!ptsVars, Q!callVars
  <2> QED
    BY <2>1, <2>2, <2>3, <2>4
<1> QED
  BY <1>1, <1>2, PTL DEF SafeSpec, Q!SafeSpec

-----------------------------------------------------------------------------
(* What PacketQueueProofs proves of such a queue. *)

QP == INSTANCE PacketQueueProofs WITH Consumers <- {"pusher"},
                                      RemainMax <- MaxQueueDuration

(* The constants of this queue are what it assumes.                        *)
LEMMA QueueAssumption == QP!PacketQueueAssumption
<1>1. IsFiniteSet({"pusher"})
  BY FS_Singleton
<1> QED
  BY <1>1, RtspPusherAssumption
  DEF QP!PacketQueueAssumption, QP!IsFiniteSet, IsFiniteSet, Media, Q!Media, QP!Media

(* Q and QP are the same module with the same constants, so that each      *)
(* definition of the one is that of the other: the state, ...              *)
LEMMA SameState ==
  /\ Q!Init <=> QP!Init
  /\ Q!TypeOK <=> QP!TypeOK
  /\ Q!PlausibleSteps <=> QP!PlausibleSteps
  /\ \A m : Q!FrameSteps(m) <=> QP!FrameSteps(m)
  /\ \A m : Q!StatsDuration(m) = QP!StatsDuration(m)
<1> QED
  BY DEF Q!Init, QP!Init, Q!ZeroStats, QP!ZeroStats, Q!TypeOK, QP!TypeOK,
        Q!Packet, QP!Packet, Q!Media, QP!Media, Q!PlausibleSteps,
        QP!PlausibleSteps, Q!FrameSteps, QP!FrameSteps, Q!StatsDuration,
        QP!StatsDuration, Q!Duration, QP!Duration, Q!Trusted, QP!Trusted

(* ... the push and the drop, ...                                          *)
LEMMA SamePush ==
  /\ Q!NextPackets = QP!NextPackets
  /\ \A p : Q!Push(p) <=> QP!Push(p)
<1>1. Q!NextPackets = QP!NextPackets
  BY DEF Q!NextPackets, QP!NextPackets, Q!Packet, QP!Packet, Q!Media, QP!Media
<1>2. \A p : Q!Push(p) <=> QP!Push(p)
  BY DEF Q!Push, QP!Push, Q!Accept, QP!Accept, Q!NotifyOne, QP!NotifyOne,
     Q!Waiting, QP!Waiting
<1> QED
  BY <1>1, <1>2

LEMMA SameDrop == \A c : Q!DropUntilKey(c) <=> QP!DropUntilKey(c)
<1> QED
  BY DEF Q!DropUntilKey, QP!DropUntilKey, Q!StopsAt, QP!StopsAt,
        Q!IsKeyVideo, QP!IsKeyVideo, Q!Duration, QP!Duration, Q!Trusted,
        QP!Trusted, Q!RemoveFront, QP!RemoveFront, Q!NbAfter, QP!NbAfter,
        Q!SizeAfter, QP!SizeAfter, Q!FrontAfter, QP!FrontAfter, Q!TakenOf,
        QP!TakenOf, Q!PositionsOf, QP!PositionsOf, Q!At, QP!At, Q!LastOf,
        QP!LastOf, Q!Bytes, QP!Bytes, Q!BytesOf, QP!BytesOf,
        Q!Cardinality, QP!Cardinality, Q!dataVars, QP!dataVars, Q!ptsVars,
        QP!ptsVars, Q!callVars, QP!callVars, Q!Media, QP!Media

(* ... and all its steps.                                                  *)
LEMMA SameNext == [Q!Next]_(Q!queueVars) <=> [QP!Next]_(QP!queueVars)
<1> QED
  BY DEF Q!Next, QP!Next, Q!queueVars, QP!queueVars, Q!NextPackets,
        QP!NextPackets, Q!Packet, QP!Packet, Q!Push, QP!Push, Q!Accept,
        QP!Accept, Q!NotifyOne, QP!NotifyOne, Q!Waiting, QP!Waiting,
        Q!PopStart, QP!PopStart, Q!PopResume, QP!PopResume, Q!Return,
        QP!Return, Q!ReturnAbort, QP!ReturnAbort, Q!ReturnPacket,
        QP!ReturnPacket, Q!BeginWait, QP!BeginWait, Q!Expire, QP!Expire,
        Q!WakeSpuriously, QP!WakeSpuriously, Q!DropAll, QP!DropAll,
        Q!Abort, QP!Abort, Q!NotifyAll, QP!NotifyAll, Q!DropUntilKey,
        QP!DropUntilKey, Q!StopsAt, QP!StopsAt, Q!IsKeyVideo,
        QP!IsKeyVideo, Q!Duration, QP!Duration, Q!Trusted, QP!Trusted,
        Q!RemoveFront, QP!RemoveFront, Q!NbAfter, QP!NbAfter, Q!SizeAfter,
        QP!SizeAfter, Q!FrontAfter, QP!FrontAfter, Q!TakenOf, QP!TakenOf,
        Q!PositionsOf, QP!PositionsOf, Q!At, QP!At, Q!LastOf, QP!LastOf,
        Q!Bytes, QP!Bytes, Q!BytesOf, QP!BytesOf, Q!Cardinality,
        QP!Cardinality, Q!dataVars, QP!dataVars, Q!ptsVars, QP!ptsVars,
        Q!callVars, QP!callVars, Q!Media, QP!Media

(* So its inductive invariant holds in the pipeline, ...                   *)
LEMMA QueueInvariance == SafeSpec => []QP!IInv
<1>1. Q!SafeSpec <=> QP!SafeSpec
  BY SameState, SameNext, PTL DEF Q!SafeSpec, QP!SafeSpec
<1> QED
  BY <1>1, QueueAssumption, QueueIsUsedAsAllowed, QP!Invariance, PTL

(* ... and the packets in it are spaced as the steps of their pts allow.   *)
LEMMA QueueSpaced == SafeSpec => []QP!Spaced
<1>1. Q!SafeSpec <=> QP!SafeSpec
  BY SameState, SameNext, PTL DEF Q!SafeSpec, QP!SafeSpec
<1>2. QP!SafeSpec => []QP!Spaced
  BY QueueAssumption, QP!SpacedAlways
<1> QED
  BY <1>1, <1>2, QueueIsUsedAsAllowed, PTL

(* The variables that Control and Packets do not speak of.                 *)
Types ==
  /\ audio_frame \in {"none", "partial", "ready", "freed"}
  /\ request_abort \in BOOLEAN /\ alive \in BOOLEAN /\ cut \in BOOLEAN
  /\ ctx \in {"none", "open", "header", "trailer", "freed"}
  /\ notices \subseteq {"MSG_RTSP_ERROR", "MSG_RTSP_QUEUE_DURATION"}
  /\ elapsed \in 0 .. Timeout + 1 /\ blocked \in 0 .. Timeout + 1
  /\ lost \in 0 .. MaxLost

LEMMA InitTypes == Init => Types
<1>1. 0 \in 0 .. Timeout + 1 /\ 0 \in 0 .. MaxLost
  BY RtspPusherAssumption
<1> QED
  BY <1>1 DEF Init, Types

LEMMA NextTypes == Types /\ [Next]_vars => Types'
<1> SUFFICES ASSUME Types, [Next]_vars PROVE Types'
  OBVIOUS
<1>0. 0 \in 0 .. Timeout + 1
  BY RtspPusherAssumption
<1> USE DEF Types
<1>1. CASE Main
  <2> USE DEF OpenEncoder, PrepareFrame, PusherInit, ConfigStream, Connect,
           StartCall, ResetTimeout, StartCapturer, ReadNotice, StopCapturer,
           FreeEncoders, AbortQueue, RequestStop, Join, FreeContext, DeleteQueue,
           sharedVars, setupVars, encodeVars, timeVars, history
  <2>1. CASE \/ OpenEncoder("audio", "audio_encoder", "video_encoder")
             \/ OpenEncoder("video", "video_encoder", "audio_frame")
             \/ PrepareFrame \/ PusherInit \/ Connect
    BY <1>0, <2>1
  <2>2. CASE \/ ConfigStream("video", "config_video", "config_audio")
             \/ ConfigStream("audio", "config_audio", "connect")
             \/ StartCapturer("audio", "start_audio", "start_video")
             \/ StartCapturer("video", "start_video", "run")
             \/ ReadNotice
    BY <2>2
  <2>3. CASE \/ StopCapturer("audio", "stop_audio", "stop_video")
             \/ StopCapturer("video", "stop_video", "free_encoders")
             \/ FreeEncoders
    BY <2>3
  <2>4. CASE AbortQueue \/ RequestStop \/ Join \/ FreeContext \/ DeleteQueue
    BY <2>4
  <2> QED
    BY <1>1, <2>1, <2>2, <2>3, <2>4 DEF Main
<1>2. CASE Worker
  <2> USE DEF sharedVars, setupVars, encodeVars, timeVars, history, StartCall,
              ResetTimeout, FreeHand
  <2>1. CASE Drop
    BY <2>1 DEF Drop
  <2>2. CASE Pop
    BY <2>2 DEF Pop
  <2>3. CASE ~Drop /\ ~Pop
    BY <1>0, <1>2, <2>3 DEF Worker, LoopTop, CheckDuration, NotifyDuration,
       StopWithPacket, SendPacket, StartTrailer
  <2> QED
    BY <2>1, <2>2, <2>3
<1>3. CASE \E m \in Media : Capture(m) \/ CaptureUndumped(m) \/ CapturerExit(m)
  <2>1. lost' \in 0 .. MaxLost
    BY <1>3, RtspPusherAssumption DEF Capture, CaptureUndumped, CapturerExit, history
  <2> QED
    BY <1>3, <2>1 DEF Capture, CaptureUndumped, CapturerExit, sharedVars, setupVars,
       encodeVars, timeVars, history
<1>4. CASE \E ok \in BOOLEAN : CallDone(ok)
  BY <1>4 DEF CallDone, HeaderDone, FrameDone, TrailerDone, FreeHand, sharedVars,
     setupVars, encodeVars, timeVars, history
<1>5. CASE Tick
  <2>1. elapsed' \in 0 .. Timeout + 1 /\ blocked' \in 0 .. Timeout + 1
    BY <1>5, RtspPusherAssumption DEF Tick
  <2> QED
    BY <1>5, <2>1 DEF Tick, sharedVars, setupVars, encodeVars, history
<1>6. CASE Quit \/ PopExpire \/ PopWakeSpuriously \/ UNCHANGED vars
  BY <1>6 DEF Quit, PopExpire, PopWakeSpuriously, vars, ownVars, sharedVars,
     setupVars, encodeVars, timeVars, history
<1> QED
  BY <1>1, <1>2, <1>3, <1>4, <1>5, <1>6 DEF Next

(* What is leaked is counted once, when the queue is deleted.              *)
LEMMA LeakedIsNat == SafeSpec => [](leaked \in Nat)
<1>1. Init => leaked \in Nat
  BY DEF Init
<1>2. IInv /\ leaked \in Nat /\ [Next]_vars => (leaked \in Nat)'
  <2> SUFFICES ASSUME IInv, leaked \in Nat, [Next]_vars PROVE leaked' \in Nat
    OBVIOUS
  <2>1. Len(queue) \in Nat
    BY LenProperties DEF IInv, Packets
  <2>2. leaked' \in {leaked, Len(queue)}
    BY DEF Next, Main, OpenEncoder, PrepareFrame, PusherInit, ConfigStream,
       Connect, StartCapturer, ReadNotice, StopCapturer, FreeEncoders,
       AbortQueue, RequestStop, Join, FreeContext, DeleteQueue, Quit, Worker,
       LoopTop, CheckDuration, NotifyDuration, Drop, Pop, StopWithPacket, SendPacket,
       StartTrailer, PopExpire, PopWakeSpuriously, Capture, CaptureUndumped,
       CapturerExit, CallDone, HeaderDone, FrameDone, TrailerDone, Tick, vars,
       ownVars, history
  <2> QED
    BY <2>1, <2>2
<1> QED
  BY <1>1, <1>2, Invariance, PTL DEF SafeSpec

(* Every variable has its type: no packet is freed that was not allocated, *)
(* and no counter of the queue runs below zero.                            *)
THEOREM TypeCorrect == SafeSpec => []TypeOK
<1>1. QP!IInv => Q!TypeOK
  BY SameState DEF QP!IInv
<1>2. IInv => live \in Nat
  <2> SUFFICES ASSUME IInv PROVE live \in Nat
    OBVIOUS
  <2>1. Len(queue) \in Nat /\ Len(hand) \in Nat
    BY LenProperties DEF IInv, Packets
  <2> QED
    BY <2>1 DEF IInv, Packets, Accounted
<1>3. IInv /\ QP!IInv /\ Types /\ leaked \in Nat => TypeOK
  BY <1>1, <1>2 DEF TypeOK, Types, IInv, Control, Places, Encoders, Muxer, Packets,
     Preparing, Configuring, Running, Ending
<1> QED
  BY <1>3, InitTypes, NextTypes, LeakedIsNat, Invariance, QueueInvariance, PTL
     DEF SafeSpec

(* From the look at the durations to the drop.                             *)
DropPending == wpc \in {"notify", "drop"} => Over

LEMMA NextDropPending ==
  ASSUME Q!PlausibleSteps
  PROVE  QP!IInv /\ QP!Spaced /\ DropPending /\ [Next]_vars => DropPending'
<1> SUFFICES ASSUME QP!IInv, QP!Spaced, DropPending, [Next]_vars,
                    wpc' \in {"notify", "drop"}
             PROVE  Over'
  BY DEF DropPending
<1>1. CASE \E m \in Media : Capture(m)
  <2>1. PICK m \in Media : Capture(m)
    BY <1>1
  <2>2. PICK p \in QP!NextPackets : QP!Push(p)
    BY <2>1, SamePush DEF Capture
  <2>3. PICK over \in Media : Q!StatsDuration(over) > MaxQueueDuration
    BY <2>1 DEF Capture, DropPending, Over
  <2>4. over \in QP!Media /\ MaxQueueDuration \in Int
    BY RtspPusherAssumption DEF Media, Q!Media, QP!Media
  <2>5. QP!StatsDuration(over) > MaxQueueDuration
    BY <2>3, SameState
  <2>6. QP!PlausibleSteps
    BY SameState
  <2>7. QP!StatsDuration(over)' > MaxQueueDuration
    BY <2>2, <2>4, <2>5, <2>6, QueueAssumption, QP!PushNeverShortens
  <2>8. Q!StatsDuration(over)' = QP!StatsDuration(over)'
    BY DEF Q!StatsDuration, QP!StatsDuration, Q!Duration, QP!Duration, Q!Trusted,
       QP!Trusted
  <2> QED
    BY <2>7, <2>8 DEF Over
<1>2. CASE CheckDuration
  <2>1. Over /\ UNCHANGED queueVars
    BY <1>2 DEF CheckDuration, Then
  <2> QED
    BY <2>1 DEF Over, queueVars, Q!StatsDuration, Q!Duration, Q!Trusted
<1>3. CASE ~CheckDuration /\ ~\E m \in Media : Capture(m)
  <2>1. wpc \in {"notify", "drop"} /\ UNCHANGED <<stats, front_pts, back_pts>>
    <3>1. CASE Main
      BY <1>3, <3>1 DEF Main, OpenEncoder, PrepareFrame, PusherInit, ConfigStream,
         Connect, StartCapturer, ReadNotice, StopCapturer, FreeEncoders, AbortQueue,
         Q!Abort, Q!dataVars, Q!ptsVars, RequestStop, Join, FreeContext, DeleteQueue,
         queueVars
    <3>2. CASE Worker
      BY <1>3, <3>2 DEF Worker, LoopTop, NotifyDuration, Drop, Pop, StopWithPacket,
         SendPacket, StartTrailer, Then, queueVars
    <3>3. CASE PopExpire \/ PopWakeSpuriously
      BY <3>3 DEF PopExpire, PopWakeSpuriously, Q!Expire, Q!WakeSpuriously,
         Q!dataVars, Q!ptsVars, ownVars
    <3>4. CASE \E ok \in BOOLEAN : CallDone(ok)
      BY <3>4 DEF CallDone, HeaderDone, FrameDone, TrailerDone, Then, queueVars
    <3>5. CASE \/ Quit \/ Tick \/ UNCHANGED vars
               \/ \E m \in Media : CaptureUndumped(m) \/ CapturerExit(m)
      BY <3>5 DEF Quit, Tick, CaptureUndumped, CapturerExit, vars, ownVars, queueVars
    <3> QED
      BY <1>3, <3>1, <3>2, <3>3, <3>4, <3>5 DEF Next
  <2> QED
    BY <2>1 DEF DropPending, Over, Q!StatsDuration, Q!Duration, Q!Trusted
<1> QED
  BY <1>1, <1>2, <1>3

(* checkPacketQueueDuration acts on a reading of GetStats made before the  *)
(* mutex was released; while no pts goes back, or on by more than two      *)
(* frames, it is still right: only pushes can come between, and none makes *)
(* the queue shorter.                                                      *)
THEOREM DropIsStillDue ==
  ASSUME Q!PlausibleSteps
  PROVE  SafeSpec => []DropStillDue
<1>1. Init => DropPending
  BY DEF Init, DropPending
<1>2. DropPending => DropStillDue
  BY DEF DropPending, DropStillDue, Over
<1> QED
  BY <1>1, <1>2, NextDropPending, QueueInvariance, QueueSpaced, PTL DEF SafeSpec

(* ... and it does what it is called for: no more than max_queue_duration_ *)
(* of video is left, but for a frame, if no two video packets are closer   *)
(* than a frame.                                                           *)
THEOREM DropRetainsLittle ==
  ASSUME Q!FrameSteps("video")
  PROVE  SafeSpec => VideoRetainedWithinMax
<1> DEFINE Little == wpc = "drop" /\ wpc' = "pop" =>
                       FrameDuration["video"] * stats'["video"].nb
                         <= MaxQueueDuration + FrameDuration["video"]
<1>1. QP!IInv /\ QP!Spaced /\ [Next]_vars => [Little]_vars
  <2> SUFFICES ASSUME QP!IInv, QP!Spaced, Next, wpc = "drop", wpc' = "pop"
               PROVE  FrameDuration["video"] * stats'["video"].nb
                        <= MaxQueueDuration + FrameDuration["video"]
    OBVIOUS
  <2>1. Drop
    BY DEF Next, Main, OpenEncoder, PrepareFrame, PusherInit, ConfigStream, Connect,
       StartCapturer, ReadNotice, StopCapturer, FreeEncoders, AbortQueue, RequestStop,
       Join, FreeContext, DeleteQueue, Quit, Worker, LoopTop, CheckDuration,
       NotifyDuration, Pop, StopWithPacket, SendPacket, StartTrailer, PopExpire,
       PopWakeSpuriously, Capture, CaptureUndumped, CapturerExit, CallDone,
       HeaderDone, FrameDone, TrailerDone, Tick, Then, ownVars
  <2>2. QP!DropUntilKey("pusher") /\ QP!FrameSteps("video")
    BY <2>1, SameDrop, SameState DEF Drop
  <2> QED
    BY <2>2, QueueAssumption, QP!DropShortens
<1> QED
  BY <1>1, QueueInvariance, QueueSpaced, PTL DEF SafeSpec, VideoRetainedWithinMax

-----------------------------------------------------------------------------
(* The pipeline takes the steps of Pipeline. *)

(* Where main is, seen from outside.                                       *)
LEMMA Phases ==
  /\ mpc \in Preparing \cup Configuring => Phase = "building"
  /\ mpc \in Running => Phase = "live"
  /\ mpc \in {"stop_audio", "stop_video"} => Phase = "stopping"
  /\ mpc \in {"free_encoders"} \cup (Ending \ {"done"}) => Phase = "draining"
  /\ mpc = "done" => Phase = "closed"
<1> QED
  BY DEF Phase, Preparing, Configuring, Running, Ending

(* While the pusher thread runs the pipeline is neither building nor       *)
(* closed, ...                                                             *)
LEMMA PushingPhases ==
  ASSUME IInv, Pushing
  PROVE  Phase \in {"live", "stopping", "draining"} /\ mpc # "done"
<1> QED
  BY Phases DEF IInv, Control, Places, Pushing, Preparing, Configuring, Ending

(* ... and while a capturer can call back it is open.                      *)
LEMMA CallingPhases ==
  ASSUME IInv, NEW m \in Media, Calls(m)
  PROVE  Phase \in {"live", "stopping"} /\ mpc # "done"
<1>1. mpc \in Running \cup {"stop_audio", "stop_video"}
  BY DEF IInv, Control, Places, Encoders, Media, Q!Media, Ending
<1> QED
  BY <1>1, Phases DEF Running

(* A step that leaves main where it is and the packets where they are is   *)
(* not seen.                                                               *)
LEMMA Unseen ==
  ASSUME UNCHANGED <<mpc, queue, hand>>
  PROVE  UNCHANGED Pipe!pipeVars
<1> QED
  BY DEF Pipe!pipeVars, Phase

(* The steps of main: opening, stopping, sealing and closing.              *)
LEMMA MainImplements ==
  ASSUME IInv, Main \/ Quit \/ \E ok \in BOOLEAN : HeaderDone(ok)
  PROVE  Pipe!Next \/ UNCHANGED Pipe!pipeVars
<1>0. UNCHANGED <<queue, hand>>
  BY DEF Main, OpenEncoder, PrepareFrame, PusherInit, ConfigStream, Connect,
     StartCapturer, ReadNotice, StopCapturer, FreeEncoders, AbortQueue, Q!Abort,
     Q!dataVars, RequestStop, Join, FreeContext, DeleteQueue, Quit, HeaderDone,
     queueVars
<1>p. /\ mpc' \in Preparing \cup Configuring => Phase' = "building"
      /\ mpc' \in Running => Phase' = "live"
      /\ mpc' \in {"stop_audio", "stop_video"} => Phase' = "stopping"
      /\ mpc' \in {"free_encoders"} \cup (Ending \ {"done"}) => Phase' = "draining"
      /\ mpc' = "done" => Phase' = "closed"
  BY DEF Phase, Preparing, Configuring, Running, Ending
<1>1. CASE Phase' = Phase /\ mpc # "done" /\ mpc' # "done"
  BY <1>0, <1>1 DEF Pipe!pipeVars
<1>2. CASE Phase = "building" /\ Phase' = "live" /\ mpc # "done" /\ mpc' # "done"
  BY <1>0, <1>2 DEF Pipe!Open, Pipe!Next
<1>3. CASE /\ Phase \in {"building", "live"} /\ Phase' = "stopping"
           /\ mpc # "done" /\ mpc' # "done"
  BY <1>0, <1>3 DEF Pipe!Stop, Pipe!Next
<1>4. CASE Phase = "stopping" /\ Phase' = "draining" /\ mpc # "done" /\ mpc' # "done"
  BY <1>0, <1>4 DEF Pipe!Seal, Pipe!Next
<1>5. CASE mpc \in {"free_encoders", "delete_queue"} /\ mpc' = "done"
  <2>1. hand = <<>>
    <3>1. IInv'
      BY NextIInv DEF Next, CallDone
    <3>2. hand' = <<>>
      BY <1>5, <3>1 DEF IInv, Control, Places, Packets, Pushing
    <3> QED
      BY <1>0, <3>2
  <2>2. Phase = "draining" /\ Phase' = "closed" /\ mpc # "done"
    BY <1>5, <1>p, Phases DEF Ending
  <2> QED
    BY <1>0, <1>5, <2>1, <2>2 DEF Pipe!Close, Pipe!Next
<1>6. \/ /\ mpc # "done" /\ mpc' # "done"
         /\ \/ Phase' = Phase
            \/ Phase = "building" /\ Phase' = "live"
            \/ Phase \in {"building", "live"} /\ Phase' = "stopping"
            \/ Phase = "stopping" /\ Phase' = "draining"
      \/ mpc \in {"free_encoders", "delete_queue"} /\ mpc' = "done"
  <2> USE <1>p, Phases DEF Preparing, Configuring, Running, Ending, Goto, FailInit
  <2>1. CASE \/ OpenEncoder("audio", "audio_encoder", "video_encoder")
             \/ OpenEncoder("video", "video_encoder", "audio_frame")
             \/ PrepareFrame \/ PusherInit
    BY <2>1 DEF OpenEncoder, PrepareFrame, PusherInit
  <2>2. CASE \/ ConfigStream("video", "config_video", "config_audio")
             \/ ConfigStream("audio", "config_audio", "connect")
             \/ Connect \/ \E ok \in BOOLEAN : HeaderDone(ok)
    BY <2>2 DEF ConfigStream, Connect, HeaderDone
  <2>3. CASE \/ StartCapturer("audio", "start_audio", "start_video")
             \/ StartCapturer("video", "start_video", "run")
             \/ ReadNotice \/ Quit
    BY <2>3 DEF StartCapturer, ReadNotice, Quit
  <2>4. CASE \/ StopCapturer("audio", "stop_audio", "stop_video")
             \/ StopCapturer("video", "stop_video", "free_encoders")
             \/ FreeEncoders
    BY <2>4 DEF StopCapturer, FreeEncoders
  <2>5. CASE AbortQueue \/ RequestStop \/ Join \/ FreeContext \/ DeleteQueue
    BY <2>5 DEF AbortQueue, RequestStop, Join, FreeContext, DeleteQueue
  <2> QED
    BY <2>1, <2>2, <2>3, <2>4, <2>5 DEF Main
<1> QED
  BY <1>1, <1>2, <1>3, <1>4, <1>5, <1>6
(* Each step of the pusher thread, of a callback and of time: a packet is  *)
(* taken, finished, given up or accepted, or nothing is seen.              *)
LEMMA PopImplements ==
  ASSUME IInv, Pop
  PROVE  Pipe!Next \/ UNCHANGED Pipe!pipeVars
<1>1. /\ wpc = "pop" /\ hand = <<>> /\ mpc' = mpc /\ queue \in Seq(Q!Packet)
      /\ ret \in [{"pusher"} -> {"none", "packet", "empty", "abort"}]
  BY DEF Pop, IInv, Packets
<1>2. \/ /\ ret'["pusher"] = "packet" /\ queue # <<>>
         /\ queue' = SubSeq(queue, 2, Len(queue))
      \/ ret'["pusher"] # "packet" /\ queue' = queue
  BY PopEffect DEF Pop, IInv
<1>3. CASE ret'["pusher"] = "packet"
  <2>1. hand' = <<Head(queue)>> /\ queue # <<>>
    BY <1>2, <1>3 DEF Pop
  <2>2. queue' = Tail(queue)
    BY <1>1, <1>2, <1>3, TailIsSubSeq
  <2>3. Phase \in {"live", "stopping", "draining"} /\ mpc # "done" /\ Phase' = Phase
    BY <1>1, PushingPhases DEF Pushing, Phase
  <2>4. Pipe!Take
    BY <1>1, <2>1, <2>2, <2>3 DEF Pipe!Take
  <2> QED
    BY <2>4 DEF Pipe!Next
<1>4. CASE ret'["pusher"] # "packet"
  BY <1>1, <1>2, <1>4, Unseen DEF Pop
<1> QED
  BY <1>3, <1>4

(* A drop gives up what it takes.                                          *)
LEMMA DropImplements ==
  ASSUME IInv, Drop
  PROVE  Pipe!Next \/ UNCHANGED Pipe!pipeVars
<1>1. wpc = "drop" /\ UNCHANGED <<mpc, hand>> /\ queue \in Seq(Q!Packet)
  BY DEF Drop, IInv, Packets
<1>2. PICK k \in 0 .. Len(queue) :
        /\ queue' = SubSeq(queue, k + 1, Len(queue))
        /\ k < Len(queue) => Q!IsKeyVideo(queue[k + 1])
  BY DropEffect DEF Drop, IInv
<1>3. Len(queue) \in Nat
  BY <1>1, LenProperties
<1>4. CASE k = 0
  <2>1. queue' = queue
    BY <1>1, <1>2, <1>4, SubSeqFull
  <2> QED
    BY <1>1, <2>1, Unseen
<1>5. CASE k # 0
  <2>1. k \in 1 .. Len(queue)
    BY <1>3, <1>5
  <2>2. Phase \in {"live", "stopping", "draining"} /\ mpc # "done" /\ Phase' = Phase
    BY <1>1, PushingPhases DEF Pushing, Phase
  <2>3. k < Len(queue) => Pipe!IsKeyVideo(queue[k + 1])
    BY <1>2 DEF Q!IsKeyVideo, Pipe!IsKeyVideo
  <2>4. Pipe!GiveUp
    BY <1>1, <1>2, <2>1, <2>2, <2>3 DEF Pipe!GiveUp
  <2> QED
    BY <2>4 DEF Pipe!Next
<1> QED
  BY <1>4, <1>5

(* Every step of the threads is a step of the pipeline, or none.           *)
LEMMA NextImplements == IInv /\ [Next]_vars => [Pipe!Next]_(Pipe!pipeVars)
<1> SUFFICES ASSUME IInv, [Next]_vars
             PROVE  Pipe!Next \/ UNCHANGED Pipe!pipeVars
  OBVIOUS
<1>1. CASE \/ Main \/ Quit \/ \E ok \in BOOLEAN : HeaderDone(ok)
  BY <1>1, MainImplements
<1>2. CASE Pop \/ Drop
  BY <1>2, PopImplements, DropImplements
<1>3. CASE StopWithPacket \/ \E ok \in BOOLEAN : FrameDone(ok)
  <2>1. /\ wpc \in {"got", "in_frame"} /\ hand' = <<>> /\ UNCHANGED <<mpc, queue>>
    BY <1>3 DEF StopWithPacket, FrameDone, FreeHand, queueVars
  <2>2. hand # <<>>
    <3>1. PICK p \in Q!Packet : hand = <<p>>
      BY <2>1 DEF IInv, Packets
    <3> QED
      BY <3>1
  <2>3. Phase' = Phase
    BY <2>1 DEF Phase
  <2>4. Pipe!Finish
    BY <2>1, <2>2, <2>3 DEF Pipe!Finish
  <2> QED
    BY <2>4 DEF Pipe!Next
<1>4. CASE \E m \in Media : Capture(m)
  <2>1. PICK m \in Media : Capture(m)
    BY <1>4
  <2>2. PICK p \in Q!NextPackets : Q!Push(p)
    BY <2>1 DEF Capture
  <2>3. p \in Q!Packet /\ queue' = Append(queue, p)
    BY <2>2, PushEffect DEF IInv
  <2>4. UNCHANGED <<mpc, hand>>
    BY <2>1 DEF Capture
  <2>5. Phase \in {"live", "stopping"} /\ mpc # "done" /\ Phase' = Phase
    BY <2>1, <2>4, CallingPhases DEF Capture, Calls, Phase
  <2>6. Pipe!Accept
    BY <2>3, <2>4, <2>5 DEF Pipe!Accept
  <2> QED
    BY <2>6 DEF Pipe!Next
<1>5. CASE \/ LoopTop \/ CheckDuration \/ NotifyDuration \/ SendPacket \/ StartTrailer
           \/ \E ok \in BOOLEAN : TrailerDone(ok)
           \/ \E m \in Media : CaptureUndumped(m) \/ CapturerExit(m)
           \/ PopExpire \/ PopWakeSpuriously \/ Tick \/ UNCHANGED vars
  <2>1. UNCHANGED <<mpc, queue, hand>>
    <3>1. CASE PopExpire \/ PopWakeSpuriously
      BY <3>1 DEF PopExpire, PopWakeSpuriously, Q!Expire, Q!WakeSpuriously,
         Q!dataVars, ownVars
    <3>2. CASE ~PopExpire /\ ~PopWakeSpuriously
      BY <1>5, <3>2 DEF LoopTop, CheckDuration, NotifyDuration, SendPacket,
         StartTrailer, TrailerDone, CaptureUndumped, CapturerExit, Tick, vars,
         ownVars, queueVars
    <3> QED
      BY <3>1, <3>2
  <2> QED
    BY <2>1, Unseen
<1> QED
  BY <1>1, <1>2, <1>3, <1>4, <1>5 DEF Next, Worker, CallDone

(* Threads, locks, flags and joins hide behind a pipeline in which packets *)
(* leave one at a time and in order, none enters after the source has      *)
(* stopped, and which closes with nothing on its way out.                  *)
THEOREM TakesPipelineSteps == SafeSpec => Pipe!SafeSpec
<1>1. Init => Pipe!Init
  BY DEF Init, Q!Init, Pipe!Init, Phase
<1> QED
  BY <1>1, NextImplements, Invariance, PTL DEF SafeSpec, Pipe!SafeSpec
==============================================================================
