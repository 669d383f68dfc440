# rtsp-pusher: TLA+ models and proofs

rtsp-pusher reads raw audio and video from files at the pace of a live device,
encodes them, and pushes them to an RTSP server through FFmpeg.  Two capturer
threads produce packets, one pusher thread sends them, main builds the pipeline
and reads notices.  What is hard about it is what happens between these threads
when the server is slow, gone, or when the pipeline is taken down, and what adds
up over a long session: durations, time stamps, counters.

## Inventory

| component | source | state | operations | interacts with |
|---|---|---|---|---|
| Packet queue | `pushWork/pusher/packet_queue.h` | `queue_`, counters, bytes, pts window per media, `abort_request_`, `cond_` | Push, Pop, PopWithTimeout, Drop, Abort, GetStats, Get\*Duration, Get\*Packets, Empty | capturers push; pusher pops, drops, reads stats; DeInit aborts and deletes |
| RTSP pusher | `pushWork/pusher/rtsp_pusher.cpp` | `ofmt_ctx_`, streams, `queue_`, `pre_time_`, `timeout_` | Init, Config\*Stream, Connect, loop, sendPacket, checkPacketQueueDuration, IsTimeout (called back by FFmpeg), DeInit | packet queue, message queue, FFmpeg |
| Thread base class | `pushWork/common_looper.cpp` | `worker_`, `request_abort_` | startThread, trampoline, stopThread, destructor | base of the pusher and of both capturers |
| Capturers | `pushWork/capturer/*` | frame buffer, file, start of the loop, total duration read | Init, loop, read, close, destructor | call back PushWork for each frame |
| Encoders | `pushWork/encoder/*` | codec context with the frames it holds back, sps and pps | Init, Encode, GetAdtsHeader, destructor | called by the callbacks; the pusher configures its streams from their contexts |
| Pipeline | `pushWork/push_work.cpp` | the objects above, `fltp_buf_`, `audio_frame_`, dump files | Init, PcmCallback, YuvCallback, DeInit (never called), destructor | owns everything |
| Message queue | `tools/msg_queue.h` | list of messages, `abort_request_`, `cond_` | put, get, remove, flush, abort, notify_msg1 to 4 | pusher puts, main gets |
| Publish time | `tools/avpublish_time.h` | start time, last pts per media | get_audio_pts, get_video_pts | called by the callbacks |
| Properties | `pushWork/media_base.h` | a map of strings | SetProperty, GetProperty | filled in by main and PushWork, read by every Init |
| Clock utility | `tools/times_util.h` | | getCurrentTimeMsec | capturers, publish time, IsTimeout |
| Log | `log/log.cpp` | log file, level, `mtx` | init_logger, write_log | called by every thread |
| Main | `main.cpp` | | sets Properties, Init, message loop, tear-down | PushWork, message queue, log |

What makes each of them correct:

- *Packet queue*: no wake-up lost, abort releases everybody, the counters and the
  pts window agree with the queue, packets in order and once, a drop leaves a key
  frame in front.
- *Pusher*: nothing used after it is freed, FFmpeg called in its order, every packet
  freed once, no call interrupted before its time, every blocked call interrupted
  in time, the backlog bounded.
- *Threads and capturers*: a stop is never lost, the worker uses nothing released,
  and once told to stop hands on one frame at most.
- *Encoders and callbacks*: no frame is lost but by a call that failed, no packet is
  left in a codec, the dumps contain what was pushed.
- *Pipeline and Properties*: the buffer sizes and frame durations that several
  components compute for themselves fit each other.
- *Message queue*: no wake-up lost, objects freed once, a timed get returns.
- *Publish time*: no drift from the clock, pts that increase.
- *Log*: every line once and in order, a time stamp that is as true as its format allows.

PROJECT.json lists the hazards at their lines with the properties that cover them.

## Modules

| module | models | checked by | proved in |
|---|---|---|---|
| `PacketChannel` | what the packet queue promises: a closable FIFO with blocking callers | as a property of `PacketQueue` | `PacketQueueProofs` |
| `PacketQueue` | `packet_queue.h` | `pq_*` | `PacketQueueProofs` |
| `MessageChannel` | what the message queue promises: a FIFO that answers callers with a deadline | as a property of `MessageQueue` | `MessageQueueProofs` (safety) |
| `MessageQueue` | `msg_queue.h` | `mq_calls` | `MessageQueueProofs` |
| `Pipeline` | what the whole promises: ordered, one packet out at a time, stops and closes | as a property of `RtspPusher` | `RtspPusherProofs` (safety) |
| `RtspPusher` | composition: main, pusher thread, callbacks, FFmpeg, over `Q == INSTANCE PacketQueue` | `pusher_*` | `RtspPusherProofs` |
| `CapturerThread` | a capturer object, its owner and its thread | `cap_*` | `CapturerThreadProofs` |
| `PublishTime` | the pts of both media | `live_source` | `LiveSourceProofs` |
| `LiveSource` | composition: the capturers' pacing and the publish time | `live_source` | `LiveSourceProofs` |
| `Configuration` | Properties from main through PushWork::Init to the components | `encoding` | `EncodingProofs` |
| `Encoding` | composition: frames through encoders and callbacks, in a configured pipeline | `encoding` | `EncodingProofs`, `FrameProofs` |
| `Log` | `log.cpp` | `log` | `LogProofs` |

The `MC*` modules give constants their values.  Operators introduced by "Defect for
the mutation runs" are not part of any model: each is a plausible slip in the code
(a counter decremented once per call, a forgotten flag, a join left out) with which
one of the properties must fail.

### PacketQueue

Every method body runs under `mutex_`, so a method is one action; a pop that sleeps
on `cond_` is cut into the step that enters the wait (`BeginWait`), the step that
ends it (`NotifyOne` or `NotifyAll` of another action, `Expire`, `WakeSpuriously`)
and the step in which the thread has the mutex again (`PopResume`).  A notification
moves a thread from `waiting` to `notified`; the mutex and the predicate are looked
at later, when other threads may have taken the packet.  `RemoveFront(k)` is the
bookkeeping that Pop, PopWithTimeout and Drop each spell out: k packets taken one
after the other.  The front of the pts window becomes the pts of the packet that was
taken, not of the one that is now first, as in the code.  `Drop(false, max)` is the
loop cut short at the first position where it stops (`StopsAt`).

`pts` are integers from a set `Pts`; they move by `PtsSteps`, which may go back and
jump.  Frame durations are integers: `push_work.cpp:162,165` computes them in
integer arithmetic (21 and 40), so the doubles of the code hold whole numbers.

### MessageQueue

Cut into steps like PacketQueue.  `Remove` and its like leave the `Subsequence` of the
queue at the positions that are not withdrawn: one step for the loop of
`msg_queue_remove`, which starts over after each message and holds `mutex_` all along.  `forever`, `timed` and `poll` are the three kinds
of timeout of `msg_queue_get`.  Objects attached to messages are counted:
`allocated`, `freed` by the queue, `handed` to a getter.  `MessageChannel` is what the
queue can promise although `msg_queue_abort` wakes nobody: a getter with a deadline is
answered in any case, one without a deadline is owed a message only.

### RtspPusher

Two program counters: `mpc` follows `PushWork::Init` from the first encoder on, the
message loop, and `~PushWork`; `wpc` follows `RtspPusher::loop`.  Each lock region,
each flag read and each FFmpeg call is a step; a call of FFmpeg has a start and a
result, and time (`Tick`) passes in between.  `Interrupt` is `decode_interrupt_cb`
returning 1.  `encoder` and `audio_frame` say whether the encoders, `fltp_buf_` and
`audio_frame_` exist, are usable, or have been freed by `~PushWork` (`FreeEncoders`,
between the joins of the capturers and the end of the pusher); every step of Init may
fail, with what it had allocated by then.  The capturer threads are reduced to their
callbacks (`Capture`) and may go on until they are joined.  `notices` is the set of
message types main has not read: which, not how many.  `elapsed` stops counting one
tick past the timeout.  The history variables `blocked`, `live`, `lost`, `leaked` and
`cut` are read by no guard, except that `lost` is bounded and that a callback that has returned
early explains a first video packet pushed that is not a key frame.

`MainQuits` says whether main leaves its loop, which the code has commented out
(`main.cpp:107-110`); `FALSE` is the shipped program, in which only a failing Init
takes the pipeline down.  The runs use `TRUE`, whose behaviours include all of the
other's.  `CaptureUndumped` is a callback that cannot open its dump file (or, for
audio, build the ADTS header): it returns before the push and the packet stays
allocated.  `lost` counts these, up to the bound `MaxLost`.  DeInit deletes the queue
with the packets still in it and frees none of them: `leaked` is how many there were.
PacketsConserved says that every packet allocated is in a hand or in the queue while
there is one, or else among these two.

`Pipe == INSTANCE Pipeline` maps main's place to a phase (`building`, `live`,
`stopping`, `draining`, `closed`), the queue to the backlog and the packet in the
pusher's hand to the one that is out.

### CapturerThread

`opc` is the owner (Init, startThread, stopThread, the parts of the destructor in
the order C++ runs them), `wpc` the worker (trampoline, loop, read, callback, and
the exit path that clears the flag and closes the file).  `ReadFrame` and `Rewind` are the
reading of the file: an `fread` from `pos` returns a frame or, at the end of the file
or when it fails, a part of one; then a second one is tried from the beginning, and if
that is short as well there is no frame this time.  Whether a frame is due depends on
the clock of the day, which is LiveSource's: here it is left open (`NotDue`), so that
all that is shown holds for any pacing.  `late` remembers that a frame was handed on
after stopThread had set the flag; StopIsPrompt says that no second one follows.
Undefined behaviour is
recorded in `misuse` and the behaviour ends there.  `StopFirst` selects
`PushWork::DeInit` or `~PushWork`.  RtspPusher assumes that a capturer that is
deleted does get joined, which is what happens if the undefined behaviour found here
stays without effect.

### PublishTime and LiveSource

`pre_pts` is kept in units of 1/Scale ms, so that the audio frame of 21 1/3 ms is an
integer; `Whole` is the conversion to integer milliseconds, `% Wrap` the reduction
by 0xffffffff.  The clock is the time of day: it passes by any of `Gaps` and may be
set back by any of `Backs` (`SetBack`), though not before the start of the pipeline.
No two calls for one media are 2^32 ms apart, so the conversion of the difference to
`uint32_t` loses nothing.

`LiveSource` adds the capturers' half: `Begin` is the entry of `loop()`, `ReadFrame` is
`readPcmFile` or `readYuvFile` once a frame is due, `Stamp` is the callback as far as
the pts.  The two read the clock apart, with a sleep, an encoder and a push in
between, so a frame is late by any amount and frames come in bursts after a stall.
The histories `prompt` and `timely` say that no frame so far got its pts a whole, or half
a frame late against the time at which it was due; `corrected` counts the frames that
were not given their predecessor's pts plus one frame.  A clock set back makes the
capturer wait; a frame in hand that it puts before its due time ends both histories.
`Abandon` is the way on which PcmCallback leaves before it asks for a pts; the frame
after it is two frames from the last pts, so that `corrected` begins anew.

### Configuration and Encoding

`Configuration` is `PushWork::Init` as far as values are concerned: main sets some
Properties (`Choose`, `SetOwn`), PushWork reads them with its defaults (`Members`), and
each component keeps what it is handed, under the names it reads, with its own
defaults (`part`).  Integers pass through `to_string` and `atoi` unchanged; paths and
the url are left out.

`Encoding` continues where Init succeeds.  A callback is one step: the two run on
threads of their own and share only the pusher's queue.  A codec is external: it
holds back up to `Delay` frames, makes a packet of the oldest when it is given one
more, and refuses frames while a packet is ready.  `Encode` gives the possible
outcomes of one call: sent and received, not sent, not received.  The frames that
will never become a packet are in `lost`, and `errors` counts the calls of FFmpeg and
fopen that failed, up to `MaxErrors`.  `GetAdtsHeader` is modelled by the bytes it
computes, and `Split` of the extradata by the search for the second start code.

### Log

`write_log` step by step: two readings of the clock, the static `struct tm` that
`localtime` returns to every thread, the mutex, the write to the file and the write to
the terminal.  The mutex has a body only if the macro `linux` is defined (`log.cpp:75`),
and `-std=c++11` (`CMakeLists.txt:33`) takes that macro away; `locking` chooses between
the two builds.  The format of a stamp has 19 characters and `snprintf` is given a size
of 20 - 1 (`log.cpp:107`), so that the last digit of the seconds is cut off: `Printed`
keeps their tens, and StampSound says what is left of the truth.  The clock is the time
of day and may be set back (`SetBack`).  `disturbed` names the threads in whose call it
was, or in whose call another thread called `localtime` before the fields were read;
of their stamps StampSound says nothing.  Without a log file the first line is written to a null `FILE` and the
model goes no further on that way.

## Runs

| run | instance | shows |
|---|---|---|
| `pq_contract` | 2 consumers, 1 audio and 3 video packets at nominal distance | NoLostWakeup, AbortWakesAll; the durations are right to within a frame; refinement of PacketChannel; blocked pops are served, released, or time out.  A third consumer adds nothing but time: the proofs are for any number |
| `pq_accounting` | 1 consumer, pts steps -1, 4, 9, sizes 1 and 3 | counters, bytes and window under pts that regress and jump |
| `mq_calls` | 2 getters, 2 message types with and without object, 3 puts, all timeouts | wake-ups, ownership of objects, refinement of MessageChannel: order, one receiver, every timed get answered, also after an abort |
| `pusher_safety` | 1 audio and 3 video packets, video at nominal distance or late by less than a frame, limit of one frame, timeout of one tick, one dump that fails | the invariants of the pipeline, with a failure at any step of Init and of any call of FFmpeg |
| `pusher_liveness` | 1 audio and 2 video packets, otherwise the same | refinement of Pipeline, its liveness included (tear-down ends); the backlog drains |
| `cap_stop` | stop before delete, a file of 5 units read 2 at a time | the stop takes effect at any point, after one frame at most, and nothing is used after its release |
| `live_source` | one media, frame of 8 2/3 ms, gaps of 1 and 5 ms, clock set back by 7 ms, wrap at 20 ms, up to 36 ms | no drift, no step back of half a frame, increasing pts and one correction at most while frames are in time, and one more for each that is abandoned |
| `encoding` | up to 2 of 11 changes to the Properties, 4 frames per media, 2 failing calls, packets of 300 and 8184 bytes, an AAC codec that holds one frame back | buffers and durations fit, no frame lost but by a failure, dumps read back |
| `log` | 2 threads, 3 calls, ticks 5 to 9 of a clock that is set back at any time, second of 2 ticks, minute of 4 seconds, "ten" of 2, both builds | every line kept in order; a stamp is behind the clock by whole seconds, and older than the call by less than ten |

Runs that end in a counterexample, each against a line of the repository:

| run | property | what happens |
|---|---|---|
| `pusher_orphan` | NoOrphanFrame (`packet_queue.h:227`) | Drop finds no key frame, empties the queue, and the next P frames are sent |
| `cap_use` | UsedBeforeRelease (`push_work.cpp:13`) | the destructor frees the buffer of a running thread |
| `cap_once` | ReleasedOnce (`push_work.cpp:13`) | loop and destructor both close the file |

More disagreements and gaps are visible in the models without a run of their own:

- `packet_queue.h:227` promises that at most `remain_max_duration` is kept, of audio
  too: VideoRetainedWithinMax holds, the same of audio does not, as only the video
  duration ends the loop of Drop.
- `rtsp_pusher.cpp:12`: DeInit deletes a queue with the packets in it, which nobody
  frees (`rtsp_pusher.cpp:92`).  Pipeline's `Close` empties the backlog for that reason,
  and PacketsConserved counts these packets as `leaked`, apart from those queued.
- `push_work.cpp:340,344` says that an encoded packet is pushed and hence not freed:
  `CaptureUndumped` (and `NoFile`, `NoHeader` in Encoding) is the way on which it is
  neither.
- `msg_queue.h:86`: the abort does not wake a getter without timeout; MessageChannel
  owes such a getter nothing.  The program has none.
- `push_work.cpp:120,122` says that the bytes of an s16 frame are compared with those of
  an fltp frame.  GetFrameBytes takes the codec's format, which is fltp, so that the
  comparison of `InitAudioFrame` cannot fail.
- `push_work.cpp:290`: the sample conversion works on two channels.  With any other
  number BuffersFit says that the sizes do not fit; the shipped main sets two.
- The pusher's interrupt clock (`rtsp_pusher.cpp:275`) is the time of day.  RtspPusher
  counts ticks of a steady clock; with a clock that is set forward or back
  neither FullBudget nor the end of a call in time can be promised.
- `log.cpp:28` asks for two digits of the seconds, of which `log.cpp:107` prints the
  first: every line is stamped with the tens of its seconds.
- `aac_encoder.cpp:163`: the ADTS header has three bits for the number of channels.  Of
  eight, with which the codec opens, a reader finds none; DumpReadsBack is stated for
  up to seven.
- `main.cpp:29` ignores the result of init_logger (`log_file = "null"` in Log).

Bounds.  `MaxPushes`, `MaxPuts`, `MaxTime`, `MaxFrames`, `MaxErrors`, `MaxSets`, `MaxLost`,
`MaxCalls`, `MaxClock` and `Timeout` bound counters; each is reached.

- Packet queue and pusher: a video frame lasts 4 units and an audio frame 2, about the
  proportion of 40 to 21 ms.  In the `pusher_*` runs the limit is one video frame, so
  that two queued frames make the pusher drop; the limit of the code is 25 frames, and
  its group of pictures is 25 frames long, so that a queue without a key frame occurs
  in both.
- `live_source`: 36 ms are four frames, with room for a stall of a frame and the burst
  that follows, and for two steps of the clock back.  The media do not interact (each
  has variables of its own), so one is enough.
- `encoding`: four frames pass a codec with a delay of one, and two failures can hit
  one frame each of both media or two of one, so that the account is tested after a
  failure too.  8184 bytes is the most the 13-bit frame length of an ADTS header can
  count with its own 7; AAC's limit of 6144 bits per channel stays well below it.
- `cap_stop`: two whole frames and a part of one, so that the end of the file is met
  before, in and after the stop.
- `log`: a third call begins while the other thread is anywhere in its own, and lets a
  stamp be used after a disturbed one; at tick 5 begins the last tick of a second, at 6
  begin new tens and at 8 a new minute, so that second, tens and minute turn inside one
  stamp.  Ten stands for the base of the number, not for its value.  The two threads
  are alike (`Symmetry`).

`CHECK_DEADLOCK FALSE` stands where the system or the instance ends: `mpc = "done"` in
the `pusher_*` runs, `opc = "done"` or undefined behaviour in the `cap_*` runs, a failed
Init or the last frame in `encoding`, the last call (or a write to a null file) in
`log`.  The check of deadlock is on everywhere else.

Fairness.  Threads are scheduled: weak fairness of main, the pusher loop, a woken
pop or get, and of a capturer that leaves.  `wait_for` computes its deadline once,
so wake-ups do not postpone it: strong fairness of `Expire`.  Time passes, and
FFmpeg asks the interrupt callback while it blocks.  Nothing else is owed: no push,
no new call, no successful network call, no spurious wake-up, no end of main.  The
abstract specifications promise no more than follows from that: `Pipeline` that what
is out is finished and what is told to stop is sealed and closed, `MessageChannel`
that a caller with a deadline is answered (`Conclude`) and that a message which stays
goes to a caller that waits (`Serve`).

## Proofs

Each module of proofs begins with the invariant that is inductive, and most of it
was checked by TLC in the runs or, where it strengthens what a run checks, as an
invariant on the same instance before it was proved.  The assumptions are those
the modules state about their constants, and those named below for the durations
of the queue, for LiveSource and for DumpReadsBack; the bounds (`MaxPushes`,
`MaxFrames`, ...) are arbitrary.

`PacketQueueProofs` proves for every finite set of consumers, all frame durations, pts
and numbers of pushes that `IInv` is invariant.  `IInv` joins TypeOK, CountsMatch,
SizesMatch, PtsWindow, NoLostWakeup, AbortWakesAll and NoResultYet, and is inductive
only as a whole.  A counter stays natural because it is a cardinality (CountsMatch), and
that needs the positions taken to be among the positions queued (lemmas
`AtRemaining`, `TakenFacts`).  The sum of the sizes is a cardinality as well, that of
the set of pairs of a position and a byte of its packet (`BytesOf`), so that what leaves
the queue and what stays add up because the two sets are disjoint.  NoLostWakeup
survives a pop that takes a packet without being notified only because the number of
packets falls with it, and survives the entry into a wait only because the queue is
empty then (`BeginWaitKeeps`).  AbortWakesAll needs that nobody begins to wait after an
abort.  `Implements` then maps every step to a step of `PacketChannel` or a stutter:
NoResultYet makes the caller's view of a wait that is ended and begun again a stutter.

The durations need a second invariant.  `Spaced` says, for all `lo` and `hi` between
which the pts of a media advance: counted back from `back_pts`, each packet queued is
older by `lo` to `hi` for every packet of its media that follows it, and the window is
at most `hi` long per packet queued and at least `lo` per packet but one (before the
first pop the window is a frame shorter than the queue).  It holds for any pts, as `lo`
and `hi` are whatever they are.  What follows from it depends on the pts, and each
theorem names what it needs of them:

- If no pts goes back, or on by more than two frames (`PlausibleSteps`), the guard of
  `GetAudioDuration` against broken pts never rejects the span (`SpanTrusted`).
  `DurationsAreWithin` gives the duration that GetStats states: between `lo * nb - lo`
  and `hi * nb`, and one frame.  The pts of audio advance by 21 or 22 ms against a frame
  duration of 21, so that it is at most a millisecond per packet too long, and a frame.
- If all steps are one frame (`NominalSteps`: video at 25 frames a second, and the run
  `pq_contract`), that is the backlog within one frame, and so is `GetVideoDuration`
  (`DurationsAreRight`).
- With PlausibleSteps a push shortens no duration (`PushNeverShortens`).  Beyond that it
  may: a step of more than two frames makes the span one that is not trusted, and the
  frames counted in its place may be less; a step back shortens the span itself.
- What `DropUntilKey` leaves of the video is within its limit, or a frame above it, if no
  two packets are closer than a frame (`FrameSteps`), however far apart they are
  (`DropShortens`).  A span that is not trusted is replaced by the frames counted, so that
  no upper bound is needed.

As long as PublishTime finds a frame in time, its pts is a frame after the last, and both
PlausibleSteps and FrameSteps allow that.  A pts taken from the clock (CorrectedOnce: at
most one while frames are in time) is a longer step for a frame that is late, and a step
shorter than a frame, or back, for one that comes early in a burst after a stall: then
DropIsStillDue and DropRetainsLittle say nothing.

`MessageQueueProofs` proves TypeOK, NoLostWakeup and ObjectsAccounted for every finite
set of getters and all message types.  The invariant joins them with `NoResultYet`.
NoLostWakeup counts the messages against the getters notified, so that each step is
shown to change the two numbers together: a put wakes one more unless none sleeps, a
getter that leaves its wait takes a message or finds none, and a removal can only
shorten the queue.  ObjectsAccounted needs that
`Subsequence` contains the objects at the positions kept and no other
(`ObjectsSubsequence`, which rests on `InOrder` being onto).  `TakesChannelSteps` is the
safety half of the refinement of MessageChannel; a removal becomes the same removal
there, position by position.

`RtspPusherProofs` proves TypeOK, NoUseAfterFree, PacketsConserved, FullBudget and
MuxerProtocol for any number of frames, any limit and any timeout.  `IInv` is
`Control`, which says where main, the pusher thread and the capturers can be at the same
time and what exists then (`Places`, `Encoders`, `QueueThere`, `Muxer`), and
`Packets`, the account (`Accounted`, with `Leak`: once the queue is deleted, what leaked is
what was left in it).  The heart of it: the join makes `free_ctx` and what follows
unreachable while the pusher thread runs, and the two joins of the capturers make
`free_encoders` and the abort unreachable while one of them can call back.
FullBudget is inductive by itself.  `QueueIsUsedAsAllowed` shows that the pipeline
takes only steps of PacketQueue at its queue.  The theorems of PacketQueueProofs are
then cited through an instance of that module (`QP`), whose constants' assumption
follows from RtspPusher's (`QueueAssumption`): the queue's IInv for TypeOK, and
Spaced for two properties of the drop.
DropStillDue: between the look at the statistics and the drop only pushes come in,
as the pusher is the only consumer, and a push never shortens the duration below the
limit (`DropPending`); this needs PlausibleSteps.  VideoRetainedWithinMax is what
DropShortens says of the queue, and needs FrameSteps of video.
`TakesPipelineSteps` is the safety half of the refinement of Pipeline.

`CapturerThreadProofs` proves TypeOK and StopIsPrompt however the capturer is deleted and
for any sizes of file and frame, and UsedBeforeRelease with `StopFirst`.  StopIsPrompt
rests on `StopSeen`: once a frame was handed on late, the flag is set and stays so until
the worker leaves, and the worker is back before its test.  The argument of the last: a worker that has
begun and not left finds the owner still before its join, hence the object whole.
Without `StopFirst` the run `cap_use` shows it false.

`LiveSourceProofs` proves, of PublishTime, TypeOK, NearClock and BackLessThanHalf.  The
argument: a frame
taken for regular is within the threshold of the clock by the test; one that is not
has the clock's own pts; and a pts taken from the clock is at least the clock of the
previous call, from which the previous pts was less than half a frame away.

Of LiveSource it proves CorrectedOnce and PtsIncreases for every frame duration and
every jitter, frames that are abandoned included.  `LiveInv` adds to PublishTime's invariant, per media, that the last pts
is at most a frame ahead of the time at which its frame was due (`Ahead`), and that a
pts once taken from the clock is within half a frame of it from then on (`Settled`),
where no frame in time is corrected again.  PtsIncreases assumes that the publish time's
frame lasts no longer than the capturer's, as in the code: 21.3333 <= 1024/48 ms, and
40 = 40.  `SourceCallsPublishTime` makes the theorems of PublishTime hold of LiveSource.

`EncodingProofs` proves, for any Properties main may set, BuffersFit and DurationsAgree
from `Kept`: at each stage of Init every component built so far keeps what `Members`
says, and nothing changes `Members` after the first.  `HeaderReadsBack` is the ADTS
header taken apart again, for every rate with an index, 0 to 7 channels and all
lengths in `Countable` (0 to 8184).

`FrameProofs` proves FramesAccounted for any delay, any number of frames and of errors:
the frames pushed followed by the frames held by the codec are rising, and a frame is
missing from both exactly if it is lost (`Account`).  A callback has one of four
effects on the account, a frame refused, taken in, pushed, or the oldest dropped;
that no fifth exists needs that the size of the image is always accepted
(from BuffersFit) and that a codec that opened has an ADTS index (`AacOpens`).
DumpReadsBack is proved for packets of at most 8184 bytes and for all parameter
sets (with up to seven channels for the headers), with a start code inside as well: wherever `Split` cuts, the dump joins the
pieces with the start code that was cut out.  TypeOK of Encoding is proved here too: a
failing call is counted where it happens and only there, so that the number of errors
stays within the bound (`FailureCounted`), and a dump is only written while it is open.

`LogProofs` proves LinesKept and StampSound for every set of threads, every resolution of
the clock and both builds.  `IInv` adds to LinesKept that with the mutex the terminal is
the file or one line behind it, and whose line it is (`Exclusive`), and per thread how
far its stamp is (`StampInHand`): a second read earlier is not after the one in which the
milliseconds are read, and the fields are those of that second unless another thread
has called `localtime` since, or the clock was set back.  `CutArithmetic` is what the
cut digit can make of a second: less than ten of them.  LinesKept of different threads does not need the mutex;
that the terminal follows the file does.

Only model-checked: liveness, which is out of the prover's reach (AbortReleases,
ServesBlocked, TimedPopReturns, BacklogDrains, StopCompletes and the liveness of the
refinements of MessageChannel and Pipeline).  LinesKept could only be proved with "in
order and once" said of positions (`Shows`) rather than of filtered sequences, and the
withdrawal of messages with `Subsequence`: `SelectSeq` is defined by recursion, which no
prover here can unfold.

## Not modelled

Of the lines under `src/`, about nine in ten are headers of FFmpeg 4.2.1
(`3rdParty`), declarations of a library whose code is not in the repository; the
program's own code is some 3,450 lines, blank lines and comments included.  Hence
the models cover a small share of all lines, and most of the program's.

- FFmpeg: its calls succeed, fail, or fail when interrupted; its codecs delay frames.
  Time stamps inside `sendPacket` (pts rescaled, dts left as it is) are not modelled.
- `AVPlayTime`, PTS_REAL_TIME and the tags of the publish time, `GetChildren` and the
  conversions of Properties to other types than integers, the socket macros of
  `times_util.h`, `debugQueue`: nothing uses them, or they only log.
- Flushing the encoders, which nobody asks for; the values of samples and pixels.
- The Windows build, and the stack trace of the log, which is commented out.
- Failing `malloc` and `new`, a failing `std::thread`.
- `request_abort_` is a plain `bool` shared by two threads.  It is modelled as
  atomic: between two reads the loops call functions the compiler cannot see into.
- The interrupt clock set forward or back, as said above.

## Plan

Done: PacketQueue, MessageQueue and the whole pipeline, each with its abstract
specification and the refinement; the capturer thread; the publish time with its
source; configuration, encoders and dumps; the log.  Every invariant the passing runs
check is proved, the safety half of every refinement, and the action properties
named above.

1. The steps of the pts that LiveSource can produce as a bound on PtsSteps, so that
   DropIsStillDue and DropRetainsLittle need no hypothesis while frames are in time.
2. How much the drop leaves when pts go back by less than half a frame, which is what
   BackLessThanHalf allows after a stall.
3. The two capturers of Encoding and the queue of RtspPusher in one module, so that
   a frame can be followed from the file to `av_write_frame`.
