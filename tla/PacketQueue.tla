----------------------------- MODULE PacketQueue -----------------------------
(***************************************************************************)
(* pushWork/pusher/packet_queue.h: the queue between the two capturer      *)
(* threads (Push) and the pusher thread (Pop, PopWithTimeout, Drop,        *)
(* GetStats), closed by the owner (Abort).                                 *)
(*                                                                         *)
(* Every method body runs under mutex_, so a method is one step.  The      *)
(* exception is the wait on cond_ inside Pop and PopWithTimeout: it        *)
(* releases the mutex, so a pop is a step that enters the wait, a step     *)
(* that ends it (a notification, the timeout or a spurious wake-up) and a  *)
(* step in which the thread owns the mutex again and looks at the queue.   *)
(***************************************************************************)
EXTENDS Integers, Sequences, FiniteSets, FiniteSetsExt

CONSTANTS
  Consumers,       (* threads that pop                                      *)
  FrameDuration,   (* per media, the duration of one frame                  *)
  PtsSteps,        (* per media, what the next pts may differ by            *)
  Pts,             (* bound: the presentation times of an instance          *)
  Sizes,           (* the sizes a packet may have                           *)
  RemainMax,       (* remain_max_duration of Drop                           *)
  MaxPushes        (* bound: packets pushed per media                       *)

Media == {"audio", "video"}

ASSUME PacketQueueAssumption ==
  /\ IsFiniteSet(Consumers)
  /\ FrameDuration \in [Media -> Nat]
  /\ PtsSteps \in [Media -> SUBSET Int]
  /\ 0 \in Pts /\ Pts \subseteq Int
  /\ Sizes \subseteq Nat
  /\ RemainMax \in Nat
  /\ MaxPushes \in [Media -> Nat]

(* MyAVPacket: the packet and its media type; key is AV_PKT_FLAG_KEY,      *)
(* which the AAC encoder sets on every packet.                             *)
Packet == {p \in [media : Media, key : BOOLEAN, pts : Pts, size : Sizes] :
             p.media = "audio" => p.key}

VARIABLES
  queue,           (* queue_                                                *)
  abort_request,   (* abort_request_                                        *)
  stats,           (* stats_: packets and bytes per media                   *)
  front_pts,       (* audio_front_pts_, video_front_pts_                    *)
  back_pts,        (* audio_back_pts_, video_back_pts_                      *)
  first_packet,    (* audio_first_packet, video_first_packet                *)
  wait,            (* where each consumer is with respect to cond_          *)
  blocking,        (* TRUE while a consumer waits in Pop, with no timeout   *)
  ret,             (* what the last pop of each consumer returned           *)
  pushed           (* packets accepted so far per media                     *)

ptsVars   == <<front_pts, back_pts, first_packet>>
dataVars  == <<queue, stats, ptsVars, pushed>>
callVars  == <<wait, blocking, ret>>
queueVars == <<dataVars, abort_request, callVars>>

ZeroStats == [nb |-> 0, size |-> 0]

Init ==
  /\ queue = <<>>
  /\ abort_request = FALSE
  /\ stats = [m \in Media |-> ZeroStats]
  /\ front_pts = [m \in Media |-> 0]
  /\ back_pts = [m \in Media |-> 0]
  /\ first_packet = [m \in Media |-> TRUE]
  /\ wait = [c \in Consumers |-> "none"]
  /\ blocking = [c \in Consumers |-> FALSE]
  /\ ret = [c \in Consumers |-> "none"]
  /\ pushed = [m \in Media |-> 0]

-----------------------------------------------------------------------------
(* What leaves the front of the queue, and the durations computed from the *)
(* counters.                                                               *)

At(q, m)        == {i \in DOMAIN q : q[i].media = m}
PositionsOf(m)  == At(queue, m)
TakenOf(k, m)   == {i \in PositionsOf(m) : i <= k}
LastOf(I)       == CHOOSE i \in I : \A j \in I : j <= i

(* The bytes of the packets of q at the places I, each a place and a       *)
(* number within the packet there, and how many these are.                 *)
BytesOf(q, I) == UNION {{i} \X (1 .. q[i].size) : i \in I}
Bytes(q, I)   == Cardinality(BytesOf(q, I))

(* Defects for the mutation runs: a counter decremented by all that left,  *)
(* or once per call; a size counter decremented by one; a front pts taken  *)
(* from the first packet to leave, or not at all.                          *)
NbAfterAnyMedia(k, m)    == stats[m].nb - k
NbAfterOncePerCall(k, m) == stats[m].nb - (IF TakenOf(k, m) = {} THEN 0 ELSE 1)
SizeAfterCount(k, m)     == stats[m].size - Cardinality(TakenOf(k, m))
FrontAfterFirst(k, m)    == IF TakenOf(k, m) = {} THEN front_pts[m]
                            ELSE queue[Min(TakenOf(k, m))].pts
FrontAfterForgotten(k, m) == front_pts[m]

NbAfter(k, m)   == stats[m].nb - Cardinality(TakenOf(k, m))
SizeAfter(k, m) == stats[m].size - Bytes(queue, TakenOf(k, m))
FrontAfter(k, m) == IF TakenOf(k, m) = {} THEN front_pts[m]
                    ELSE queue[LastOf(TakenOf(k, m))].pts

(* The pts span is trusted only if it lies between nothing and twice what  *)
(* nb frames last.                                                         *)
Trusted(m, span, nb) == 0 <= span /\ span <= FrameDuration[m] * nb * 2

Duration(m, span, nb, extra) ==
  IF Trusted(m, span, nb) THEN span + extra ELSE FrameDuration[m] * nb

(* GetVideoDuration and Drop add nothing to a trusted span; GetStats and   *)
(* GetAudioDuration add one frame.                                         *)
VideoDuration == Duration("video", back_pts["video"] - front_pts["video"],
                          stats["video"].nb, 0)
StatsDuration(m) == Duration(m, back_pts[m] - front_pts[m], stats[m].nb,
                             FrameDuration[m])

(* Taking the first k packets one after the other. *)
RemoveFront(k) ==
  /\ queue' = SubSeq(queue, k + 1, Len(queue))
  /\ stats' = [m \in Media |-> [nb |-> NbAfter(k, m), size |-> SizeAfter(k, m)]]
  /\ front_pts' = [m \in Media |-> FrontAfter(k, m)]
  /\ UNCHANGED <<back_pts, first_packet, pushed>>

-----------------------------------------------------------------------------
(* The condition variable. *)

Waiting  == {c \in Consumers : wait[c] = "waiting"}
Notified == {c \in Consumers : wait[c] = "notified"}

(* Defects for the mutation runs: the producer notifies only a queue that  *)
(* was empty; Abort notifies one thread.                                   *)
NotifyIfEmpty ==
  IF Waiting = {} \/ queue # <<>> THEN UNCHANGED wait
  ELSE \E c \in Waiting : wait' = [wait EXCEPT ![c] = "notified"]

NotifyAllOnce ==
  IF Waiting = {} THEN UNCHANGED wait
  ELSE \E c \in Waiting : wait' = [wait EXCEPT ![c] = "notified"]

NotifyOne ==
  IF Waiting = {} THEN UNCHANGED wait
  ELSE \E c \in Waiting : wait' = [wait EXCEPT ![c] = "notified"]

NotifyAll == wait' = [c \in Consumers |-> IF c \in Waiting THEN "notified"
                                          ELSE wait[c]]

(* A notification is not the only thing that ends a wait. *)
Expire(c) ==
  /\ wait[c] = "waiting"
  /\ ~blocking[c]
  /\ wait' = [wait EXCEPT ![c] = "expired"]
  /\ UNCHANGED <<dataVars, abort_request, blocking, ret>>

WakeSpuriously(c) ==
  /\ wait[c] = "waiting"
  /\ wait' = [wait EXCEPT ![c] = "notified"]
  /\ UNCHANGED <<dataVars, abort_request, blocking, ret>>

-----------------------------------------------------------------------------
(* Push.  After an abort it returns -1 and changes nothing. *)

(* Defect for the mutation runs: every packet counts as the first.         *)
AcceptAlwaysFirst(p) ==
  LET m == p.media
  IN  /\ queue' = Append(queue, p)
      /\ stats' = [stats EXCEPT ![m] = [nb |-> @.nb + 1, size |-> @.size + p.size]]
      /\ back_pts' = [back_pts EXCEPT ![m] = p.pts]
      /\ front_pts' = [front_pts EXCEPT ![m] = p.pts]
      /\ first_packet' = [first_packet EXCEPT ![m] = FALSE]
      /\ pushed' = [pushed EXCEPT ![m] = @ + 1]

Accept(p) ==
  LET m == p.media
  IN  /\ queue' = Append(queue, p)
      /\ stats' = [stats EXCEPT ![m] = [nb |-> @.nb + 1, size |-> @.size + p.size]]
      /\ back_pts' = [back_pts EXCEPT ![m] = p.pts]
      /\ front_pts' = [front_pts EXCEPT ![m] = IF first_packet[m] THEN p.pts ELSE @]
      /\ first_packet' = [first_packet EXCEPT ![m] = FALSE]
      /\ pushed' = [pushed EXCEPT ![m] = @ + 1]

Push(p) ==
  /\ ~abort_request
  /\ Accept(p)
  /\ NotifyOne
  /\ UNCHANGED <<abort_request, blocking, ret>>

(* The packets an encoder may produce next: pts moves by one of PtsSteps,  *)
(* and any video packet may be a key frame.                                *)
NextPackets ==
  {p \in Packet :
     /\ pushed[p.media] < MaxPushes[p.media]
     /\ p.pts - back_pts[p.media] \in PtsSteps[p.media]}

-----------------------------------------------------------------------------
(* Pop and PopWithTimeout. *)

Return(c, r) ==
  /\ wait' = [wait EXCEPT ![c] = "none"]
  /\ blocking' = [blocking EXCEPT ![c] = FALSE]
  /\ ret' = [ret EXCEPT ![c] = r]
  /\ UNCHANGED abort_request

ReturnAbort(c) == abort_request /\ Return(c, "abort") /\ UNCHANGED dataVars

ReturnPacket(c) == /\ ~abort_request
                   /\ queue # <<>>
                   /\ Return(c, "packet")
                   /\ RemoveFront(1)

BeginWait(c, forever) ==
  /\ ~abort_request
  /\ queue = <<>>
  /\ wait' = [wait EXCEPT ![c] = "waiting"]
  /\ blocking' = [blocking EXCEPT ![c] = forever]
  /\ ret' = [ret EXCEPT ![c] = "none"]
  /\ UNCHANGED <<dataVars, abort_request>>

(* The call up to its return or its wait; forever distinguishes Pop from   *)
(* PopWithTimeout with a timeout that is not negative.                     *)
PopStart(c, forever) ==
  /\ wait[c] = "none"
  /\ ReturnAbort(c) \/ ReturnPacket(c) \/ BeginWait(c, forever)

(* Defect for the mutation runs: a thread whose time is up waits again.    *)
PopResumeUntilPacket(c) ==
  /\ wait[c] \in {"notified", "expired"}
  /\ ReturnAbort(c) \/ ReturnPacket(c) \/ BeginWait(c, blocking[c])

(* The rest of the call, from the end of the wait.  A notified thread that *)
(* finds its predicate false waits again; one whose time is up returns.    *)
PopResume(c) ==
  /\ wait[c] \in {"notified", "expired"}
  /\ \/ ReturnAbort(c)
     \/ ReturnPacket(c)
     \/ wait[c] = "notified" /\ BeginWait(c, blocking[c])
     \/ /\ wait[c] = "expired"
        /\ ~abort_request
        /\ queue = <<>>
        /\ Return(c, "empty")
        /\ UNCHANGED dataVars

-----------------------------------------------------------------------------
(* Drop and Abort. *)

IsKeyVideo(p) == p.media = "video" /\ p.key

(* Defects for the mutation runs: Drop stops at any key frame, or at any   *)
(* packet.                                                                 *)
StopsAtAnyKey(k) == k < Len(queue) /\ IsKeyVideo(queue[k + 1])

StopsAtAnyPacket(k) ==
  /\ k < Len(queue)
  /\ Duration("video", back_pts["video"] - FrontAfter(k, "video"),
              NbAfter(k, "video"), 0) <= RemainMax

(* Drop(false, RemainMax) stops in front of a key frame once the video     *)
(* behind it is short enough.                                              *)
StopsAt(k) ==
  /\ k < Len(queue)
  /\ IsKeyVideo(queue[k + 1])
  /\ Duration("video", back_pts["video"] - FrontAfter(k, "video"),
              NbAfter(k, "video"), 0) <= RemainMax

DropUntilKey(c) ==
  /\ wait[c] = "none"
  /\ \E k \in 0 .. Len(queue) :
        /\ k = Len(queue) \/ StopsAt(k)
        /\ \A j \in 0 .. k - 1 : ~StopsAt(j)
        /\ RemoveFront(k)
  /\ UNCHANGED <<abort_request, callVars>>

DropAll(c) ==
  /\ wait[c] = "none"
  /\ RemoveFront(Len(queue))
  /\ UNCHANGED <<abort_request, callVars>>

Abort ==
  /\ abort_request' = TRUE
  /\ NotifyAll
  /\ UNCHANGED <<dataVars, blocking, ret>>

-----------------------------------------------------------------------------
Next ==
  \/ \E p \in NextPackets : Push(p)
  \/ \E c \in Consumers :
        \/ \E forever \in BOOLEAN : PopStart(c, forever)
        \/ PopResume(c) \/ Expire(c) \/ WakeSpuriously(c)
        \/ DropUntilKey(c) \/ DropAll(c)
  \/ Abort

SafeSpec == Init /\ [][Next]_queueVars

(* A woken thread gets the mutex back and goes on.  wait_for computes its  *)
(* deadline once, so that no number of wake-ups postpones the timeout:     *)
(* Expire is strongly fair.  Nobody owes a Push, a new call, an Abort or a *)
(* spurious wake-up.                                                       *)
Spec == /\ SafeSpec
        /\ \A c \in Consumers : WF_queueVars(PopResume(c)) /\ SF_queueVars(Expire(c))

-----------------------------------------------------------------------------
(* Properties. *)

(* Every variable has its type; no counter of stats_ runs below zero.      *)
TypeOK ==
  /\ queue \in Seq(Packet)
  /\ abort_request \in BOOLEAN
  /\ stats \in [Media -> [nb : Nat, size : Nat]]
  /\ front_pts \in [Media -> Pts]
  /\ back_pts \in [Media -> Pts]
  /\ first_packet \in [Media -> BOOLEAN]
  /\ wait \in [Consumers -> {"none", "waiting", "notified", "expired"}]
  /\ blocking \in [Consumers -> BOOLEAN]
  /\ ret \in [Consumers -> {"none", "packet", "empty", "abort"}]
  /\ pushed \in [Media -> Nat]

(* However pushes, pops and drops interleave, the packet counters of       *)
(* GetStats are the number of packets of that media in queue_; the four    *)
(* copies of the bookkeeping code (Push, Pop, PopWithTimeout, Drop) agree. *)
CountsMatch == \A m \in Media : stats[m].nb = Cardinality(PositionsOf(m))

(* The byte counters are the bytes queued: what a packet added when it was *)
(* pushed is what it takes away when it leaves.                            *)
SizesMatch == \A m \in Media : stats[m].size = Bytes(queue, PositionsOf(m))

(* The pts window that all durations are computed from: back is the newest *)
(* packet queued, and once a media has left the queue the window is empty, *)
(* so that no duration is left over from packets that are gone.            *)
PtsWindow ==
  \A m \in Media :
     back_pts[m] = IF PositionsOf(m) = {} THEN front_pts[m]
                   ELSE queue[LastOf(PositionsOf(m))].pts

(* With frames at the nominal distance the durations are what is really    *)
(* queued: GetStats reports that or one frame more, GetVideoDuration that  *)
(* or one frame less.  The heuristic never takes a plausible span for a    *)
(* broken one.                                                             *)
DurationTracksBacklog ==
  LET Backlog(m) == FrameDuration[m] * Cardinality(PositionsOf(m))
  IN  /\ \A m \in Media :
            StatsDuration(m) \in Backlog(m) .. Backlog(m) + FrameDuration[m]
      /\ VideoDuration \in Backlog("video") - FrameDuration["video"]
                             .. Backlog("video")

(* What a duration is worth depends on how the pts advance: by one frame   *)
(* each time, as those of video do; by a frame or a little more (audio: 21 *)
(* or 22 ms for a frame of 21), or more after a stall; or, the least that  *)
(* the heuristic of the durations is made for, by up to two frames.        *)
NominalSteps   == \A m \in Media : PtsSteps[m] = {FrameDuration[m]}
PlausibleSteps == \A m \in Media : PtsSteps[m] \subseteq 0 .. 2 * FrameDuration[m]
FrameSteps(m)  == \E hi \in Nat : PtsSteps[m] \subseteq FrameDuration[m] .. hi

(* What lies behind it: going back from the newest packet, each packet     *)
(* queued is older by a step from lo to hi, and the front is the pts of    *)
(* the packet that left last or, as long as none did, of the oldest one.   *)
Later(m, i) == {j \in PositionsOf(m) : j > i}

Window(m, lo, hi) ==
  LET nb == Cardinality(PositionsOf(m))
  IN  /\ \A i \in PositionsOf(m) :
            back_pts[m] - queue[i].pts
              \in lo * Cardinality(Later(m, i)) .. hi * Cardinality(Later(m, i))
      /\ back_pts[m] - front_pts[m] \in lo * nb - lo .. hi * nb
      /\ first_packet[m] => PositionsOf(m) = {}

Spaced ==
  \A m \in Media : \A lo, hi \in Nat :
     PtsSteps[m] \subseteq lo .. hi => Window(m, lo, hi)

(* notify_one is enough: while a thread sleeps on cond_, each queued       *)
(* packet has a thread of its own that has been woken and not yet run, so  *)
(* no packet waits for a thread that nobody will wake.                     *)
NoLostWakeup == Waiting # {} => Len(queue) <= Cardinality(Notified)

(* No thread sleeps on cond_ after Abort, neither one that Abort found     *)
(* asleep nor one that was on its way into the wait.                       *)
AbortWakesAll == abort_request => Waiting = {}

(* A pop in progress has returned nothing yet.  With the rest this is what *)
(* the steps preserve, one by one: the inductive invariant.                *)
NoResultYet == \A c \in Consumers : wait[c] # "none" => ret[c] = "none"

IInv == /\ TypeOK
        /\ CountsMatch /\ SizesMatch /\ PtsWindow
        /\ NoLostWakeup /\ AbortWakesAll /\ NoResultYet

(* The queue with its counters and condition variable does what            *)
(* PacketChannel promises.                                                 *)
Chan == INSTANCE PacketChannel WITH
          items <- queue, closed <- abort_request, outcome <- ret,
          caller <- [c \in Consumers |-> IF wait[c] = "none" THEN "idle" ELSE "blocked"]

ImplementsChannel == Chan!SafeSpec

(* ... and serves its blocked callers: a thread blocked in Pop gets the    *)
(* packet, or the abort, that is there to be had.                          *)
ServesBlocked == Chan!Spec

(* Abort ends every pop in progress, also a Pop without a timeout.         *)
AbortReleases ==
  \A c \in Consumers : (abort_request /\ wait[c] # "none") ~> (wait[c] = "none")

(* A pop with a timeout returns, however often it is woken for a packet    *)
(* that another thread has taken.                                          *)
TimedPopReturns ==
  \A c \in Consumers : (wait[c] # "none" /\ ~blocking[c]) ~> (wait[c] = "none")
==============================================================================
