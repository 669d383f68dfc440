--------------------------- MODULE CapturerThread ----------------------------
(***************************************************************************)
(* The life of one capturer: pushWork/capturer/audio_capturer.cpp and      *)
(* video_capturer.cpp over pushWork/common_looper.cpp.  Two threads share  *)
(* the object:                                                             *)
(*   - the owner, PushWork: Init, startThread, and then either stopThread  *)
(*     and delete (PushWork::DeInit) or delete alone (~PushWork); program  *)
(*     counter opc;                                                        *)
(*   - the worker: CommonLooper::trampoline and the capturer's loop();     *)
(*     program counter wpc.                                                *)
(* The two capturers have the same code and differ in where the frame      *)
(* buffer is allocated, in Init (audio) or in loop() (video).              *)
(*                                                                         *)
(* Deleting the object runs ~AudioCapturer (free the buffer, fclose), the  *)
(* destructors of its members (the callback) and only then ~CommonLooper,  *)
(* which stops and joins the worker.  A step of the worker that meets      *)
(* something already released is undefined behaviour: it is recorded in    *)
(* misuse, and what would follow from it is not explored.                  *)
(*                                                                         *)
(* When a frame is due is a matter of the clock of the day, which may be   *)
(* set back, and is modelled in LiveSource.  Here it is left open: how the *)
(* threads meet depends on the order of the steps and not on their times.  *)
(***************************************************************************)
EXTENDS Naturals

CONSTANTS
  StopFirst,       (* TRUE: PushWork::DeInit, FALSE: ~PushWork              *)
  FileSize,        (* length of the file, and ...                           *)
  BufSize          (* ... pcm_buf_size_, in the same unit                   *)

ASSUME CapturerThreadAssumption ==
  /\ StopFirst \in BOOLEAN
  /\ FileSize \in Nat /\ BufSize \in Nat \ {0}

VARIABLES
  opc,             (* the owner's next step                                 *)
  wpc,             (* the worker's next step                                *)
  request_abort,   (* request_abort_                                        *)
  buf,             (* pcm_buf_, yuv_buf_: "none", "allocated" or "freed"    *)
  file,            (* pcm_fp_, yuv_fp_: "none", "open" or "closed"; closing *)
                   (* leaves the pointer as it is                           *)
  object,          (* the object: "none", "capturer", "members" while the   *)
                   (* members are being destroyed, "looper" or "gone"       *)
  pos,             (* where the next fread begins in the file               *)
  late,            (* history: a frame has been handed on since stopThread  *)
                   (* set the flag                                          *)
  misuse           (* history: uses of what has been released               *)

ownerVars  == <<opc, object>>
workerVars == <<wpc, pos, late>>
dataVars   == <<request_abort, buf, file>>
vars       == <<ownerVars, workerVars, dataVars, misuse>>

Init ==
  /\ opc = "init" /\ wpc = "none"
  /\ request_abort = FALSE
  /\ buf = "none" /\ file = "none" /\ object = "none"
  /\ pos = 0 /\ late = FALSE /\ misuse = {}

Owner(here, next)  == misuse = {} /\ opc = here /\ opc' = next
Worker(here, next) == misuse = {} /\ wpc = here /\ wpc' = next

(* A step that is undefined behaviour in the given cases. *)
Misuses(cases) == misuse' = cases
Unless(ok, case) == IF ok THEN {} ELSE {case}

-----------------------------------------------------------------------------
(* The owner. *)

(* The constructor and Init.  The audio capturer allocates its buffer      *)
(* here.  If the file cannot be opened Init fails and the capturer is      *)
(* deleted unstarted.                                                      *)
InitCapturer ==
  /\ opc = "init" /\ misuse = {}
  /\ object' = "capturer"
  /\ buf' \in {"allocated", "none"}
  /\ \/ file' = "open" /\ opc' = "start"
     \/ file' = "none" /\ opc' = "free_buffer"
  /\ UNCHANGED <<workerVars, request_abort, misuse>>

StartThread ==
  /\ Owner("start", "running")
  /\ wpc' = "trampoline"
  /\ UNCHANGED <<object, pos, late, dataVars, misuse>>

(* The owner decides to delete the capturer, with or without stopThread. *)
Release ==
  /\ Owner("running", IF StopFirst THEN "stop" ELSE "free_buffer")
  /\ UNCHANGED <<object, workerVars, dataVars, misuse>>

(* stopThread: the flag, then the join.  Called by DeInit, and by          *)
(* ~CommonLooper, where it does nothing more if the worker has gone.       *)
RequestStop(here, next) ==
  /\ Owner(here, next)
  /\ request_abort' = TRUE
  /\ UNCHANGED <<object, workerVars, buf, file, misuse>>

(* Defect for the mutation runs: stopThread does not wait.                 *)
JoinSkipped(here, next) ==
  /\ Owner(here, next)
  /\ object' = IF next = "done" THEN "gone" ELSE object
  /\ UNCHANGED <<workerVars, dataVars, misuse>>

Join(here, next) ==
  /\ Owner(here, next)
  /\ wpc \in {"none", "exit"}
  /\ object' = IF next = "done" THEN "gone" ELSE object
  /\ UNCHANGED <<workerVars, dataVars, misuse>>

(* ~AudioCapturer, ~VideoCapturer. *)
FreeBuffer ==
  /\ Owner("free_buffer", "fclose")
  /\ buf' = IF buf = "none" THEN "none" ELSE "freed"
  /\ UNCHANGED <<object, workerVars, request_abort, file, misuse>>

CloseFromDestructor ==
  /\ Owner("fclose", "members")
  /\ file' = IF file = "none" THEN "none" ELSE "closed"
  /\ Misuses(Unless(file # "closed", "second fclose"))
  /\ object' = "members"
  /\ UNCHANGED <<workerVars, request_abort, buf>>

DestroyMembers ==
  /\ Owner("members", "base_stop")
  /\ object' = "looper"
  /\ UNCHANGED <<workerVars, dataVars, misuse>>

-----------------------------------------------------------------------------
(* The worker. *)

(* The call of loop() is virtual: once ~CommonLooper runs, it is pure. *)
CallLoop ==
  /\ Worker("trampoline", "enter")
  /\ Misuses(Unless(object \in {"capturer", "members"}, "pure virtual call"))
  /\ UNCHANGED <<ownerVars, pos, late, dataVars>>

(* Defect for the mutation runs: the loop clears the flag as it begins.    *)
EnterLoopClearingFlag ==
  /\ Worker("enter", "top")
  /\ buf' = IF buf = "none" THEN "allocated" ELSE buf
  /\ UNCHANGED <<ownerVars, pos, late, file, misuse>>
  /\ request_abort' = FALSE

(* The video capturer allocates its buffer here. *)
EnterLoop ==
  /\ Worker("enter", "top")
  /\ buf' = IF buf = "none" THEN "allocated" ELSE buf
  /\ UNCHANGED <<ownerVars, pos, late, request_abort, file, misuse>>

LoopTop ==
  /\ Worker("top", IF request_abort THEN "reset" ELSE "read")
  /\ UNCHANGED <<ownerVars, pos, late, dataVars, misuse>>

(* readPcmFile: it is not yet time for the next frame; ... *)
NotDue ==
  /\ Worker("read", "top")
  /\ UNCHANGED <<ownerVars, pos, late, dataVars, misuse>>

(* Defect for the mutation runs: the end of the file goes unnoticed.       *)
AvailableAlways(from) == BufSize

(* What an fread that begins there may return at most. *)
Available(from) == IF from + BufSize <= FileSize THEN BufSize ELSE FileSize - from

(* An fread into the buffer, which may fail on the way: what follows a     *)
(* whole frame and what follows a part of one.                             *)
Fread(from, whole, part) ==
  \E got \in 0 .. Available(from) :
    /\ pos' = from + got
    /\ wpc' = IF got = BufSize THEN whole ELSE part

(* ... or a frame is read into the buffer; ... *)
ReadFrame ==
  /\ misuse = {} /\ wpc = "read"
  /\ Misuses(Unless(buf = "allocated", "freed buffer")
               \cup Unless(file = "open", "closed file"))
  /\ Fread(pos, "callback", "rewind")
  /\ UNCHANGED <<ownerVars, late, dataVars>>

(* ... if it is not all there, once more from the beginning of the file    *)
(* (whether fseek got there is not looked at); and then it is given up.    *)
Rewind ==
  /\ misuse = {} /\ wpc = "rewind"
  /\ Misuses(Unless(buf = "allocated", "freed buffer")
               \cup Unless(file = "open", "closed file"))
  /\ \E from \in {0, pos} : Fread(from, "callback", "top")
  /\ UNCHANGED <<ownerVars, late, dataVars>>

(* The callback encodes from the buffer and pushes. *)
CallBack ==
  /\ Worker("callback", "top")
  /\ Misuses(Unless(buf = "allocated", "freed buffer")
               \cup Unless(object = "capturer", "destroyed callback"))
  /\ late' = (late \/ opc \in {"join", "base_join"})
  /\ UNCHANGED <<ownerVars, pos, dataVars>>

(* After the loop: the flag, then closePcmFile. *)
ResetFlag ==
  /\ Worker("reset", "close")
  /\ request_abort' = FALSE
  /\ UNCHANGED <<ownerVars, pos, late, buf, file, misuse>>

CloseFromLoop ==
  /\ Worker("close", "exit")
  /\ file' = "closed"
  /\ Misuses(Unless(file = "open", "second fclose"))
  /\ UNCHANGED <<ownerVars, pos, late, request_abort, buf>>

-----------------------------------------------------------------------------
OwnerNext ==
  \/ InitCapturer \/ StartThread
  \/ RequestStop("stop", "join") \/ Join("join", "free_buffer")
  \/ FreeBuffer \/ CloseFromDestructor \/ DestroyMembers
  \/ RequestStop("base_stop", "base_join") \/ Join("base_join", "done")

WorkerNext ==
  \/ CallLoop \/ EnterLoop \/ LoopTop \/ NotDue \/ ReadFrame \/ Rewind
  \/ CallBack \/ ResetFlag \/ CloseFromLoop

Next == OwnerNext \/ Release \/ WorkerNext

SafeSpec == Init /\ [][Next]_vars

(* Both threads are scheduled.  Nothing obliges the owner to release. *)
Spec == SafeSpec /\ WF_vars(OwnerNext) /\ WF_vars(WorkerNext)

-----------------------------------------------------------------------------
(* Properties. *)

(* Every variable has its type. *)
TypeOK ==
  /\ opc \in {"init", "start", "running", "stop", "join", "free_buffer",
              "fclose", "members", "base_stop", "base_join", "done"}
  /\ wpc \in {"none", "trampoline", "enter", "top", "read", "rewind", "callback",
              "reset", "close", "exit"}
  /\ request_abort \in BOOLEAN
  /\ buf \in {"none", "allocated", "freed"}
  /\ file \in {"none", "open", "closed"}
  /\ object \in {"none", "capturer", "members", "looper", "gone"}
  /\ misuse \subseteq {"freed buffer", "closed file", "destroyed callback",
                       "pure virtual call", "second fclose"}
  /\ pos \in 0 .. FileSize /\ late \in BOOLEAN

(* push_work.cpp:13 says that the resources are released from the source   *)
(* on, the capturers first: what the worker uses, it uses while it is      *)
(* there.  PushWork::DeInit, which stops the thread before it deletes the  *)
(* capturer, keeps to it however far the worker had got; ~PushWork does    *)
(* not.                                                                    *)
UsedBeforeRelease ==
  misuse \cap {"freed buffer", "closed file", "destroyed callback"} = {}

(* Once stopThread has set the flag the worker hands on one frame at most, *)
(* the one it was reading or had in hand: wherever it was when it was      *)
(* stopped, not yet begun, at the end of the file or making up for a stall *)
(* with a burst of frames, no second one reaches the encoder.              *)
StopIsPrompt == [][CallBack => ~late]_vars

(* stopThread is not lost and the join ends, whether the flag is set       *)
(* before the worker has begun, while it reads, or while it leaves.        *)
StopCompletes ==
  opc \in {"stop", "join"} ~> opc \notin {"stop", "join"}

(* What push_work.cpp:13 calls releasing is done once: a file that was     *)
(* closed is not closed again.                                             *)
ReleasedOnce == "second fclose" \notin misuse
==============================================================================
