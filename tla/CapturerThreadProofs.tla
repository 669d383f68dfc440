------------------------- MODULE CapturerThreadProofs -------------------------
(***************************************************************************)
(* For every size of file and buffer: once a capturer is told to stop it   *)
(* hands on one frame at most, and if it is stopped before it is deleted   *)
(* it uses nothing that is released.                                       *)
(***************************************************************************)
EXTENDS CapturerThread, TLAPS

(* Where the owner is before it may take the capturer apart, ... *)
Intact == {"start", "running", "stop", "join"}

(* ... where it waits for the worker, ... *)
Waiting == {"join", "base_join"}

(* ... and where the worker is as long as it has the file to itself.       *)
InLoop  == {"top", "read", "rewind", "callback", "reset", "close"}
Started == {"trampoline", "enter"} \cup InLoop

(* With stopThread called before the capturer is deleted, a worker that    *)
(* has not left finds the object whole, because the owner is still before  *)
(* its join; and nothing but a file closed by loop() is released twice.    *)
IInv ==
  /\ wpc \in Started => opc \in Intact \ {"start"} /\ file = "open"
  /\ opc = "init" => wpc = "none"
  /\ opc = "start" => wpc = "none" /\ file = "open"
  /\ wpc \in InLoop => buf = "allocated"
  /\ opc \in Intact => object = "capturer" /\ buf # "freed"
  /\ opc # "init" \/ buf = "none"
  /\ misuse \subseteq {"second fclose"}

(* The flag stays set while the owner waits, until the worker has seen it; *)
(* so a worker that has handed on a frame since does not read another.     *)
StopSeen ==
  /\ opc \in Waiting /\ wpc \notin {"close", "exit"} => request_abort = TRUE
  /\ late = TRUE =>
       /\ opc \notin {"init", "start"}
       /\ wpc \in {"top", "reset", "close", "exit"}
       /\ wpc = "top" => request_abort = TRUE
-----------------------------------------------------------------------------
(* An fread moves the position within the file, and takes the worker to    *)
(* one of two steps.                                                       *)
LEMMA FreadMoves ==
  ASSUME NEW from \in 0 .. FileSize, NEW whole, NEW part, Fread(from, whole, part)
  PROVE  pos' \in 0 .. FileSize /\ wpc' \in {whole, part}
<1>1. FileSize \in Nat /\ BufSize \in Nat \ {0}
  BY CapturerThreadAssumption
<1>2. Available(from) \in Nat /\ from + Available(from) <= FileSize
  BY <1>1 DEF Available
<1>3. PICK got \in 0 .. Available(from) :
        pos' = from + got /\ wpc' = IF got = BufSize THEN whole ELSE part
  BY DEF Fread
<1>4. pos' \in 0 .. FileSize
  BY <1>1, <1>2, <1>3
<1>5. wpc' \in {whole, part}
  BY <1>3
<1> QED
  BY <1>4, <1>5

(* The worker's two steps that read. *)
LEMMA Reads ==
  ASSUME TypeOK, ReadFrame \/ Rewind
  PROVE  /\ misuse = {} /\ pos' \in 0 .. FileSize
         /\ UNCHANGED <<opc, object, late, request_abort, buf, file>>
         /\ wpc \in {"read", "rewind"} /\ wpc' \in {"callback", "rewind", "top"}
         /\ misuse' = Unless(buf = "allocated", "freed buffer")
                         \cup Unless(file = "open", "closed file")
<1>0. pos \in 0 .. FileSize /\ 0 \in 0 .. FileSize
  <2>1. FileSize \in Nat
    BY CapturerThreadAssumption
  <2>2. pos \in 0 .. FileSize
    BY DEF TypeOK
  <2> QED
    BY <2>1, <2>2
<1>1. CASE ReadFrame
  <2>1. Fread(pos, "callback", "rewind")
    BY <1>1 DEF ReadFrame
  <2>2. pos' \in 0 .. FileSize /\ wpc' \in {"callback", "rewind"}
    BY <1>0, <2>1, FreadMoves
  <2> QED
    BY <1>1, <2>2 DEF ReadFrame, ownerVars, dataVars, Misuses
<1>2. CASE Rewind
  <2>1. PICK from \in {0, pos} : Fread(from, "callback", "top")
    BY <1>2 DEF Rewind
  <2>2. from \in 0 .. FileSize
    BY <1>0, <2>1
  <2>3. pos' \in 0 .. FileSize /\ wpc' \in {"callback", "top"}
    BY <2>1, <2>2, FreadMoves
  <2> QED
    BY <1>2, <2>3 DEF Rewind, ownerVars, dataVars, Misuses
<1> QED
  BY <1>1, <1>2

LEMMA NextTypeOK ==
  ASSUME TypeOK, [Next]_vars
  PROVE  TypeOK'
<1>1. CASE OwnerNext \/ Release
  <2> USE DEF TypeOK
  <2>1. CASE InitCapturer
    BY <2>1 DEF InitCapturer, workerVars
  <2>2. CASE StartThread
    BY <2>2 DEF StartThread, Owner, dataVars
  <2>3. CASE Release
    BY <2>3 DEF Release, Owner, workerVars, dataVars
  <2>4. CASE DestroyMembers
    BY <2>4 DEF DestroyMembers, Owner, workerVars, dataVars
  <2>5. CASE RequestStop("stop", "join") \/ RequestStop("base_stop", "base_join")
    BY <2>5 DEF RequestStop, Owner, workerVars
  <2>6. CASE Join("join", "free_buffer") \/ Join("base_join", "done")
    BY <2>6 DEF Join, Owner, workerVars, dataVars
  <2>7. CASE FreeBuffer
    BY <2>7 DEF FreeBuffer, Owner, workerVars
  <2>8. CASE CloseFromDestructor
    BY <2>8 DEF CloseFromDestructor, Owner, workerVars, Misuses, Unless
  <2> QED
    BY <1>1, <2>1, <2>2, <2>3, <2>4, <2>5, <2>6, <2>7, <2>8 DEF OwnerNext
<1>2. CASE WorkerNext
  <2>1. CASE CallLoop
    BY <2>1 DEF CallLoop, Worker, ownerVars, dataVars, Misuses, Unless, TypeOK
  <2>2. CASE EnterLoop \/ LoopTop \/ NotDue
    BY <2>2 DEF EnterLoop, LoopTop, NotDue, Worker, ownerVars, dataVars, TypeOK
  <2>3. CASE ReadFrame \/ Rewind
    <3>1. /\ pos' \in 0 .. FileSize /\ wpc' \in {"callback", "rewind", "top"}
          /\ UNCHANGED <<opc, object, late, request_abort, buf, file>>
      BY <2>3, Reads
    <3>2. misuse' \subseteq {"freed buffer", "closed file", "destroyed callback",
                             "pure virtual call", "second fclose"}
      BY <2>3, Reads DEF Unless
    <3> QED
      BY <3>1, <3>2 DEF TypeOK
  <2>4. CASE CallBack
    BY <2>4 DEF CallBack, Worker, ownerVars, dataVars, Misuses, Unless, TypeOK
  <2>5. CASE ResetFlag \/ CloseFromLoop
    BY <2>5 DEF ResetFlag, CloseFromLoop, Worker, ownerVars, Misuses, Unless, TypeOK
  <2> QED
    BY <1>2, <2>1, <2>2, <2>3, <2>4, <2>5 DEF WorkerNext
<1>3. CASE UNCHANGED vars
  <2>1. /\ opc' = opc /\ object' = object /\ wpc' = wpc /\ pos' = pos /\ late' = late
        /\ request_abort' = request_abort /\ buf' = buf /\ file' = file
        /\ misuse' = misuse
    BY <1>3 DEF vars, ownerVars, workerVars, dataVars
  <2>2. misuse' \subseteq {"freed buffer", "closed file", "destroyed callback",
                           "pure virtual call", "second fclose"}
    BY <2>1 DEF TypeOK
  <2>3. request_abort' \in BOOLEAN /\ late' \in BOOLEAN
    BY <2>1, Zenon DEF TypeOK
  <2> QED
    BY <2>1, <2>2, <2>3 DEF TypeOK
<1> QED
  BY <1>1, <1>2, <1>3 DEF Next

(* Every variable has its type, whatever the owner does with the capturer  *)
(* and however the reads of the file end.                                  *)
THEOREM TypeCorrect == SafeSpec => []TypeOK
<1>1. Init => TypeOK
  <2>1. 0 \in 0 .. FileSize
    BY CapturerThreadAssumption
  <2> QED
    BY <2>1 DEF Init, TypeOK
<1>2. TypeOK /\ [Next]_vars => TypeOK'
  BY NextTypeOK
<1> QED
  BY <1>1, <1>2, PTL DEF SafeSpec

-----------------------------------------------------------------------------
(* The flag and the worker that is to see it. *)
LEMMA NextStopSeen ==
  ASSUME TypeOK, StopSeen, [Next]_vars
  PROVE  StopSeen'
<1> USE DEF StopSeen, Waiting
<1>1. CASE OwnerNext \/ Release
  <2>1. CASE InitCapturer
    BY <2>1 DEF InitCapturer, workerVars
  <2>2. CASE StartThread
    BY <2>2 DEF StartThread, Owner, dataVars
  <2>3. CASE Release \/ DestroyMembers
    BY <2>3 DEF Release, DestroyMembers, Owner, workerVars, dataVars
  <2>4. CASE RequestStop("stop", "join") \/ RequestStop("base_stop", "base_join")
    BY <2>4 DEF RequestStop, Owner, workerVars
  <2>5. CASE Join("join", "free_buffer") \/ Join("base_join", "done")
    BY <2>5 DEF Join, Owner, workerVars, dataVars
  <2>6. CASE FreeBuffer \/ CloseFromDestructor
    BY <2>6 DEF FreeBuffer, CloseFromDestructor, Owner, workerVars
  <2> QED
    BY <1>1, <2>1, <2>2, <2>3, <2>4, <2>5, <2>6 DEF OwnerNext
<1>2. CASE WorkerNext
  <2>1. CASE CallLoop \/ EnterLoop
    BY <2>1 DEF CallLoop, EnterLoop, Worker, ownerVars, dataVars
  <2>2. CASE LoopTop \/ NotDue
    BY <2>2 DEF LoopTop, NotDue, Worker, ownerVars, dataVars, TypeOK
  <2>3. CASE ReadFrame \/ Rewind
    BY <2>3, Reads
  <2>4. CASE CallBack
    BY <2>4 DEF CallBack, Worker, ownerVars, dataVars, TypeOK
  <2>5. CASE ResetFlag \/ CloseFromLoop
    BY <2>5 DEF ResetFlag, CloseFromLoop, Worker, ownerVars
  <2> QED
    BY <1>2, <2>1, <2>2, <2>3, <2>4, <2>5 DEF WorkerNext
<1>3. CASE UNCHANGED vars
  BY <1>3 DEF vars, ownerVars, workerVars, dataVars
<1> QED
  BY <1>1, <1>2, <1>3 DEF Next

(* Wherever stopThread meets the worker, which clears the flag itself when *)
(* it leaves, and whether or not the owner has begun to delete the object: *)
(* after the flag is set one frame at most is handed on.                   *)
THEOREM StopIsPromptAlways == SafeSpec => StopIsPrompt
<1>1. Init => StopSeen
  BY DEF Init, StopSeen, Waiting
<1>2. TypeOK /\ StopSeen /\ [Next]_vars => StopSeen'
  BY NextStopSeen
<1>3. TypeOK /\ StopSeen => (CallBack => ~late)
  BY DEF TypeOK, StopSeen, CallBack, Worker
<1>4. TypeOK /\ StopSeen /\ [Next]_vars => [CallBack => ~late]_vars
  BY <1>3
<1> QED
  BY <1>1, <1>2, <1>4, TypeCorrect, PTL DEF SafeSpec, StopIsPrompt

-----------------------------------------------------------------------------
(* The steps of the owner.  Up to its join it leaves the object whole; the *)
(* join waits for a worker that has left.                                  *)
LEMMA OwnerKeeps ==
  ASSUME StopFirst, TypeOK, IInv, OwnerNext \/ Release
  PROVE  IInv'
<1> USE DEF IInv, Intact, InLoop, Started
<1>1. CASE InitCapturer
  BY <1>1 DEF InitCapturer, workerVars
<1>2. CASE StartThread
  BY <1>2 DEF StartThread, Owner, dataVars
<1>3. CASE Release
  BY <1>3 DEF Release, Owner, workerVars, dataVars
<1>4. CASE RequestStop("stop", "join") \/ RequestStop("base_stop", "base_join")
  BY <1>4 DEF RequestStop, Owner, workerVars
<1>5. CASE Join("join", "free_buffer") \/ Join("base_join", "done")
  BY <1>5 DEF Join, Owner, workerVars, dataVars
<1>6. CASE FreeBuffer
  BY <1>6 DEF FreeBuffer, Owner, workerVars
<1>7. CASE CloseFromDestructor
  BY <1>7 DEF CloseFromDestructor, Owner, workerVars, Misuses, Unless
<1>8. CASE DestroyMembers
  BY <1>8 DEF DestroyMembers, Owner, workerVars, dataVars
<1> QED
  BY <1>1, <1>2, <1>3, <1>4, <1>5, <1>6, <1>7, <1>8 DEF OwnerNext

(* The steps of the worker, each of which finds what it uses.              *)
LEMMA WorkerKeeps ==
  ASSUME TypeOK, IInv, WorkerNext
  PROVE  IInv'
<1> USE DEF IInv, Intact, InLoop, Started
<1>1. CASE CallLoop
  BY <1>1 DEF CallLoop, Worker, ownerVars, dataVars, Misuses, Unless
<1>2. CASE EnterLoop
  BY <1>2 DEF EnterLoop, Worker, ownerVars, TypeOK
<1>3. CASE LoopTop \/ NotDue
  BY <1>3 DEF LoopTop, NotDue, Worker, ownerVars, dataVars
<1>4. CASE ReadFrame \/ Rewind
  BY <1>4, Reads DEF Unless
<1>5. CASE CallBack
  BY <1>5 DEF CallBack, Worker, ownerVars, dataVars, Misuses, Unless
<1>6. CASE ResetFlag
  BY <1>6 DEF ResetFlag, Worker, ownerVars
<1>7. CASE CloseFromLoop
  BY <1>7 DEF CloseFromLoop, Worker, ownerVars, Misuses, Unless
<1> QED
  BY <1>1, <1>2, <1>3, <1>4, <1>5, <1>6, <1>7 DEF WorkerNext

(* PushWork::DeInit calls stopThread before it deletes a capturer: then    *)
(* the loop, the callback and loop's own exit path never meet a freed      *)
(* buffer, a closed file or a destroyed callback, wherever the stop found  *)
(* the worker.                                                             *)
THEOREM StopFirstIsSafe ==
  ASSUME StopFirst
  PROVE  SafeSpec => []UsedBeforeRelease
<1>1. Init => IInv
  BY DEF Init, IInv, Intact, InLoop, Started
<1>2. TypeOK /\ IInv /\ [Next]_vars => IInv'
  <2> SUFFICES ASSUME TypeOK, IInv, [Next]_vars
               PROVE  IInv'
    OBVIOUS
  <2>1. CASE OwnerNext \/ Release
    BY <2>1, OwnerKeeps
  <2>2. CASE WorkerNext
    BY <2>2, WorkerKeeps
  <2>3. CASE UNCHANGED vars
    BY <2>3 DEF vars, ownerVars, workerVars, dataVars, IInv
  <2> QED
    BY <2>1, <2>2, <2>3 DEF Next
<1>3. IInv => UsedBeforeRelease
  BY DEF IInv, UsedBeforeRelease
<1> QED
  BY <1>1, <1>2, <1>3, TypeCorrect, PTL DEF SafeSpec
==============================================================================
