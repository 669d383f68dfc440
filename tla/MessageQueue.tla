---------------------------- MODULE MessageQueue -----------------------------
(***************************************************************************)
(* tools/msg_queue.h: the queue that carries notices from the pusher       *)
(* thread to main.  As in PacketQueue a method is one step, except that    *)
(* msg_queue_get is cut where it sleeps on cond_.                          *)
(*                                                                         *)
(* Two things differ from PacketQueue, and are modelled as they are:       *)
(* msg_queue_abort notifies nobody, and the timed wait looks at the queue  *)
(* before it looks at abort_request_.                                      *)
(***************************************************************************)
EXTENDS Integers, Sequences, FiniteSets

CONSTANTS
  Getters,         (* threads that call msg_queue_get                       *)
  What,            (* the message types                                     *)
  MaxPuts          (* bound: messages accepted, and objects allocated       *)

ASSUME MessageQueueAssumption == IsFiniteSet(Getters) /\ MaxPuts \in Nat

(* AVMessage: its type and whether it carries an object with a free_l.     *)
Message == [what : What, obj : BOOLEAN]

VARIABLES
  queue,           (* queue_                                                *)
  abort_request,   (* abort_request_                                        *)
  wait,            (* where each getter is with respect to cond_            *)
  timeout,         (* the timeout each getter was called with: "forever"    *)
                   (* (negative), "timed" (positive) or "poll" (zero)       *)
  ret,             (* what the last call of each getter returned            *)
  puts,            (* history: messages accepted                            *)
  allocated,       (* history: objects allocated by notify_msg4 ...         *)
  freed,           (* ... freed by the queue ...                            *)
  handed           (* ... or handed to a getter along with the message      *)

objectVars == <<allocated, freed, handed>>
callVars   == <<wait, timeout, ret>>
msgVars    == <<queue, abort_request, puts, callVars, objectVars>>

Objects(q) == Cardinality({i \in DOMAIN q : q[i].obj})

Init ==
  /\ queue = <<>>
  /\ abort_request = FALSE
  /\ wait = [c \in Getters |-> "none"]
  /\ timeout = [c \in Getters |-> "poll"]
  /\ ret = [c \in Getters |-> "none"]
  /\ puts = 0 /\ allocated = 0 /\ freed = 0 /\ handed = 0

-----------------------------------------------------------------------------
Waiting  == {c \in Getters : wait[c] = "waiting"}
Notified == {c \in Getters : wait[c] = "notified"}

(* Defect for the mutation runs: the sender notifies only a queue that was *)
(* empty.                                                                  *)
NotifyIfEmpty ==
  IF Waiting = {} \/ queue # <<>> THEN UNCHANGED wait
  ELSE \E c \in Waiting : wait' = [wait EXCEPT ![c] = "notified"]

NotifyOne ==
  IF Waiting = {} THEN UNCHANGED wait
  ELSE \E c \in Waiting : wait' = [wait EXCEPT ![c] = "notified"]

(* The end of a sleep: the time is up, or a spurious wake-up. *)
Expire(c) ==
  /\ wait[c] = "waiting"
  /\ timeout[c] = "timed"
  /\ wait' = [wait EXCEPT ![c] = "expired"]
  /\ UNCHANGED <<queue, abort_request, timeout, ret, puts, objectVars>>

WakeSpuriously(c) ==
  /\ wait[c] = "waiting"
  /\ wait' = [wait EXCEPT ![c] = "notified"]
  /\ UNCHANGED <<queue, abort_request, timeout, ret, puts, objectVars>>

-----------------------------------------------------------------------------
(* notify_msg1 to notify_msg3 put a message that carries no object,        *)
(* notify_msg4 one that does, allocated before msg_queue_put may refuse it *)
(* (and then owned by nobody).                                             *)
Notify(msg) ==
  /\ msg.obj => allocated < MaxPuts
  /\ allocated' = IF msg.obj THEN allocated + 1 ELSE allocated
  /\ IF abort_request
       THEN UNCHANGED <<queue, wait, puts>>
       ELSE /\ puts < MaxPuts
            /\ queue' = Append(queue, msg)
            /\ puts' = puts + 1
            /\ NotifyOne
  /\ UNCHANGED <<abort_request, timeout, ret, freed, handed>>

-----------------------------------------------------------------------------
(* msg_queue_get. *)

Return(c, r) ==
  /\ wait' = [wait EXCEPT ![c] = "none"]
  /\ ret' = [ret EXCEPT ![c] = r]

(* -1: seen at the top of the loop. *)
GetAbort(c) == /\ abort_request
               /\ Return(c, "abort")
               /\ UNCHANGED <<queue, objectVars>>

(* 1: the message, and the object with it, now belong to the caller. *)
GetMessage(c) ==
  /\ ~abort_request
  /\ queue # <<>>
  /\ queue' = Tail(queue)
  /\ handed' = handed + Objects(<<Head(queue)>>)
  /\ Return(c, "message")
  /\ UNCHANGED <<allocated, freed>>

(* 0 *)
GetNothing(c) == Return(c, "empty") /\ UNCHANGED <<queue, objectVars>>

Sleep(c) ==
  /\ wait' = [wait EXCEPT ![c] = "waiting"]
  /\ ret' = [ret EXCEPT ![c] = "none"]
  /\ UNCHANGED <<queue, objectVars>>

GetStart(c, t) ==
  /\ wait[c] = "none"
  /\ timeout' = [timeout EXCEPT ![c] = t]
  /\ \/ GetAbort(c)
     \/ GetMessage(c)
     \/ /\ ~abort_request /\ queue = <<>>
        /\ IF t = "poll" THEN GetNothing(c) ELSE Sleep(c)
  /\ UNCHANGED <<abort_request, puts>>

(* Defect for the mutation runs: a getter whose time is up sleeps again.   *)
GetResumeUntilMessage(c) ==
  /\ wait[c] \in {"notified", "expired"}
  /\ \/ GetAbort(c)
     \/ GetMessage(c)
     \/ ~abort_request /\ queue = <<>> /\ Sleep(c)
  /\ UNCHANGED <<abort_request, timeout, puts>>

(* The predicate of both waits is "not empty, or aborted".  A wait that    *)
(* ends with an empty queue, because the time is up or because of an       *)
(* abort, makes the timed call return 0; every other one goes back to the  *)
(* top of the loop.                                                        *)
GetResume(c) ==
  /\ wait[c] \in {"notified", "expired"}
  /\ IF queue = <<>> /\ ~abort_request /\ wait[c] = "notified"
       THEN Sleep(c)
       ELSE IF queue = <<>> /\ timeout[c] = "timed"
              THEN GetNothing(c)
              ELSE GetAbort(c) \/ GetMessage(c)
  /\ UNCHANGED <<abort_request, timeout, puts>>

-----------------------------------------------------------------------------
(* Taking messages out without a getter. *)

(* The positions I in ascending order, and the sequence of what q has at   *)
(* these positions.                                                        *)
InOrder(I) == CHOOSE at \in [1 .. Cardinality(I) -> I] :
                \A m, n \in DOMAIN at : m < n => at[m] < at[n]
Subsequence(q, I) == [n \in 1 .. Cardinality(I) |-> q[InOrder(I)[n]]]

OfType(w) == {i \in DOMAIN queue : queue[i].what = w}

(* Defect for the mutation runs: remove forgets the objects.               *)
RemoveLeakingObjects(w) ==
  /\ IF abort_request THEN UNCHANGED queue
     ELSE queue' = Subsequence(queue, DOMAIN queue \ OfType(w))
  /\ UNCHANGED <<abort_request, puts, callVars, objectVars>>

(* msg_queue_remove gives up when the queue is aborted. *)
Remove(w) ==
  /\ IF abort_request THEN UNCHANGED <<queue, freed>>
     ELSE /\ queue' = Subsequence(queue, DOMAIN queue \ OfType(w))
          /\ freed' = freed + Cardinality({i \in OfType(w) : queue[i].obj})
  /\ UNCHANGED <<abort_request, puts, callVars, allocated, handed>>

(* Defect for the mutation runs: flush frees the objects of messages that  *)
(* it leaves queued.                                                       *)
FlushWithoutPop ==
  /\ freed' = freed + Objects(queue)
  /\ UNCHANGED <<queue, abort_request, puts, callVars, allocated, handed>>

(* msg_queue_flush does not.  msg_queue_destroy is the same. *)
Flush ==
  /\ queue' = <<>>
  /\ freed' = freed + Objects(queue)
  /\ UNCHANGED <<abort_request, puts, callVars, allocated, handed>>

(* msg_queue_abort sets the flag; it wakes nobody. *)
Abort ==
  /\ abort_request' = TRUE
  /\ UNCHANGED <<queue, puts, callVars, objectVars>>

-----------------------------------------------------------------------------
Next ==
  \/ \E msg \in Message : Notify(msg)
  \/ \E c \in Getters :
        \/ \E t \in {"forever", "timed", "poll"} : GetStart(c, t)
        \/ GetResume(c) \/ Expire(c) \/ WakeSpuriously(c)
  \/ \E w \in What : Remove(w)
  \/ Flush
  \/ Abort

SafeSpec == Init /\ [][Next]_msgVars

(* As in PacketQueue: a woken getter runs, and wait_for keeps its deadline *)
(* across wake-ups.                                                        *)
Spec == /\ SafeSpec
        /\ \A c \in Getters : WF_msgVars(GetResume(c)) /\ SF_msgVars(Expire(c))

-----------------------------------------------------------------------------
(* Properties. *)

(* Every variable has its type. *)
TypeOK ==
  /\ queue \in Seq(Message)
  /\ abort_request \in BOOLEAN
  /\ wait \in [Getters -> {"none", "waiting", "notified", "expired"}]
  /\ timeout \in [Getters -> {"forever", "timed", "poll"}]
  /\ ret \in [Getters -> {"none", "message", "empty", "abort"}]
  /\ {puts, allocated, freed, handed} \subseteq 0 .. MaxPuts

(* Until an abort, as long as a getter sleeps, each message queued has a   *)
(* getter of its own that has been woken for it; remove, flush and the     *)
(* timeouts, which take messages or getters away, included.                *)
NoLostWakeup ==
  ~abort_request /\ Waiting # {} => Len(queue) <= Cardinality(Notified)

(* Until an abort makes put refuse messages, every object that notify_msg4 *)
(* allocated is in the queue, was freed by it exactly once, or was handed  *)
(* out exactly once.  Afterwards objects may be lost (to refused puts),    *)
(* but still none is freed twice, or both freed and handed out.            *)
ObjectsAccounted ==
  LET known == Objects(queue) + freed + handed
  IN  known <= allocated /\ (~abort_request => known = allocated)

(* A get in progress has returned nothing yet.  With the rest this is what *)
(* the steps preserve, one by one: the inductive invariant.                *)
NoResultYet == \A c \in Getters : wait[c] # "none" => ret[c] = "none"

IInv == TypeOK /\ NoLostWakeup /\ ObjectsAccounted /\ NoResultYet

(* The message queue keeps the promises of MessageChannel: order, exactly  *)
(* one receiver, truthful "nothing there", no message left lying in front  *)
(* of a getter that waits, and, although msg_queue_abort notifies nobody,  *)
(* an answer to every timed get, so that main never hangs in               *)
(* msg_queue_get(msg, 1000).  Of a get without a timeout it promises no    *)
(* such thing once the queue is aborted, and the code does not keep it.    *)
Channel == INSTANCE MessageChannel WITH
             Callers <- Getters, items <- queue, closed <- abort_request,
             caller <- [c \in Getters |->
                          IF wait[c] = "none" THEN "idle" ELSE timeout[c]],
             outcome <- ret
ImplementsChannel == Channel!Spec
==============================================================================
