---------------------------- MODULE PacketChannel ----------------------------
(***************************************************************************)
(* What PacketQueue promises the threads around it, with no mutex, no      *)
(* condition variable and no counters: a closable FIFO of packets on which *)
(* a caller either gets the oldest packet, gives up, or is told that the   *)
(* channel is closed.  A caller that has to wait is simply "blocked".      *)
(***************************************************************************)
EXTENDS Naturals, Sequences

CONSTANTS Consumers,   (* threads that take packets out                     *)
          Packet       (* the packets; each has the fields media and key    *)

VARIABLES items,       (* packets accepted and not yet taken or discarded   *)
          closed,      (* TRUE once the channel was aborted                 *)
          caller,      (* what each consumer is doing: "idle" or "blocked"  *)
          outcome      (* what the last call of each consumer returned      *)

chanVars == <<items, closed, caller, outcome>>

IsKeyVideo(p) == p.media = "video" /\ p.key

Init == /\ items = <<>>
        /\ closed = FALSE
        /\ caller = [c \in Consumers |-> "idle"]
        /\ outcome = [c \in Consumers |-> "none"]

Answer(c, r) == /\ caller' = [caller EXCEPT ![c] = "idle"]
                /\ outcome' = [outcome EXCEPT ![c] = r]

(* An open channel accepts a packet at its end. *)
Send == /\ ~closed
        /\ \E p \in Packet : items' = Append(items, p)
        /\ UNCHANGED <<closed, caller, outcome>>

(* An open channel hands its oldest packet to exactly one caller. *)
Receive(c) == /\ ~closed
              /\ items # <<>>
              /\ items' = Tail(items)
              /\ Answer(c, "packet")
              /\ UNCHANGED closed

(* A closed channel hands out nothing, whatever it still holds. *)
Refuse(c) == /\ closed
             /\ Answer(c, "abort")
             /\ UNCHANGED <<items, closed>>

(* Only a caller of an open and empty channel is made to wait. *)
Block(c) == /\ ~closed
            /\ items = <<>>
            /\ caller[c] = "idle"
            /\ caller' = [caller EXCEPT ![c] = "blocked"]
            /\ outcome' = [outcome EXCEPT ![c] = "none"]
            /\ UNCHANGED <<items, closed>>

(* Only a blocked caller may be told "nothing there", and only truthfully. *)
GiveUp(c) == /\ ~closed
             /\ items = <<>>
             /\ caller[c] = "blocked"
             /\ Answer(c, "empty")
             /\ UNCHANGED <<items, closed>>

(* The oldest packets may be thrown away, but what is left, if anything,   *)
(* starts with a video key frame.                                          *)
Discard == /\ \E k \in 1 .. Len(items) :
                 /\ items' = SubSeq(items, k + 1, Len(items))
                 /\ k < Len(items) => IsKeyVideo(items[k + 1])
           /\ UNCHANGED <<closed, caller, outcome>>

Close == /\ closed' = TRUE
         /\ UNCHANGED <<items, caller, outcome>>

Next == \/ Send \/ Discard \/ Close
        \/ \E c \in Consumers :
              Receive(c) \/ Refuse(c) \/ Block(c) \/ GiveUp(c)

(* A blocked caller is served once the channel has, and keeps having,      *)
(* something to tell it.                                                   *)
Serve(c) == /\ caller[c] = "blocked"
            /\ Receive(c) \/ Refuse(c)

SafeSpec == Init /\ [][Next]_chanVars

Spec == SafeSpec /\ \A c \in Consumers : WF_chanVars(Serve(c))
==============================================================================
