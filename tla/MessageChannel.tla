--------------------------- MODULE MessageChannel ----------------------------
(***************************************************************************)
(* What MessageQueue promises the threads around it, with no mutex and no  *)
(* condition variable: messages come out in order and once; a caller with  *)
(* a deadline gets an answer in any case, a caller without one only if     *)
(* there is a message for it.  Unlike PacketChannel, closing it tells      *)
(* nobody: who asks is refused, and who waits may wait on.                 *)
(***************************************************************************)
EXTENDS Naturals, Sequences

CONSTANTS Callers,     (* threads that ask for messages                     *)
          Message      (* the messages; each has the field what             *)

VARIABLES items,       (* messages accepted and not yet handed out          *)
          closed,      (* TRUE once the channel was closed                  *)
          caller,      (* per caller: "idle", or waiting "timed", that is   *)
                       (* with a deadline, or "forever"                     *)
          outcome      (* what the last call of each caller returned        *)

chanVars == <<items, closed, caller, outcome>>

Init == /\ items = <<>>
        /\ closed = FALSE
        /\ caller = [c \in Callers |-> "idle"]
        /\ outcome = [c \in Callers |-> "none"]

Answer(c, r) == /\ caller' = [caller EXCEPT ![c] = "idle"]
                /\ outcome' = [outcome EXCEPT ![c] = r]

Put == /\ ~closed
       /\ \E msg \in Message : items' = Append(items, msg)
       /\ UNCHANGED <<closed, caller, outcome>>

(* The oldest message goes to exactly one caller. *)
Receive(c) == /\ ~closed
              /\ items # <<>>
              /\ items' = Tail(items)
              /\ Answer(c, "message")
              /\ UNCHANGED closed

Refuse(c) == /\ closed
             /\ Answer(c, "abort")
             /\ UNCHANGED <<items, closed>>

(* "Nothing there" is said only truthfully: at once, ... *)
Poll(c) == /\ ~closed
           /\ items = <<>>
           /\ caller[c] = "idle"
           /\ Answer(c, "empty")
           /\ UNCHANGED <<items, closed>>

(* ... or after a wait, and then even by a closed channel. *)
GiveUp(c) == /\ items = <<>>
             /\ caller[c] = "timed"
             /\ Answer(c, "empty")
             /\ UNCHANGED <<items, closed>>

Block(c, patience) == /\ ~closed
                      /\ items = <<>>
                      /\ caller[c] = "idle"
                      /\ caller' = [caller EXCEPT ![c] = patience]
                      /\ outcome' = [outcome EXCEPT ![c] = "none"]
                      /\ UNCHANGED <<items, closed>>

(* All messages of one type are withdrawn, the others keep their order. *)
Withdraw == /\ ~closed
            /\ \E msg \in Message :
                 LET kept == {i \in DOMAIN items : items[i].what # msg.what}
                 IN  \E n \in 0 .. Len(items) : \E at \in [1 .. n -> kept] :
                        /\ \A j, k \in DOMAIN at : j < k => at[j] < at[k]
                        /\ \A i \in kept : \E k \in DOMAIN at : at[k] = i
                        /\ items' = [k \in DOMAIN at |-> items[at[k]]]
            /\ UNCHANGED <<closed, caller, outcome>>

Clear == items' = <<>> /\ UNCHANGED <<closed, caller, outcome>>

Close == closed' = TRUE /\ UNCHANGED <<items, caller, outcome>>

Next == \/ Put \/ Withdraw \/ Clear \/ Close
        \/ \E c \in Callers :
              \/ Receive(c) \/ Refuse(c) \/ Poll(c) \/ GiveUp(c)
              \/ \E patience \in {"timed", "forever"} : Block(c, patience)

(* A caller with a deadline is answered, ... *)
Conclude(c) == /\ caller[c] = "timed"
               /\ Receive(c) \/ Refuse(c) \/ GiveUp(c)

(* ... and any caller gets a message that stays there for it. *)
Serve(c) == caller[c] # "idle" /\ Receive(c)

SafeSpec == Init /\ [][Next]_chanVars

Spec == /\ SafeSpec
        /\ \A c \in Callers : WF_chanVars(Conclude(c)) /\ WF_chanVars(Serve(c))
==============================================================================
