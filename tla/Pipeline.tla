------------------------------ MODULE Pipeline -------------------------------
(***************************************************************************)
(* What rtsp-pusher promises as a whole, with no threads, no flags and no  *)
(* joins: packets come from a live source, go out one at a time and in     *)
(* their order, may be given up from the oldest on, and stop coming before *)
(* the pipeline closes.  It closes with nothing on its way out, and once   *)
(* told to stop it does close.                                             *)
(***************************************************************************)
EXTENDS Naturals, Sequences

CONSTANT Packet    (* the packets; each has the fields media and key        *)

VARIABLES
  phase,           (* "building", "live", "stopping" (the source is told to *)
                   (* stop), "draining" (it has stopped) or "closed"        *)
  backlog,         (* packets accepted and not yet taken or given up        *)
  out              (* the packet on its way out, if any                     *)

pipeVars == <<phase, backlog, out>>

Init == phase = "building" /\ backlog = <<>> /\ out = <<>>

IsKeyVideo(p) == p.media = "video" /\ p.key

Open == /\ phase = "building"
        /\ phase' = "live"
        /\ UNCHANGED <<backlog, out>>

(* Building may be given up, and a live pipeline be told to stop. *)
Stop == /\ phase \in {"building", "live"}
        /\ phase' = "stopping"
        /\ UNCHANGED <<backlog, out>>

(* The source delivers until it is seen to have stopped. *)
Accept == /\ phase \in {"live", "stopping"}
          /\ \E p \in Packet : backlog' = Append(backlog, p)
          /\ UNCHANGED <<phase, out>>

Seal == /\ phase = "stopping"
        /\ phase' = "draining"
        /\ UNCHANGED <<backlog, out>>

(* The oldest packet goes out, when none is. *)
Take == /\ phase \in {"live", "stopping", "draining"}
        /\ out = <<>> /\ backlog # <<>>
        /\ out' = <<Head(backlog)>>
        /\ backlog' = Tail(backlog)
        /\ UNCHANGED phase

(* Sent, refused by the server or interrupted: it is not tried again. *)
Finish == /\ out # <<>>
          /\ out' = <<>>
          /\ UNCHANGED <<phase, backlog>>

(* What is left of the backlog, if anything, starts with a key frame. *)
GiveUp == /\ phase \in {"live", "stopping", "draining"}
          /\ \E k \in 1 .. Len(backlog) :
                /\ backlog' = SubSeq(backlog, k + 1, Len(backlog))
                /\ k < Len(backlog) => IsKeyVideo(backlog[k + 1])
          /\ UNCHANGED <<phase, out>>

Close == /\ phase = "draining"
         /\ out = <<>>
         /\ phase' = "closed"
         /\ backlog' = <<>>
         /\ UNCHANGED out

Next == Open \/ Stop \/ Accept \/ Seal \/ Take \/ Finish \/ GiveUp \/ Close

SafeSpec == Init /\ [][Next]_pipeVars

(* Nothing obliges a source to deliver or a user to stop; what is out is   *)
(* finished and what is told to stop closes, whatever the server does.     *)
Spec == /\ SafeSpec
        /\ WF_pipeVars(Seal) /\ WF_pipeVars(Finish) /\ WF_pipeVars(Close)
==============================================================================
