------------------------------ MODULE MCSender ------------------------------
(* Instances of Sender.  Connections, heartbeats and faults are bounded by *)
(* the constants of Sender, nothing else needs a bound.                    *)
EXTENDS Sender

MCStreamLengths == <<3, 0>>
MCShortStreams == <<2, 1>>
MCOneStream == <<3>>

(* The sender is quiet: connections served, channels empty.                *)
Quiescent ==
  /\ accepted = Len(StreamLengths)
  /\ \A w \in Workers : worker[w].pc = "recv"
  /\ heartbeats = Heartbeats
  /\ Len(wire) = Len(ordered)
  /\ to_server = <<>> /\ to_ordering = <<>>
  /\ ordering_pc = "recv"

(* A udp worker that has failed is known to block its producers for ever.  *)
MCNext ==
  \/ SenderNext
  \/ (Quiescent \/ udp_pc = "failed") /\ UNCHANGED senderVars

MCSpec == SenderInit /\ [][MCNext]_senderVars
MCFairSpec == MCSpec /\ Fairness
=============================================================================
