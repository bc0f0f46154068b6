----------------------------- MODULE MCReblock -----------------------------
(* Bounded instance of Reblock: MaxBlocks blocks and MaxRestarts restarts. *)
(* The numbers of packets are those that module Protocol computes for      *)
(* blocks of two symbols.                                                  *)
EXTENDS Reblock, Protocol

CONSTANTS MaxBlocks, MaxRestarts

MCNbPackets == NbPacketsOf(SenderRaptorQ(88, 112, 60))
MCMinPackets == MinNbPacketsOf(ReceiverRaptorQ(88, 112, 60, 40))

MCNext ==
  \/ Sent < MaxBlocks /\ SendBlock
  \/ Len(first) < MaxRestarts /\ Timeout
  \/ ReceiveSome
  \/ Reassemble

MCSpec == Init /\ [][MCNext]_vars

(* What module Protocol says of its operators, on the values of this       *)
(* instance.                                                               *)
ASSUME ProtocolHere == EnoughIsSent /\ BlockRoundTrip

MCMtus == {40, 47, 48, 88, 255}
MCBlockSizes == {0, 7, 8, 9, 15, 16, 33, 112, 1000, 1600, 65535}

(* Among these values are some that RaptorQ::new accepts and with which    *)
(* min_nb_packets wraps.                                                   *)
ASSUME WrapsHere ==
  \E mtu \in MCMtus, block_size \in MCBlockSizes :
    LET r == ReceiverRaptorQ(mtu, block_size, 100, 100)
    IN IsMade(r) /\ ~ MinNbPacketsFits(r)
=============================================================================
