------------------------------ MODULE MCDecode ------------------------------
(* Bounded instance of Decode: MaxBlocks blocks and MaxRestarts restarts.  *)
EXTENDS Decode

CONSTANTS MaxBlocks, MaxRestarts

MCReblockStep ==
  /\ \/ Sent < MaxBlocks /\ SendBlock
     \/ Len(first) < MaxRestarts /\ DecodeTimeout
     \/ ReceiveSome
     \/ Reassemble
  /\ UNCHANGED decodeVars

MCNext == MCReblockStep \/ \E d \in Decoders : DecodeStep(d)

MCSpec == DecodeInit /\ [][MCNext]_receiveVars
MCFairSpec == MCSpec /\ DecodeFairness

(* Every block handed over by reblock reaches dispatch (receive/decode.rs).*)
EveryBlockDispatched == \A n \in 1 .. MaxBlocks : ReachesDispatch(n)
=============================================================================
