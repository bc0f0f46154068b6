----------------------------- MODULE MCReceiver -----------------------------
(* Bounded instance of Receiver: MaxRestarts restarts of reblock.          *)
EXTENDS Receiver

CONSTANT MaxRestarts

MCReblockStep ==
  ReblockStep /\ Len(first') <= MaxRestarts

MCNext ==
  \/ MCReblockStep
  \/ \E d \in Decoders : DecodeStep(d)
  \/ DispatchStep
  \/ \E w \in Workers : WorkerStep(w)

MCSpec == Init /\ [][MCNext]_vars
MCFairSpec == MCSpec /\ Fairness

(* Two transfers of a sender; only the first block of the second one comes *)
(* while the first one is sent.                                            *)
MCTransfers ==
  << [client |-> 0, run |-> 1, last |-> 3, ends |-> "end"],
     [client |-> 1, run |-> 1, last |-> 1, ends |-> "end"] >>

(* The blocks of these transfers, as Block of module Dispatch has them.     *)
MCBlock(t, pos) ==
  [type |-> IF pos = 0 THEN "start"
            ELSE IF pos = MCTransfers[t].last THEN "end" ELSE "data",
   client |-> MCTransfers[t].client, transfer |-> t, pos |-> pos]

MCTraffic ==
  << MCBlock(1, 0), MCBlock(2, 0), MCBlock(1, 1), MCBlock(1, 2),
     MCBlock(1, 3) >>
=============================================================================
