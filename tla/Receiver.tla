------------------------------ MODULE Receiver ------------------------------
(***************************************************************************)
(* The whole of diode-receive, from the diode link to the client sockets   *)
(* (receive/mod.rs, Receiver::start): the reblock and decoding workers of  *)
(* module Decode feed the dispatch and client workers of module Dispatch.  *)
(*                                                                         *)
(* What the sender puts on the link is the sequence Traffic, the blocks of *)
(* some transfers.  Dispatch alone has to assume how blocks get lost; here *)
(* they are lost by the link, by a restart of the reblock worker, by a     *)
(* decoder that fails, and the None of that decoder comes when it comes.   *)
(***************************************************************************)
EXTENDS Integers, Sequences, FiniteSets, SequencesExt

CONSTANTS
  Traffic,   \* the blocks that are sent, in order
  Transfers, Workers, AbortTimeout, MaxFaults,  \* of Dispatch
  Decoders, MaxDecodeFaults, SlowDecoders,      \* of Decode
  IdCount, NbPackets, MinPackets, MaxSkew, MaxBatch,  \* of Reblock
  None

VARIABLES
  pending, lossy, blocks_data, blocks_ignore, cur_id, reset,
  block_to_dispatch, to_decode, first,            \* of Reblock
  taken, decoding, to_dispatch, decode_faults,    \* of Decode
  dispatched,  \* how many messages of to_dispatch were received
  active_transfers, ended_transfers, queue, to_clients, worker,
  multiplex_control, written, outcome, faults     \* of Dispatch

D == INSTANCE Decode

(* The block that a decoder sends.  A group of packets is not made of two  *)
(* blocks, nor does a decoder wait for a number a lap later: the traffic   *)
(* is shorter than the circle of block numbers.                            *)
Decoded(message) ==
  IF message = None THEN None
  ELSE LET source == CHOOSE p \in message.packets : TRUE
       IN Traffic[source.block]

(* What dispatch has not received yet.                                     *)
Undispatched ==
  [i \in 1 .. Len(to_dispatch) - dispatched |->
     Decoded(to_dispatch[dispatched + i])]

(* The senders of module Dispatch are replaced by what the decoders send.  *)
X == INSTANCE Dispatch
  WITH run <- 1, next <- [t \in DOMAIN Transfers |-> 0], reported <- 0,
       damaged <- {}, MaxLost <- 0, for_dispatch <- Undispatched

(* The assumptions of the two halves.                                      *)
ASSUME HalvesAssumption ==
  /\ IdCount \in Nat /\ IdCount > 3
  /\ NbPackets \in Nat /\ MinPackets \in 1 .. NbPackets
  /\ MaxSkew \in Nat \ {0} /\ MaxBatch \in Nat \ {0}
  /\ IsFiniteSet(Decoders) /\ Cardinality(Decoders) \in 1 .. IdCount - 1
  /\ MaxDecodeFaults \in Nat /\ SlowDecoders \in BOOLEAN
  /\ IsFiniteSet(Workers) /\ Workers # {}
  /\ AbortTimeout \in BOOLEAN /\ MaxFaults \in Nat
  /\ Transfers \in Seq([client : Nat, run : Nat, last : Nat \ {0},
                         ends : {"end", "abort"}])
  /\ \A s, t \in DOMAIN Transfers :
       Transfers[s].client = Transfers[t].client => s = t
  /\ None \notin D!Reassembled \cup X!T \cup X!Blocks \cup X!Outcomes

(* One run of the sender, and what it does with its transfers: the blocks  *)
(* of each come in their order, those of several may take turns (theorem   *)
(* StreamIntactCorrect of Sender_proofs).                                  *)
ASSUME TrafficAssumption ==
  /\ Traffic \in Seq(X!Blocks) /\ Len(Traffic) < IdCount
  /\ \A t \in DOMAIN Transfers : Transfers[t].run = 1
  /\ \A s \in DOMAIN Traffic :
       \E t \in DOMAIN Transfers : \E pos \in 0 .. Transfers[t].last :
         /\ Traffic[s] = X!Block(t, pos)
         /\ pos > 0 => \E r \in 1 .. s - 1 : Traffic[r] = X!Block(t, pos - 1)
         /\ pos = 0 => \A u \in 1 .. t - 1 :
                         \E r \in 1 .. s - 1 : Traffic[r] = X!Block(u, 0)
         /\ \A r \in 1 .. s - 1 :
              Traffic[r].transfer = t => Traffic[r].pos < pos

decodeVars == <<taken, decoding, to_dispatch, decode_faults>>
receiveVars ==
  <<pending, lossy, blocks_data, blocks_ignore, cur_id, reset,
    block_to_dispatch, to_decode, first, decodeVars>>
clientSide ==
  <<dispatched, active_transfers, ended_transfers, queue, to_clients, worker,
    multiplex_control, written, outcome, faults>>
vars == <<receiveVars, clientSide>>
-----------------------------------------------------------------------------
Init ==
  /\ D!DecodeInit
  /\ dispatched = 0
  /\ X!Init

(* The udp and reblock workers, and the link.                              *)
ReblockStep ==
  /\ \/ D!Sent < Len(Traffic) /\ D!SendBlock
     \/ D!DecodeTimeout
     \/ D!ReceiveSome
     \/ D!Reassemble
  /\ UNCHANGED <<decodeVars, clientSide>>

DecodeStep(d) == D!DecodeStep(d) /\ UNCHANGED clientSide

(* dispatch receives what the decoders sent, in the order of their sends.  *)
DispatchStep ==
  /\ dispatched < Len(to_dispatch)
  /\ dispatched' = dispatched + 1
  /\ UNCHANGED receiveVars
  /\ X!DispatchStep

WorkerStep(w) ==
  /\ UNCHANGED <<receiveVars, dispatched>>
  /\ X!WorkerStep(w)

Next ==
  \/ ReblockStep
  \/ \E d \in Decoders : DecodeStep(d)
  \/ DispatchStep
  \/ \E w \in Workers : WorkerStep(w)

Spec == Init /\ [][Next]_vars

(* The workers are threads: each runs while it is not blocked.  Nothing is *)
(* assumed of the link, of the timeout, nor of the failures.               *)
Fairness ==
  /\ WF_vars(D!Reassemble /\ UNCHANGED <<decodeVars, clientSide>>)
  /\ \A d \in Decoders :
       WF_vars((D!DecodeRecv(d) \/ D!DecodeSend(d)) /\ UNCHANGED clientSide)
  /\ WF_vars(DispatchStep)
  /\ \A w \in Workers : WF_vars(WorkerStep(w))

FairSpec == Spec /\ Fairness
-----------------------------------------------------------------------------
(* The types of what joins the two halves; those of the halves are in      *)
(* their modules.                                                          *)
TypeOK ==
  /\ D!DecodeTypeOK
  /\ X!TypeOK
  /\ dispatched \in 0 .. Len(to_dispatch)

(* Whatever the link loses, delays or reorders, however reblock restarts   *)
(* and decoders fail or overtake each other, diode-receive keeps the       *)
(* promise of module Delivery: own blocks only, in order, at most once,    *)
(* and one outcome after which nothing is written (receive/mod.rs, the     *)
(* workers of Receiver::start taken together).                             *)
Promise ==
  INSTANCE Delivery WITH Ids <- DOMAIN Transfers, Blocks <- ToSet(Traffic),
                         delivered <- written

ImplementsDelivery == Promise!Spec

(* The positions in Traffic of the blocks of a transfer.                   *)
Of(t) == {s \in DOMAIN Traffic : Traffic[s].transfer = t}

(* The blocks handed over by reblock so far.                               *)
HandedOver == UNION {D!Sources(i) : i \in DOMAIN to_decode}

(* No block comes before its turn where reblock starts (afresh): the first *)
(* datagram is one of the block that is due.                               *)
StartsInTurn ==
  /\ first # <<>> => first[1] = 1
  /\ \A i \in 2 .. Len(to_decode) :
       \A s \in D!Sources(i - 1) : D!Sources(i) = {s + 1}

(* On a link that loses no more than the repair packets, and as long as no *)
(* block fails to decode, a client that is told of a success got all of    *)
(* it, through restarts of the reblock worker, if they do not happen where *)
(* packets of two blocks come in the wrong order (receive/reblock.rs,      *)
(* receive/decode.rs, receive/client.rs).                                  *)
FinishedIsCompleteIfClean ==
  ~ lossy /\ decode_faults = 0 /\ StartsInTurn => X!FinishedIsComplete

(* The same with blocks that fail to decode: the None of such a block      *)
(* fails the transfers that are active, so that none of them misses a      *)
(* block and ends as a success all the same (receive/decode.rs,            *)
(* receive/dispatch.rs, "Marking all active transfers as failed").         *)
FailureMarksTransfers == ~ lossy /\ StartsInTurn => X!FinishedIsComplete

(* A transfer whose blocks are all handed over by reblock is finished at   *)
(* last, unless a block fails to decode, whatever became of the other      *)
(* transfers (receive/dispatch.rs).                                        *)
HandedOverIsFinished ==
  \A t \in DOMAIN Transfers :
    Of(t) \subseteq HandedOver /\ Cardinality(Of(t)) > Transfers[t].last
      ~> outcome[t] = "finished" \/ decode_faults > 0
=============================================================================
