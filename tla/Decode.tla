------------------------------- MODULE Decode -------------------------------
(***************************************************************************)
(* diode-receive, from the diode link to the dispatch worker: the reblock  *)
(* worker of module Reblock and the nb_decode_threads decoding workers     *)
(* that turn its groups of packets back into protocol blocks, in parallel, *)
(* and pass them on in the order of the block_to_dispatch counter          *)
(* (receive/decode.rs).  The counter is shared: reblock overwrites it when *)
(* it starts afresh.  The channels are unbounded (receive/mod.rs).         *)
(***************************************************************************)
EXTENDS Reblock, FiniteSetsExt

CONSTANTS
  Decoders,         \* the decoding workers, nb_decode_threads of them
  None,             \* the None of Option<Block>: a lost block
  MaxDecodeFaults,  \* bound: how many blocks fail to decode
  SlowDecoders      \* whether reset_timeout may elapse while a decoder works

(* --decode-threads is a u8.                                               *)
ASSUME DecodersAssumption ==
  /\ IsFiniteSet(Decoders)
  /\ Cardinality(Decoders) \in 1 .. IdCount - 1
  /\ MaxDecodeFaults \in Nat /\ SlowDecoders \in BOOLEAN

VARIABLES
  taken,          \* how many messages of to_decode were received
  decoding,       \* what each decoding worker holds, None when it waits
  to_dispatch,    \* channel, as the log of what was sent to it
  decode_faults   \* blocks that failed to decode so far

ASSUME NoneAssumption == None \notin Reassembled

restOfReblock ==
  <<pending, lossy, blocks_data, blocks_ignore, cur_id, reset, to_decode,
    first>>
decodeVars == <<taken, decoding, to_dispatch, decode_faults>>
receiveVars == <<restOfReblock, block_to_dispatch, decodeVars>>
-----------------------------------------------------------------------------
DecodeInit ==
  /\ Init
  /\ taken = 0
  /\ decoding = [d \in Decoders |-> None]
  /\ to_dispatch = <<>>
  /\ decode_faults = 0

(* decode: receive a group of packets.  Only blocks come: Reblock never    *)
(* sends the Error message (theorem LossIsNeverReported).                  *)
DecodeRecv(d) ==
  /\ decoding[d] = None
  /\ taken < Len(to_decode)
  /\ taken' = taken + 1
  /\ decoding' = [decoding EXCEPT ![d] = to_decode[taken + 1]]
  /\ UNCHANGED <<restOfReblock, block_to_dispatch, to_dispatch,
                 decode_faults>>

(* decode: the packets do not make up a block.  The worker says so at once *)
(* and leaves block_to_dispatch as it is.                                  *)
DecodeFail(d) ==
  /\ decoding[d] # None
  /\ decode_faults < MaxDecodeFaults
  /\ decode_faults' = decode_faults + 1
  /\ to_dispatch' = Append(to_dispatch, None)
  /\ decoding' = [decoding EXCEPT ![d] = None]
  /\ UNCHANGED <<restOfReblock, block_to_dispatch, taken>>

(* What a decoding worker does in its critical section, once it may.       *)
PassOn(d) ==
  /\ decoding[d] # None
  /\ to_dispatch' = Append(to_dispatch, decoding[d])
  /\ decoding' = [decoding EXCEPT ![d] = None]
  /\ UNCHANGED <<restOfReblock, taken, decode_faults>>

(* Broken variants: do not wait, forget to increment the counter, do not   *)
(* wrap it.                                                                *)
DecodeSendNoWait(d) ==
  /\ PassOn(d)
  /\ block_to_dispatch' = WrappingAdd(block_to_dispatch, 1)

DecodeSendNoIncrement(d) ==
  /\ PassOn(d)
  /\ block_to_dispatch = decoding[d].id
  /\ UNCHANGED block_to_dispatch

DecodeSendNoWrap(d) ==
  /\ PassOn(d)
  /\ block_to_dispatch = decoding[d].id
  /\ block_to_dispatch' = block_to_dispatch + 1

(* decode: the critical section, as on the sending side.                   *)
DecodeSend(d) ==
  /\ PassOn(d)
  /\ block_to_dispatch = decoding[d].id
  /\ block_to_dispatch' = WrappingAdd(block_to_dispatch, 1)

(* Every decoding worker waits, for a message or for its turn.             *)
DecodersWait ==
  \A d \in Decoders :
    IF decoding[d] = None THEN taken = Len(to_decode)
                          ELSE decoding[d].id # block_to_dispatch

(* reset_timeout is seconds and decoding a block milliseconds: unless      *)
(* SlowDecoders, the decoders do what they can before it elapses.          *)
DecodeTimeout == (~ SlowDecoders => DecodersWait) /\ Timeout

ReblockStep ==
  /\ SendBlock \/ DecodeTimeout \/ ReceiveSome \/ Reassemble
  /\ UNCHANGED decodeVars

DecodeStep(d) == DecodeRecv(d) \/ DecodeFail(d) \/ DecodeSend(d)

DecodeNext == ReblockStep \/ \E d \in Decoders : DecodeStep(d)

DecodeSpec == DecodeInit /\ [][DecodeNext]_receiveVars

(* The workers are threads: each runs while it is not blocked.  Nothing is *)
(* assumed of the link, nor of the failures.                               *)
DecodeFairness ==
  /\ WF_receiveVars(Reassemble /\ UNCHANGED decodeVars)
  /\ \A d \in Decoders : WF_receiveVars(DecodeRecv(d) \/ DecodeSend(d))

DecodeFairSpec == DecodeSpec /\ DecodeFairness
-----------------------------------------------------------------------------
DecodeTypeOK ==
  /\ TypeOK
  /\ taken \in 0 .. Len(to_decode)
  /\ decoding \in [Decoders -> Reassembled \cup {None}]
  /\ to_dispatch \in Seq(Reassembled \cup {None})
  /\ decode_faults \in 0 .. MaxDecodeFaults

(* As long as every block decodes, the decoding workers never all wait for *)
(* each other in wait_while: one of those that hold a block holds the one  *)
(* that is due, restarts of the counter included (receive/decode.rs,       *)
(* receive/reblock.rs).                                                    *)
SomeDecoderMayPass ==
  decode_faults = 0 /\ (\E d \in Decoders : decoding[d] # None)
    => \E d \in Decoders :
         decoding[d] # None /\ decoding[d].id = block_to_dispatch

(* How many of the first i messages to dispatch are blocks.                *)
BlocksUpTo(i) == Cardinality({j \in 1 .. i : to_dispatch[j] # None})

(* No block waits for its number to come round a second time: none failed, *)
(* or so few since the start that those held and those lost are no more    *)
(* than a lap.                                                             *)
InSequence ==
  \/ decode_faults = 0
  \/ Len(first) <= 1 /\ decode_faults + Cardinality(Decoders) <= IdCount

(* A block that fails to decode leaves no hole behind it: until the next   *)
(* restart of the counter nothing that follows it is dispatched, and the   *)
(* n-th block dispatched is the n-th one that was reassembled              *)
(* (receive/decode.rs, where the counter is not incremented).              *)
NoHole ==
  InSequence =>
    \A i \in 1 .. Len(to_dispatch) : to_dispatch[i] # None =>
      /\ BlocksUpTo(i) <= Len(to_decode)
      /\ to_dispatch[i] = to_decode[BlocksUpTo(i)]

(* The blocks of the sender whose packets make up a message.               *)
SourcesOf(message) == {p.block : p \in message.packets}

(* Reblock and decoders together: as long as the link loses no more than   *)
(* the repair packets and reorders no more than the window, and every      *)
(* block decodes, what dispatch is given between two restarts is what the  *)
(* sender sent, from the block of the first datagram on, without a hole    *)
(* (receive/reblock.rs, receive/decode.rs).                                *)
DispatchedAsSent ==
  ~ lossy /\ decode_faults = 0 => \A i \in 1 .. Len(to_dispatch) :
    IF i = 1 \/ to_dispatch[i].epoch # to_dispatch[i - 1].epoch
    THEN SourcesOf(to_dispatch[i]) = {first[to_dispatch[i].epoch]}
    ELSE SourcesOf(to_dispatch[i]) =
           {s + 1 : s \in SourcesOf(to_dispatch[i - 1])}

(* What was dispatched before the first failure.                           *)
BeforeFault ==
  SubSeq(to_dispatch, 1,
         Min({Len(to_dispatch)}
               \cup {i - 1 : i \in {j \in DOMAIN to_dispatch :
                                    to_dispatch[j] = None}}))

(* Decoding is an ordered pipe from reblock to dispatch: blocks that are   *)
(* decoded in parallel, and across restarts of the counter, reach dispatch *)
(* in the order in which they were reassembled, until one fails to decode. *)
Pipe == INSTANCE OrderedPipe
  WITH Item <- Reassembled, accepted <- to_decode, delivered <- BeforeFault
ImplementsOrderedPipe == Pipe!PipeSpec

(* The n-th block handed over by reblock reaches dispatch at last, if all  *)
(* decode.                                                                 *)
ReachesDispatch(n) ==
  Len(to_decode) >= n ~> Len(to_dispatch) >= n \/ decode_faults > 0

(* The reset timeout puts the decoders back to work ("Reset diode if no    *)
(* data are received after duration", bin/diode-receive.rs): when blocks   *)
(* have been reassembled since the last one, some of them is dispatched.   *)
RestartRecovers ==
  []<>(to_decode # <<>> /\ to_decode[Len(to_decode)].epoch > 1 =>
         \E i \in 1 .. Len(to_dispatch) :
           /\ to_dispatch[i] # None
           /\ to_dispatch[i].epoch = to_decode[Len(to_decode)].epoch)
=============================================================================
