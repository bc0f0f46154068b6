---------------------------- MODULE SendPipeline ----------------------------
(***************************************************************************)
(* The second half of diode-send: the ordering worker numbers the blocks   *)
(* it is given (send/ordering.rs), nb_encode_threads encoding workers turn *)
(* them into RaptorQ packets in parallel and put them back in order with   *)
(* the block_to_send counter and its condition variable                    *)
(* (send/encoding.rs), and the udp worker sends the packets on the diode   *)
(* link (send/udp.rs).  The three channels between them are bounded by     *)
(* nb_encode_threads (send/mod.rs).                                        *)
(*                                                                         *)
(* The producers of blocks (client workers, heartbeat, stop) are an        *)
(* environment here; module Sender replaces it by the real workers.        *)
(***************************************************************************)
EXTENDS Integers, Sequences, FiniteSets

CONSTANTS
  Encoders,   \* the encoding workers, nb_encode_threads of them
  IdCount,    \* number of block numbers: 2^8, an id being a u8
  Block,      \* the protocol blocks
  None,       \* the None of Option<Block>: the request to stop
  MaxUdpFaults \* bound: how many times sendmsg/sendmmsg may fail

N == Cardinality(Encoders)

(* --encode-threads is a u8.  0 is accepted by the command line but leaves *)
(* no encoding worker at all; the model starts at 1.                       *)
ASSUME EncodersAssumption ==
  /\ IsFiniteSet(Encoders)
  /\ N \in 1 .. IdCount - 1

ASSUME IdCountAssumption == IdCount \in Nat /\ IdCount > 1

BlockId == 0 .. IdCount - 1

(* A numbered block.  seq is the position at which ordering numbered it;   *)
(* the program keeps only id, that is seq - 1 modulo IdCount.              *)
Item == [id : BlockId, block : Block, seq : Nat]

(* A null that is neither a block nor a numbered block.                    *)
ASSUME NoneAssumption == None \notin Block /\ None \notin Item

ASSUME FaultAssumption == MaxUdpFaults \in Nat

VARIABLES
  to_ordering,    \* channel: Option<Block>
  ordering_pc,    \* ordering worker: where it stands
  ordering_held,  \* the block it has received and not yet sent
  ordering_id,    \* its local variable id
  to_encoding,    \* channel: numbered blocks
  encoding,       \* what each encoding worker holds, None when it waits
  block_to_send,  \* the counter under the mutex
  to_send,        \* channel: Option<packets of a block>
  udp_pc,         \* udp worker: where it stands
  udp_count,      \* its local variable count
  udp_faults,     \* failed socket calls so far
  wire,           \* history: the blocks whose packets were sent
  ordered,        \* history: the blocks in the order they were numbered
  passed          \* history: how many blocks have passed block_to_send

orderingVars == <<ordering_pc, ordering_held, ordering_id>>
udpVars == <<udp_pc, udp_count, udp_faults, wire>>
pipelineVars ==
  <<to_ordering, orderingVars, to_encoding, encoding, block_to_send, to_send,
    udpVars, ordered, passed>>

(* Broken variant: no wrapping.                                            *)
PlainAdd(a, b) == a + b

WrappingAdd(a, b) == (a + b) % IdCount

HasRoom(channel) == Len(channel) < N
-----------------------------------------------------------------------------
Init ==
  /\ to_ordering = <<>>
  /\ ordering_pc = "recv"
  /\ ordering_held = None
  /\ ordering_id = 0
  /\ to_encoding = <<>>
  /\ encoding = [e \in Encoders |-> None]
  /\ block_to_send = 0
  /\ to_send = <<>>
  /\ udp_pc = "loop"
  /\ udp_count = 0
  /\ udp_faults = 0
  /\ wire = <<>>
  /\ ordered = <<>>
  /\ passed = 0

(* A producer sends to the ordering worker: a block, or None to stop.      *)
SubmitTo(message) ==
  /\ HasRoom(to_ordering)
  /\ to_ordering' = Append(to_ordering, message)

Submit ==
  /\ \E message \in Block \cup {None} : SubmitTo(message)
  /\ UNCHANGED <<orderingVars, to_encoding, encoding, block_to_send, to_send,
                 udpVars, ordered, passed>>

(* ordering: receive a block, or None, after which it will only pass None  *)
(* on, straight to the udp worker.                                         *)
OrderingRecv ==
  /\ ordering_pc = "recv"
  /\ to_ordering # <<>>
  /\ to_ordering' = Tail(to_ordering)
  /\ ordering_held' = Head(to_ordering)
  /\ ordering_pc' = IF Head(to_ordering) = None THEN "stop" ELSE "send"
  /\ UNCHANGED <<ordering_id, to_encoding, encoding, block_to_send, to_send,
                 udpVars, ordered, passed>>

OrderingSend ==
  /\ ordering_pc = "send"
  /\ HasRoom(to_encoding)
  /\ LET item == [id |-> ordering_id, block |-> ordering_held,
                  seq |-> Len(ordered) + 1]
     IN /\ to_encoding' = Append(to_encoding, item)
        /\ ordered' = Append(ordered, item)
  /\ ordering_id' = WrappingAdd(ordering_id, 1)
  /\ ordering_pc' = "recv"
  /\ ordering_held' = None
  /\ UNCHANGED <<to_ordering, encoding, block_to_send, to_send, udpVars,
                 passed>>

OrderingStop ==
  /\ ordering_pc = "stop"
  /\ HasRoom(to_send)
  /\ to_send' = Append(to_send, None)
  /\ ordering_pc' = "done"
  /\ UNCHANGED <<to_ordering, ordering_held, ordering_id, to_encoding,
                 encoding, block_to_send, udpVars, ordered, passed>>

(* encoding: take a numbered block and encode it.  The None branch of the  *)
(* worker is not modelled: ordering is the only producer of to_encoding    *)
(* and never sends None to it.                                             *)
EncodingRecv(e) ==
  /\ encoding[e] = None
  /\ to_encoding # <<>>
  /\ encoding' = [encoding EXCEPT ![e] = Head(to_encoding)]
  /\ to_encoding' = Tail(to_encoding)
  /\ UNCHANGED <<to_ordering, orderingVars, block_to_send, to_send, udpVars,
                 ordered, passed>>

(* What an encoding worker does in its critical section, once it may.      *)
PassOn(e) ==
  /\ encoding[e] # None
  /\ HasRoom(to_send)
  /\ to_send' = Append(to_send, encoding[e])
  /\ encoding' = [encoding EXCEPT ![e] = None]
  /\ passed' = passed + 1
  /\ UNCHANGED <<to_ordering, orderingVars, to_encoding, udpVars, ordered>>

(* Broken variants: wait until the counter has reached the id, do not wait *)
(* at all, forget to increment the counter.                                *)
EncodingSendReached(e) ==
  /\ PassOn(e)
  /\ block_to_send >= encoding[e].id
  /\ block_to_send' = WrappingAdd(block_to_send, 1)

EncodingSendNoWait(e) ==
  /\ PassOn(e)
  /\ block_to_send' = WrappingAdd(block_to_send, 1)

EncodingSendNoIncrement(e) ==
  /\ PassOn(e)
  /\ block_to_send = encoding[e].id
  /\ UNCHANGED block_to_send

(* encoding: the critical section.  wait_while holds the worker until the  *)
(* counter is its id; the send and the increment happen under the mutex.   *)
EncodingSend(e) ==
  /\ PassOn(e)
  /\ block_to_send = encoding[e].id
  /\ block_to_send' = WrappingAdd(block_to_send, 1)

(* udp: send the packets of a block, in the main loop or while draining.   *)
UdpSend ==
  /\ udp_pc \in {"loop", "drain"}
  /\ to_send # <<>>
  /\ Head(to_send) # None
  /\ to_send' = Tail(to_send)
  /\ wire' = Append(wire, Head(to_send))
  /\ UNCHANGED <<to_ordering, orderingVars, to_encoding, encoding,
                 block_to_send, udp_pc, udp_count, udp_faults, ordered,
                 passed>>

(* Broken variant: forget the block and go on after a socket error.        *)
UdpFailGoesOn ==
  /\ udp_pc \in {"loop", "drain"}
  /\ udp_faults < MaxUdpFaults
  /\ to_send # <<>>
  /\ Head(to_send) # None
  /\ to_send' = Tail(to_send)
  /\ udp_faults' = udp_faults + 1
  /\ UNCHANGED <<to_ordering, orderingVars, to_encoding, encoding,
                 block_to_send, udp_pc, udp_count, wire, ordered, passed>>

(* udp: a socket error ends the worker, the process lives on.              *)
UdpFail ==
  /\ udp_pc \in {"loop", "drain"}
  /\ udp_faults < MaxUdpFaults
  /\ to_send # <<>>
  /\ Head(to_send) # None
  /\ to_send' = Tail(to_send)
  /\ udp_faults' = udp_faults + 1
  /\ udp_pc' = "failed"
  /\ UNCHANGED <<to_ordering, orderingVars, to_encoding, encoding,
                 block_to_send, udp_count, wire, ordered, passed>>

(* udp: the first None makes it wait for one None more per other encoding  *)
(* worker, the last one ends it.                                           *)
UdpNone ==
  /\ udp_pc \in {"loop", "drain"}
  /\ to_send # <<>>
  /\ Head(to_send) = None
  /\ to_send' = Tail(to_send)
  /\ udp_count' = IF udp_pc = "loop" THEN N - 1 ELSE udp_count - 1
  /\ udp_pc' = IF udp_count' = 0 THEN "done" ELSE "drain"
  /\ UNCHANGED <<to_ordering, orderingVars, to_encoding, encoding,
                 block_to_send, udp_faults, wire, ordered, passed>>

Pipeline ==
  \/ OrderingRecv
  \/ OrderingSend
  \/ OrderingStop
  \/ \E e \in Encoders : EncodingRecv(e) \/ EncodingSend(e)
  \/ UdpSend
  \/ UdpFail
  \/ UdpNone

Next == Submit \/ Pipeline

Spec == Init /\ [][Next]_pipelineVars
-----------------------------------------------------------------------------
TypeOK ==
  /\ to_ordering \in Seq(Block \cup {None})
  /\ ordering_pc \in {"recv", "send", "stop", "done"}
  /\ ordering_held \in Block \cup {None}
  /\ ordering_id \in BlockId
  /\ to_encoding \in Seq(Item)
  /\ encoding \in [Encoders -> Item \cup {None}]
  /\ block_to_send \in BlockId
  /\ to_send \in Seq(Item \cup {None})
  /\ udp_pc \in {"loop", "drain", "done", "failed"}
  /\ udp_count \in 0 .. N
  /\ udp_faults \in 0 .. MaxUdpFaults
  /\ wire \in Seq(Item)
  /\ ordered \in Seq(Item)
  /\ passed \in Nat

(* The packets reach the socket in the order in which ordering numbered    *)
(* the blocks, without a hole and without a repetition, whatever the       *)
(* interleaving of the encoding workers: the condition variable with an    *)
(* 8-bit counter never lets a worker pass whose block is a whole lap ahead *)
(* (send/encoding.rs, wait_while).                                         *)
WireInOrder ==
  /\ Len(wire) <= Len(ordered)
  /\ \A i \in 1 .. Len(wire) : wire[i] = ordered[i]

(* The receiver relies on it: successive blocks on the link carry          *)
(* successive block numbers, wrapping from 255 to 0 (send/ordering.rs).    *)
WireIdsConsecutive ==
  \A i \in 1 .. Len(wire) :
    wire[i].id = IF i = 1 THEN 0 ELSE WrappingAdd(wire[i - 1].id, 1)

(* An encoding worker can always be woken up: among the workers that hold  *)
(* a block one holds the block whose number is block_to_send, so they never *)
(* all wait for each other in wait_while (send/encoding.rs).               *)
SomeEncoderMayPass ==
  (\E e \in Encoders : encoding[e] # None)
    => \E e \in Encoders : encoding[e] # None /\ encoding[e].id = block_to_send

(* The stage is an ordered pipe from the ordering worker to the socket.    *)
Pipe == INSTANCE OrderedPipe WITH accepted <- ordered, delivered <- wire
ImplementsOrderedPipe == Pipe!PipeSpec
=============================================================================
