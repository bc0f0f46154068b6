------------------------------ MODULE Reblock ------------------------------
(***************************************************************************)
(* diode-receive, from the diode link to the decoders: the udp worker      *)
(* receives datagrams one by one or by batches (receive/udp.rs, udp.rs),   *)
(* the reblock worker groups the packets by block number in a sliding      *)
(* window of 8-bit numbers, hands a block over as soon as it has enough    *)
(* packets, and starts afresh with the first datagram that follows a       *)
(* silence of reset_timeout (receive/reblock.rs).                          *)
(*                                                                         *)
(* The link is the environment: it loses and reorders packets and, being a *)
(* single wire, does not duplicate them.  A packet is abstracted to the    *)
(* position of its block in the sender's sequence of blocks, which the     *)
(* receiver only sees modulo IdCount; the packets of a block being         *)
(* interchangeable, they are told apart by the order of their arrival.     *)
(***************************************************************************)
EXTENDS Integers, Sequences, FiniteSets

CONSTANTS
  IdCount,     \* number of block numbers: 2^8, an id being a u8
  NbPackets,   \* RaptorQ::nb_packets, sent for each block
  MinPackets,  \* RaptorQ::min_nb_packets, enough to decode a block
  MaxSkew,     \* link: a packet comes less than MaxSkew blocks late
  MaxBatch     \* --batch: most datagrams received at once

ASSUME IdCountAssumption == IdCount \in Nat /\ IdCount > 3

ASSUME LinkAssumption ==
  /\ NbPackets \in Nat /\ MinPackets \in 1 .. NbPackets
  /\ MaxSkew \in Nat \ {0} /\ MaxBatch \in Nat \ {0}

VARIABLES
  pending,           \* link: for each block sent, its packets in flight
  lossy,             \* history: some block had less than MinPackets packets
                     \* through
  blocks_data,       \* for each block number, the packets received
  blocks_ignore,     \* the block numbers out of the window
  cur_id,            \* the block number to hand over next
  reset,             \* whether the next datagram starts afresh
  block_to_dispatch, \* the counter of the decoders, under its mutex
  to_decode,         \* channel, as the log of what was sent to it
  first              \* history: for each restart, its first block

linkVars == <<pending, lossy>>
reblockVars == <<blocks_data, blocks_ignore, cur_id, reset,
                 block_to_dispatch, to_decode, first>>
vars == <<linkVars, reblockVars>>

BlockId == 0 .. IdCount - 1

(* Broken variant: only the current block is collected.                    *)
WindowOfOne == 1

WindowWidth == (IdCount - 1) \div 2

WrappingAdd(a, b) == (a + b) % IdCount

(* Broken variant: numbers wider than a u8.                                *)
IdOfWide(s) == s - 1

(* The number the sender gives its block at position s.                    *)
IdOf(s) == (s - 1) % IdCount

Sent == Len(pending)

Packet == [block : Nat, nth : Int]

Reassembled == [kind : {"block", "error"}, id : BlockId,
                packets : SUBSET Packet, epoch : Nat]

(* What is sent to the decoders.                                           *)
Block(id, packets) ==
  [kind |-> "block", id |-> id, packets |-> packets, epoch |-> Len(first)]
Error ==
  [kind |-> "error", id |-> 0, packets |-> {}, epoch |-> Len(first)]

(* The loop guard of the worker: the current block can be handed over.     *)
CurrentIsComplete == Cardinality(blocks_data[cur_id]) >= MinPackets
-----------------------------------------------------------------------------
Init ==
  /\ pending = <<>>
  /\ lossy = FALSE
  /\ blocks_data = [id \in BlockId |-> {}]
  /\ blocks_ignore = [id \in BlockId |-> TRUE]
  /\ cur_id = 0
  /\ reset = TRUE
  /\ block_to_dispatch = 0
  /\ to_decode = <<>>
  /\ first = <<>>

Enough(s) == NbPackets - pending[s] >= MinPackets

(* Link: the packets of one more block leave the sender; what is MaxSkew   *)
(* blocks late will not come any more.                                     *)
SendBlock ==
  /\ lossy' = (lossy \/ \E s \in 1 .. Sent + 1 - MaxSkew : ~ Enough(s))
  /\ pending' = [s \in 1 .. Sent + 1 |->
                   IF s <= Sent + 1 - MaxSkew THEN 0
                   ELSE IF s = Sent + 1 THEN NbPackets ELSE pending[s]]
  /\ UNCHANGED reblockVars

(* Broken variant: skip the block that could not be reassembled.           *)
TimeoutSkips ==
  /\ ~ CurrentIsComplete
  /\ cur_id' = WrappingAdd(cur_id, 1)
  /\ UNCHANGED <<linkVars, blocks_data, blocks_ignore, reset,
                 block_to_dispatch, to_decode, first>>

(* reblock: nothing came for reset_timeout, far longer than packets stay   *)
(* in flight.                                                              *)
Timeout ==
  /\ ~ CurrentIsComplete
  /\ lossy' = (lossy \/ \E s \in 1 .. Sent : ~ Enough(s))
  /\ pending' = [s \in 1 .. Sent |-> 0]
  /\ reset' = TRUE
  /\ to_decode' =
       IF \E id \in BlockId : blocks_ignore[id] /\ blocks_data[id] # {}
       THEN Append(to_decode, Error) ELSE to_decode
  /\ UNCHANGED <<blocks_data, blocks_ignore, cur_id, block_to_dispatch, first>>

Count(batch, s) == Cardinality({i \in DOMAIN batch : batch[i] = s})

(* The packets of a batch, a sequence of positions of blocks.              *)
Packets(batch) ==
  {p \in [block : {batch[i] : i \in DOMAIN batch}, nth : 1 .. NbPackets] :
     LET left == pending[p.block] - Count(batch, p.block)
     IN p.nth \in left + 1 .. pending[p.block]}

(* Broken variant: no filter.                                              *)
PushAll(batch, data, ignore) ==
  [id \in BlockId |->
     data[id] \cup {p \in Packets(batch) : IdOf(p.block) = id}]

(* reblock: push each packet of the batch that is not to be ignored.       *)
Push(batch, data, ignore) ==
  [id \in BlockId |->
     IF ignore[id] THEN data[id]
     ELSE data[id] \cup {p \in Packets(batch) : IdOf(p.block) = id}]

(* Broken variant: the loop includes last.                                 *)
OpenWindowInclusive(id) ==
  [i \in BlockId |-> i \notin {WrappingAdd(id, k) : k \in 0 .. WindowWidth}]

(* reblock: after a reset only the window that starts at id is collected.  *)
OpenWindow(id) ==
  [i \in BlockId |->
     i \notin {WrappingAdd(id, k) : k \in 0 .. WindowWidth - 1}]

(* Broken variant: the counter of the decoders is left where it was.       *)
DispatchFromAnywhere(id) == UNCHANGED block_to_dispatch

(* reblock: after a reset the decoders wait for block number id.           *)
DispatchFrom(id) == block_to_dispatch' = id

(* reblock: receive a batch; after a reset, empty everything, start with   *)
(* the number of its first datagram and open the window there.             *)
Receive(batch) ==
  /\ ~ CurrentIsComplete
  /\ pending' = [s \in 1 .. Sent |-> pending[s] - Count(batch, s)]
  /\ reset' = FALSE
  /\ IF reset
     THEN /\ cur_id' = IdOf(batch[1])
          /\ DispatchFrom(IdOf(batch[1]))
          /\ blocks_ignore' = OpenWindow(IdOf(batch[1]))
          /\ blocks_data' = Push(batch, [i \in BlockId |-> {}], blocks_ignore')
          /\ first' = Append(first, batch[1])
     ELSE /\ blocks_data' = Push(batch, blocks_data, blocks_ignore)
          /\ UNCHANGED <<blocks_ignore, cur_id, block_to_dispatch, first>>
  /\ UNCHANGED <<lossy, to_decode>>

(* Any batch of packets in flight.                                         *)
ReceiveSome ==
  \E n \in 1 .. MaxBatch : \E batch \in [1 .. n -> 1 .. Sent] :
    /\ \A s \in 1 .. Sent : Count(batch, s) <= pending[s]
    /\ Receive(batch)

(* Broken variant: the slot left behind stays open.                        *)
SlideWindowOpens(ignore, id) ==
  [ignore EXCEPT ![WrappingAdd(id, WindowWidth)] = FALSE]

(* reblock: the slot of block number id leaves the window, the opposite    *)
(* one enters it.                                                          *)
SlideWindow(ignore, id) ==
  [ignore EXCEPT ![id] = TRUE, ![WrappingAdd(id, WindowWidth)] = FALSE]

(* reblock: one turn of the while loop.  Hand the current block over and   *)
(* move the window by one, unless the slot that enters it is not empty.    *)
Reassemble ==
  /\ CurrentIsComplete
  /\ LET opposite == WrappingAdd(cur_id, WindowWidth)
         handed == Append(to_decode, Block(cur_id, blocks_data[cur_id]))
     IN /\ blocks_data' = [blocks_data EXCEPT ![cur_id] = {}]
        /\ blocks_ignore' = SlideWindow(blocks_ignore, cur_id)
        /\ IF blocks_data'[opposite] # {}
           THEN /\ to_decode' = Append(handed, Error)
                /\ reset' = TRUE
                /\ UNCHANGED cur_id
           ELSE /\ to_decode' = handed
                /\ cur_id' = WrappingAdd(cur_id, 1)
                /\ UNCHANGED reset
  /\ UNCHANGED <<linkVars, block_to_dispatch, first>>

Next ==
  \/ SendBlock
  \/ Timeout
  \/ ReceiveSome
  \/ Reassemble

Spec == Init /\ [][Next]_vars
-----------------------------------------------------------------------------
TypeOK ==
  /\ pending \in Seq(0 .. NbPackets)
  /\ lossy \in BOOLEAN
  /\ blocks_data \in [BlockId -> SUBSET Packet]
  /\ blocks_ignore \in [BlockId -> BOOLEAN]
  /\ cur_id \in BlockId
  /\ reset \in BOOLEAN
  /\ block_to_dispatch \in BlockId
  /\ to_decode \in Seq(Reassembled)
  /\ first \in Seq(Nat \ {0})

(* How far block number id is ahead of the current one, going round.       *)
Ahead(id) == IF id >= cur_id THEN id - cur_id ELSE id - cur_id + IdCount

(* The window is exactly the WindowWidth block numbers that follow cur_id, *)
(* all round the 8-bit circle (receive/reblock.rs, the opening of the      *)
(* window and its moves by one slot).                                      *)
WindowFollowsCurrent ==
  first # <<>> =>
    \A id \in BlockId : blocks_ignore[id] <=> Ahead(id) >= WindowWidth

(* A slot that leaves the window is empty and stays so until it enters it  *)
(* again: no packet waits there for a block a lap later.                   *)
IgnoredSlotsAreEmpty ==
  \A id \in BlockId : blocks_ignore[id] => blocks_data[id] = {}

(* Consequence: neither test for a lost block of receive/reblock.rs, the   *)
(* one after a timeout and the one on the opposite slot, ever succeeds;    *)
(* the decoders are never told that the synchronization is lost.           *)
NoErrorSent == \A i \in 1 .. Len(to_decode) : to_decode[i].kind # "error"

(* Between two restarts the decoders are given consecutive block numbers,  *)
(* the first one being that of the first datagram: what block_to_dispatch  *)
(* counts on (receive/decode.rs).                                          *)
ConsecutiveIds ==
  \A i \in 1 .. Len(to_decode) :
    to_decode[i].id =
      IF i = 1 \/ to_decode[i].epoch # to_decode[i - 1].epoch
      THEN IdOf(first[to_decode[i].epoch])
      ELSE WrappingAdd(to_decode[i - 1].id, 1)

(* The blocks of the sender whose packets make up what was handed over.    *)
Sources(i) == {p.block : p \in to_decode[i].packets}

(* A block handed over is made of the packets of one block of the sender,  *)
(* whatever the order in which packets come (receive/reblock.rs, "grouping *)
(* packets according to their block numbers").                             *)
BlocksAreNotMixed ==
  \A i \in 1 .. Len(to_decode) : Cardinality(Sources(i)) <= 1

(* As long as the link loses no more than the repair packets and reorders  *)
(* no more than the window, the blocks handed over between two restarts    *)
(* are those of the sender, from that of the first datagram on, without a  *)
(* hole.                                                                   *)
InOrderWithoutHole ==
  ~ lossy => \A i \in 1 .. Len(to_decode) :
    IF i = 1 \/ to_decode[i].epoch # to_decode[i - 1].epoch
    THEN Sources(i) = {first[to_decode[i].epoch]}
    ELSE Sources(i) = {s + 1 : s \in Sources(i - 1)}

(* The block of the sender that is due next.                               *)
DueBlock ==
  IF to_decode # <<>> /\ to_decode[Len(to_decode)].epoch = Len(first)
  THEN 1 + CHOOSE s \in Sources(Len(to_decode)) : TRUE
  ELSE first[Len(first)]

(* On such a link the worker keeps up with the sender: when it waits for a *)
(* datagram the block that is due is one of the last MaxSkew.              *)
KeepsUp ==
  ~ lossy /\ ~ reset /\ ~ CurrentIsComplete => DueBlock > Sent - MaxSkew
=============================================================================
