------------------------------ MODULE Protocol ------------------------------
(***************************************************************************)
(* The link protocol (protocol.rs): how many packets RaptorQ makes of a    *)
(* block and how many it wants back, and the layout of a block, that is    *)
(* the client id, the type, the length of the payload, the payload, zeros. *)
(*                                                                         *)
(* Fountain coding itself belongs to the raptorq crate: symbol_count       *)
(* packets are what it takes to decode a block.                            *)
(***************************************************************************)
EXTENDS Integers, Sequences

CONSTANTS
  Byte,         \* values of a byte: 2^8; a u16 has two, a u32 four
  Mtus,         \* --to-mtu, --from-mtu
  BlockSizes,   \* --block
  Percentages,  \* --repair, --min-repair
  ClientIds,    \* client ids
  MaxLayout     \* the blocks of which BlockRoundTrip tries every length

U16 == Byte * Byte
U32 == U16 * U16

(* Smaller mtus, for which RaptorQ::new underflows or divides by zero, and *)
(* percentages over 100, with which it overflows, are left out.            *)
ASSUME ProtocolAssumption ==
  /\ Byte \in Nat /\ Byte > 4
  /\ Mtus \subseteq 40 .. U16 - 1
  /\ BlockSizes \subseteq 0 .. U32 - 1
  /\ Percentages \subseteq 0 .. 100
  /\ ClientIds \subseteq 0 .. U32 - 1
  /\ MaxLayout \in Nat
-----------------------------------------------------------------------------
PacketHeaderSize == 28
RaptorqHeaderSize == 4
RaptorqAlignment == 8

MaxPacketSize(mtu) ==
  LET size == (mtu - PacketHeaderSize - RaptorqHeaderSize) % U16
  IN size - (size % RaptorqAlignment)

RepairPackets(transfer_length, percentage, packet_size) ==
  (((transfer_length \div 100) * percentage) % U32) \div packet_size

Greater(a, b) == IF a < b THEN b ELSE a

RaptorQ(mtu, block_size, repair_percentage, min_repair_percentage) ==
  LET size == MaxPacketSize(mtu)
      symbols == block_size \div size
      length == (size * symbols) % U32
      repair == RepairPackets(length, repair_percentage, size)
      min_repair == RepairPackets(length, min_repair_percentage, size)
  IN [max_packet_size |-> size,
      symbol_count |-> symbols,
      transfer_length |-> length,
      nb_repair_packets |-> Greater(repair, min_repair),
      min_nb_repair_packets |-> min_repair]

(* RaptorQ::new makes an error of a number that a u16 cannot hold.         *)
IsMade(r) ==
  r.symbol_count < U16 /\ r.nb_repair_packets < U16

(* Broken variant: one packet more than what is enough.                    *)
MinNbPacketsOfPlusOne(r) ==
  (r.symbol_count + r.min_nb_repair_packets + 1) % U16

MinNbPacketsOf(r) == (r.symbol_count + r.min_nb_repair_packets) % U16

NbPacketsOf(r) == r.symbol_count + r.nb_repair_packets

(* What diode-send and diode-receive make of their options: the former     *)
(* gives 0 for the smallest repair percentage.                             *)
SenderRaptorQ(mtu, block_size, repair) == RaptorQ(mtu, block_size, repair, 0)

ReceiverRaptorQ(mtu, block_size, repair, min_repair) ==
  RaptorQ(mtu, block_size, repair, min_repair)
-----------------------------------------------------------------------------
BlockTypes == {"heartbeat", "start", "data", "abort", "end"}

IdOfType ==
  [heartbeat |-> 0, start |-> 1, data |-> 2, abort |-> 3, end |-> 4]

SerializeOverhead == 4 + 1 + 4

MaxDataLen(r) == r.transfer_length - SerializeOverhead

Zeros(n) == [i \in 1 .. n |-> 0]

ToLittleEndian(n) ==
  <<n % Byte, (n \div Byte) % Byte, (n \div U16) % Byte,
    (n \div (U16 * Byte)) % Byte>>

(* Broken variant: the first byte is the heaviest.                         *)
FromBigEndian(bytes) ==
  bytes[4] + bytes[3] * Byte + bytes[2] * U16 + bytes[1] * U16 * Byte

FromLittleEndian(bytes) ==
  bytes[1] + bytes[2] * Byte + bytes[3] * U16 + bytes[4] * U16 * Byte

(* Block::new.  A block with no data is all zeros after its type.          *)
NewBlock(type, r, client_id, data) ==
  LET content == ToLittleEndian(client_id) \o <<IdOfType[type]>>
                   \o ToLittleEndian(Len(data)) \o data
  IN content \o Zeros(r.transfer_length - Len(content))

ClientIdOf(block) == FromLittleEndian(SubSeq(block, 1, 4))

TypesOf(block) == {type \in BlockTypes : IdOfType[type] = block[5]}

PayloadLen(block) == FromLittleEndian(SubSeq(block, 6, 9))

Payload(block) ==
  SubSeq(block, SerializeOverhead + 1, SerializeOverhead + PayloadLen(block))
-----------------------------------------------------------------------------
(* min_nb_packets adds in a u16.  RaptorQ::new has made sure that each of  *)
(* the two numbers is one, but not that their sum is; if it is not, the    *)
(* release build wraps (a debug build panics).                             *)
MinNbPacketsFits(r) == r.symbol_count + r.min_nb_repair_packets < U16

(* As long as the sender repairs no less than the receiver wants as a      *)
(* minimum, what is sent of a block is enough for the receiver to hand it  *)
(* over, although the sender does not know that minimum and both truncate  *)
(* what they compute; and what is handed over is enough to decode it in    *)
(* exactly the cases in which min_nb_packets does not wrap                 *)
(* (RaptorQ::new, min_nb_packets, nb_packets).                             *)
EnoughIsSent ==
  \A mtu \in Mtus, block_size \in BlockSizes,
     repair \in Percentages, min_repair \in Percentages :
    LET sender == SenderRaptorQ(mtu, block_size, repair)
        receiver == ReceiverRaptorQ(mtu, block_size, repair, min_repair)
    IN IsMade(sender) /\ IsMade(receiver) /\ min_repair <= repair
       => /\ MinNbPacketsOf(receiver) <= NbPacketsOf(sender)
          /\ MinNbPacketsFits(receiver)
               <=> receiver.symbol_count <= MinNbPacketsOf(receiver)

(* The payloads of n bytes to try.                                         *)
Payloads(n) == {[i \in 1 .. n |-> (shift + i) % Byte] : shift \in {0, 1}}

(* A block is as long as RaptorQ wants it, and the receiver reads out of   *)
(* it what the sender put in, for every length that fits (Block::new,      *)
(* max_data_len, client_id, block_type, payload).                          *)
BlockRoundTrip ==
  \A mtu \in Mtus, block_size \in {b \in BlockSizes : b <= MaxLayout} :
    LET r == SenderRaptorQ(mtu, block_size, 0)
    IN IsMade(r) =>
         \A n \in 0 .. MaxDataLen(r), type \in BlockTypes,
            client_id \in ClientIds :
           \A data \in Payloads(n) :
             LET block == NewBlock(type, r, client_id, data)
             IN /\ Len(block) = r.transfer_length
                /\ ClientIdOf(block) = client_id
                /\ TypesOf(block) = {type}
                /\ Payload(block) = data
=============================================================================
