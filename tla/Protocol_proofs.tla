--------------------------- MODULE Protocol_proofs ---------------------------
(***************************************************************************)
(* EnoughIsSent for every set of options, and not just for the values that *)
(* TLC tries.                                                              *)
(***************************************************************************)
EXTENDS Protocol, ModularLemmas

(* A quotient is the greatest number that fits. *)
LEMMA DivGreatest ==
  ASSUME NEW m \in Nat, m > 0, NEW x \in Nat, NEW k \in Nat, k * m <= x
  PROVE k <= x \div m
<1> DEFINE Q == x \div m
<1>1. /\ Q \in Nat /\ x % m \in 0 .. m - 1 /\ x = m * Q + (x % m) BY DivMod
<1> HIDE DEF Q
<1>2. SUFFICES ASSUME k >= Q + 1 PROVE FALSE BY <1>1 DEF Q
<1>3. k * m >= (Q + 1) * m BY <1>1, <1>2
<1>4. (Q + 1) * m = m * Q + m BY <1>1
<1>5. m * Q \in Nat BY <1>1
<1> QED BY <1>1, <1>3, <1>4, <1>5

(* A quotient fits, and is no greater than what is divided. *)
LEMMA DivFits ==
  ASSUME NEW m \in Nat, m > 0, NEW x \in Nat
  PROVE /\ x \div m \in Nat
        /\ (x \div m) * m <= x
        /\ x \div m <= x
<1> DEFINE Q == x \div m
<1>1. /\ Q \in Nat /\ x % m \in 0 .. m - 1 /\ x = m * Q + (x % m) BY DivMod
<1> HIDE DEF Q
<1>2. Q * m = m * Q /\ m * Q \in Nat BY <1>1
<1>3. Q * m >= Q BY <1>1
<1> QED BY <1>1, <1>2, <1>3 DEF Q

(* Division keeps the order. *)
LEMMA DivMonotone ==
  ASSUME NEW m \in Nat, m > 0, NEW x \in Nat, NEW y \in Nat, x <= y
  PROVE x \div m <= y \div m
<1>1. x \div m \in Nat /\ (x \div m) * m <= y
  <2>1. x \div m \in Nat /\ (x \div m) * m <= x BY DivFits
  <2>2. (x \div m) * m \in Nat BY <2>1
  <2> QED BY <2>1, <2>2
<1> QED BY <1>1, DivGreatest

(* A percentage of a length, as RaptorQ::new takes it, is no more than the *)
(* length, and grows with the percentage. *)
LEMMA PercentageOf ==
  ASSUME NEW length \in Nat, NEW p \in 0 .. 100, NEW q \in 0 .. 100, q <= p
  PROVE /\ (length \div 100) * p \in Nat
        /\ (length \div 100) * q \in Nat
        /\ (length \div 100) * p <= length
        /\ (length \div 100) * q <= (length \div 100) * p
<1> DEFINE H == length \div 100
<1>1. H \in Nat /\ H * 100 <= length BY DivFits
<1> HIDE DEF H
<1>2. H * q <= H * p /\ H * p <= H * 100 BY <1>1
<1>3. H * p \in Nat /\ H * q \in Nat /\ H * 100 \in Nat BY <1>1
<1> QED BY <1>1, <1>2, <1>3 DEF H

LEMMA Widths ==
  /\ Byte \in Nat /\ Byte > 4
  /\ U16 \in Nat /\ U16 > 0 /\ U32 \in Nat /\ U32 > 0
<1>1. Byte \in Nat /\ Byte > 4 BY ProtocolAssumption
<1>2. U16 \in Nat /\ U16 > 0 BY <1>1 DEF U16
<1> QED BY <1>1, <1>2 DEF U32

(* The packets are not empty. *)
LEMMA PacketSize ==
  ASSUME NEW mtu \in Mtus
  PROVE MaxPacketSize(mtu) \in Nat /\ MaxPacketSize(mtu) > 0
<1>1. mtu \in 40 .. U16 - 1 BY ProtocolAssumption
<1>2. mtu - PacketHeaderSize - RaptorqHeaderSize = mtu - 32
  BY <1>1, Widths DEF PacketHeaderSize, RaptorqHeaderSize
<1>3. (mtu - 32) % U16 = mtu - 32 BY <1>1, Widths
<1>4. MaxPacketSize(mtu) = (mtu - 32) - ((mtu - 32) % 8)
  BY <1>2, <1>3 DEF MaxPacketSize, RaptorqAlignment
<1> QED BY <1>1, <1>4, Widths

(* What RaptorQ::new computes, without what the widths could cut off. *)
Symbols(mtu, block_size) == block_size \div MaxPacketSize(mtu)

Length(mtu, block_size) == MaxPacketSize(mtu) * Symbols(mtu, block_size)

Percents(mtu, block_size, p) == (Length(mtu, block_size) \div 100) * p

Computes(mtu, block_size, p, q) ==
  LET r == RaptorQ(mtu, block_size, p, q)
  IN /\ Symbols(mtu, block_size) \in Nat
     /\ r.symbol_count = Symbols(mtu, block_size)
     /\ r.min_nb_repair_packets =
          Percents(mtu, block_size, q) \div MaxPacketSize(mtu)
     /\ r.nb_repair_packets =
          Percents(mtu, block_size, p) \div MaxPacketSize(mtu)
     /\ r.min_nb_repair_packets \in Nat
     /\ r.nb_repair_packets \in Nat
     /\ r.min_nb_repair_packets <= r.nb_repair_packets
     /\ r.min_nb_repair_packets <= Symbols(mtu, block_size)

LEMMA Computed ==
  ASSUME NEW mtu \in Mtus, NEW block_size \in BlockSizes,
         NEW p \in 0 .. 100, NEW q \in 0 .. 100, q <= p
  PROVE Computes(mtu, block_size, p, q)
<1> DEFINE size == MaxPacketSize(mtu)
<1> DEFINE symbols == block_size \div size
<1> DEFINE length == size * symbols
<1> DEFINE few == (length \div 100) * q
<1> DEFINE many == (length \div 100) * p
<1> DEFINE r == RaptorQ(mtu, block_size, p, q)
<1>1. size \in Nat /\ size > 0 BY PacketSize
<1>2. block_size \in Nat /\ block_size < U32 BY ProtocolAssumption, Widths
<1> HIDE DEF size
<1>4. symbols \in Nat /\ symbols * size <= block_size BY <1>1, <1>2, DivFits
<1> HIDE DEF symbols
<1>5. length \in Nat /\ length <= block_size BY <1>1, <1>4
<1>6. length % U32 = length
  <2> HIDE DEF length
  <2> QED BY <1>2, <1>5, Widths
<1> HIDE DEF length
<1>7. /\ many \in Nat /\ few \in Nat /\ many <= length /\ few <= many
  BY <1>5, PercentageOf
<1> HIDE DEF few, many
<1>8. many % U32 = many /\ few % U32 = few BY <1>2, <1>5, <1>7, Widths
<1>9. /\ many \div size \in Nat /\ few \div size \in Nat
      /\ few \div size <= many \div size
  BY <1>1, <1>7, DivFits, DivMonotone
<1>10. few \div size <= symbols
  <2>1. (few \div size) * size <= few BY <1>1, <1>7, DivFits
  <2>2. few <= symbols * size BY <1>1, <1>4, <1>5, <1>7 DEF length
  <2>3. (few \div size) * size <= symbols * size
    BY <1>1, <1>4, <1>7, <1>9, <2>1, <2>2
  <2> HIDE DEF few
  <2>4. SUFFICES ASSUME few \div size >= symbols + 1 PROVE FALSE
    BY <1>4, <1>9
  <2>5. (few \div size) * size >= (symbols + 1) * size
    BY <1>1, <1>4, <1>9, <2>4
  <2>6. (symbols + 1) * size = symbols * size + size /\ symbols * size \in Nat
    BY <1>1, <1>4
  <2> QED BY <1>1, <1>9, <2>3, <2>5, <2>6
<1>11. /\ RepairPackets(length, p, size) = many \div size
       /\ RepairPackets(length, q, size) = few \div size
  BY <1>8 DEF RepairPackets, many, few
<1>12. Greater(many \div size, few \div size) = many \div size
  BY <1>9 DEF Greater
<1>13. /\ r.symbol_count = symbols
       /\ r.min_nb_repair_packets = few \div size
       /\ r.nb_repair_packets = many \div size
  BY <1>6, <1>11, <1>12 DEF RaptorQ, size, symbols, length
<1> QED BY <1>4, <1>9, <1>10, <1>13
        DEF Computes, Symbols, Length, Percents, size, symbols, length, few,
            many

(* As long as --repair is no less than --min-repair: what the sender,      *)
(* which does not know the minimum of the receiver, puts on the link of a  *)
(* block is enough for the receiver to hand it over; and what is handed    *)
(* over is enough to decode it if, and only if, the sum of min_nb_packets  *)
(* fits a u16.  Otherwise it wraps to less than symbol_count, as what is   *)
(* added is a u16 too (RaptorQ::new, nb_packets, min_nb_packets).          *)
THEOREM EnoughIsAlwaysSent == EnoughIsSent
<1> SUFFICES ASSUME NEW mtu \in Mtus, NEW block_size \in BlockSizes,
                    NEW repair \in Percentages,
                    NEW min_repair \in Percentages, min_repair <= repair,
                    IsMade(ReceiverRaptorQ(mtu, block_size, repair,
                                           min_repair))
             PROVE LET s == SenderRaptorQ(mtu, block_size, repair)
                       r == ReceiverRaptorQ(mtu, block_size, repair,
                                            min_repair)
                   IN /\ MinNbPacketsOf(r) <= NbPacketsOf(s)
                      /\ MinNbPacketsFits(r)
                           <=> r.symbol_count <= MinNbPacketsOf(r)
  BY DEF EnoughIsSent
<1> DEFINE s == RaptorQ(mtu, block_size, repair, 0)
<1> DEFINE r == RaptorQ(mtu, block_size, repair, min_repair)
<1>1. /\ repair \in 0 .. 100 /\ min_repair \in 0 .. 100
      /\ 0 \in 0 .. 100 /\ 0 <= repair
  BY ProtocolAssumption
<1>2. /\ Computes(mtu, block_size, repair, 0)
      /\ Computes(mtu, block_size, repair, min_repair)
  BY <1>1, Computed
<1>3. /\ s.symbol_count = r.symbol_count /\ r.symbol_count \in Nat
      /\ s.nb_repair_packets = r.nb_repair_packets
      /\ r.nb_repair_packets \in Nat /\ r.min_nb_repair_packets \in Nat
      /\ r.min_nb_repair_packets <= r.nb_repair_packets
      /\ r.min_nb_repair_packets <= r.symbol_count
  BY <1>2 DEF Computes
<1>4. r.symbol_count < U16 /\ r.nb_repair_packets < U16
  BY DEF ReceiverRaptorQ, IsMade
<1> HIDE DEF s, r
<1> DEFINE sum == r.symbol_count + r.min_nb_repair_packets
<1>5. /\ sum \in Nat /\ sum <= NbPacketsOf(s)
      /\ r.symbol_count <= sum /\ sum - U16 < r.symbol_count
      /\ sum - U16 < U16
  BY <1>3, <1>4, Widths DEF NbPacketsOf
<1>6. MinNbPacketsOf(r) = sum % U16 /\ (MinNbPacketsFits(r) <=> sum < U16)
  BY DEF MinNbPacketsOf, MinNbPacketsFits
<1> HIDE DEF sum
<1> DEFINE Enough ==
      /\ MinNbPacketsOf(r) <= NbPacketsOf(s)
      /\ MinNbPacketsFits(r) <=> r.symbol_count <= MinNbPacketsOf(r)
<1>7. ASSUME sum < U16 PROVE Enough
  <2>1. sum % U16 = sum BY <1>5, <1>7, Widths
  <2> QED BY <1>5, <1>6, <1>7, <2>1
<1>8. ASSUME sum >= U16 PROVE Enough
  <2>1. sum - U16 \in 0 .. U16 - 1 /\ sum = U16 * 1 + (sum - U16)
    BY <1>5, <1>8, Widths
  <2>2. sum % U16 = sum - U16 BY <1>5, <2>1, Widths, ModUnique
  <2>3. NbPacketsOf(s) \in Nat BY <1>3 DEF NbPacketsOf
  <2> QED BY <1>3, <1>5, <1>6, <1>8, <2>2, <2>3, Widths
<1>9. Enough BY <1>5, <1>7, <1>8, Widths
<1> QED BY <1>9 DEF SenderRaptorQ, ReceiverRaptorQ, s, r
=============================================================================
