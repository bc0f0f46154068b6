---------------------------- MODULE Decode_proofs ----------------------------
(***************************************************************************)
(* Proofs about Reblock, for any number of block numbers, any window and   *)
(* any behaviour of the link, and about Decode, for any number of decoding *)
(* workers below the number of block numbers.                              *)
(*                                                                         *)
(* The argument for the window: the slot that Reassemble lets into it was  *)
(* WindowWidth ahead of the current one, hence ignored, hence empty.  The  *)
(* argument for the order: as long as blocks go out in sequence, the       *)
(* positions from Done + 1 to taken are those of the blocks held by the    *)
(* workers, one per worker, and of the blocks that failed to decode.  They *)
(* are no more than a lap, so that only the worker that holds position     *)
(* Done + 1 may pass.                                                      *)
(***************************************************************************)
EXTENDS Decode, ModularLemmas, FiniteSetTheorems, SequenceTheorems, TLAPS
-----------------------------------------------------------------------------
(* The reblock worker.                                                     *)
-----------------------------------------------------------------------------
(* Before the first datagram every slot is ignored, and a block is handed  *)
(* over only after it.                                                     *)
BeforeFirst ==
  first = <<>> => reset /\ \A id \in BlockId : blocks_ignore[id]

(* Before a reset is set off everything complete was handed over.          *)
ResetIsQuiet == reset => ~ CurrentIsComplete

IInv ==
  /\ TypeOK
  /\ BeforeFirst
  /\ ResetIsQuiet
  /\ WindowFollowsCurrent
  /\ IgnoredSlotsAreEmpty
  /\ NoErrorSent

(* The window is smaller than the circle of block numbers.                 *)
LEMMA WindowWidthFact ==
  /\ WindowWidth \in 1 .. IdCount - 1
  /\ IdCount \in Nat /\ IdCount > 3
BY IdCountAssumption DEF WindowWidth

(* wrapping_add without the remainder.                                     *)
LEMMA WrapFact ==
  ASSUME NEW a \in BlockId, NEW b \in BlockId
  PROVE  /\ WrappingAdd(a, b) \in BlockId
         /\ WrappingAdd(a, b) = IF a + b < IdCount THEN a + b
                                                   ELSE a + b - IdCount
BY IdCountAssumption DEF WrappingAdd, BlockId

(* The number of a block is a block number.                                *)
LEMMA IdOfType ==
  ASSUME NEW s \in Nat \ {0}
  PROVE  IdOf(s) \in BlockId
<1>1. s - 1 \in Nat OBVIOUS
<1> QED BY <1>1, IdCountAssumption, DivMod DEF IdOf, BlockId

(* What Push adds to a slot are packets.                                   *)
LEMMA PushType ==
  ASSUME NEW batch,
         NEW data \in [BlockId -> SUBSET Packet],
         NEW ignore \in [BlockId -> BOOLEAN],
         \A i \in DOMAIN batch : batch[i] \in Nat
  PROVE  /\ Push(batch, data, ignore) \in [BlockId -> SUBSET Packet]
         /\ \A id \in BlockId :
              ignore[id] => Push(batch, data, ignore)[id] = data[id]
<1>1. Packets(batch) \subseteq Packet
  BY DEF Packets, Packet
<1> QED BY <1>1 DEF Push

(* For each block sent, how many of its packets are in flight.             *)
LEMMA PendingType ==
  ASSUME TypeOK
  PROVE  /\ Sent \in Nat
         /\ \A s \in 1 .. Sent : pending[s] \in 0 .. NbPackets
<1>1. pending \in Seq(0 .. NbPackets) BY DEF TypeOK
<1>2. Len(pending) \in Nat /\ pending \in [1 .. Len(pending) -> 0 .. NbPackets]
  BY <1>1, LenProperties
<1> QED BY <1>2 DEF Sent

LEMMA InvInit == Init => IInv
<1> SUFFICES ASSUME Init PROVE IInv OBVIOUS
<1>1. 0 \in BlockId BY WindowWidthFact DEF BlockId
<1>2. ResetIsQuiet
  <2>1. blocks_data[cur_id] = {} BY <1>1 DEF Init
  <2> QED BY <2>1, FS_EmptySet, LinkAssumption
          DEF ResetIsQuiet, CurrentIsComplete
<1> QED BY <1>1, <1>2 DEF Init, IInv, TypeOK, BeforeFirst, WindowFollowsCurrent,
                    IgnoredSlotsAreEmpty, NoErrorSent

(* How far d is ahead of c: Ahead, for any current number.                 *)
Distance(c, d) == IF d >= c THEN d - c ELSE d - c + IdCount

LEMMA DistanceType ==
  ASSUME NEW c \in BlockId, NEW d \in BlockId
  PROVE  Distance(c, d) \in BlockId
BY WindowWidthFact DEF Distance, BlockId

(* Going round the circle from c and measuring are inverse of each other.  *)
LEMMA DistanceOfWrap ==
  ASSUME NEW c \in BlockId, NEW k \in BlockId
  PROVE  Distance(c, WrappingAdd(c, k)) = k
<1>1. WrappingAdd(c, k) = IF c + k < IdCount THEN c + k ELSE c + k - IdCount
  BY WrapFact
<1> QED BY <1>1, WindowWidthFact DEF Distance, BlockId

LEMMA WrapOfDistance ==
  ASSUME NEW c \in BlockId, NEW d \in BlockId
  PROVE  WrappingAdd(c, Distance(c, d)) = d
<1>1. Distance(c, d) \in BlockId BY DistanceType
<1>2. WrappingAdd(c, Distance(c, d))
        = IF c + Distance(c, d) < IdCount THEN c + Distance(c, d)
          ELSE c + Distance(c, d) - IdCount
  BY <1>1, WrapFact
<1> QED BY <1>2, WindowWidthFact DEF Distance, BlockId

(* The current number moves by one: all the others come one nearer.        *)
LEMMA DistanceAfterOne ==
  ASSUME NEW c \in BlockId, NEW d \in BlockId
  PROVE  Distance(WrappingAdd(c, 1), d)
           = IF d = c THEN IdCount - 1 ELSE Distance(c, d) - 1
<1>1. 1 \in BlockId BY WindowWidthFact DEF BlockId
<1>2. WrappingAdd(c, 1) = IF c + 1 < IdCount THEN c + 1 ELSE c + 1 - IdCount
  BY <1>1, WrapFact
<1> QED BY <1>2, WindowWidthFact DEF Distance, BlockId

(* The window opened after a reset.                                        *)
LEMMA OpenedWindow ==
  ASSUME NEW c \in BlockId, NEW id \in BlockId
  PROVE  id \in {WrappingAdd(c, k) : k \in 0 .. WindowWidth - 1}
           <=> Distance(c, id) < WindowWidth
<1>1. ASSUME NEW k \in 0 .. WindowWidth - 1, id = WrappingAdd(c, k)
      PROVE  Distance(c, id) < WindowWidth
  <2>1. k \in BlockId /\ k < WindowWidth
    BY WindowWidthFact DEF BlockId
  <2> QED BY <1>1, <2>1, DistanceOfWrap
<1>2. ASSUME Distance(c, id) < WindowWidth
      PROVE  Distance(c, id) \in 0 .. WindowWidth - 1
  <2>1. Distance(c, id) \in BlockId BY DistanceType
  <2> QED BY <1>2, <2>1, WindowWidthFact DEF BlockId
<1>3. WrappingAdd(c, Distance(c, id)) = id BY WrapOfDistance
<1> QED BY <1>1, <1>2, <1>3

LEMMA ReceiveKeeps ==
  ASSUME IInv, ReceiveSome
  PROVE  IInv'
<1> USE DEF IInv
<1>1. PICK n \in 1 .. MaxBatch : \E b \in [1 .. n -> 1 .. Sent] :
        /\ \A s \in 1 .. Sent : Count(b, s) <= pending[s]
        /\ Receive(b)
  BY DEF ReceiveSome
<1>2. PICK batch \in [1 .. n -> 1 .. Sent] :
      /\ \A s \in 1 .. Sent : Count(batch, s) <= pending[s]
      /\ Receive(batch)
  BY <1>1
<1>3. /\ \A i \in DOMAIN batch : batch[i] \in Nat \ {0}
      /\ batch[1] \in Nat \ {0}
  <2>1. Sent \in Nat BY PendingType
  <2>2. \A i \in 1 .. n : batch[i] \in Nat \ {0} BY <2>1
  <2>3. 1 \in 1 .. n BY LinkAssumption
  <2> QED BY <2>2, <2>3
<1>4. pending' \in Seq(0 .. NbPackets)
  <2>1. Sent \in Nat /\ \A s \in 1 .. Sent : pending[s] \in 0 .. NbPackets
    BY PendingType
  <2>2. \A s \in 1 .. Sent : Count(batch, s) \in Nat
    <3> SUFFICES ASSUME NEW s \in 1 .. Sent PROVE Count(batch, s) \in Nat
      OBVIOUS
    <3>1. IsFiniteSet(1 .. n) BY FS_Interval
    <3>2. {i \in DOMAIN batch : batch[i] = s} \in SUBSET (1 .. n) OBVIOUS
    <3>3. IsFiniteSet({i \in DOMAIN batch : batch[i] = s})
      BY <3>1, <3>2, FS_Subset
    <3> QED BY <3>3, FS_CardinalityType DEF Count
  <2>3. pending' = [s \in 1 .. Sent |-> pending[s] - Count(batch, s)]
    BY <1>2 DEF Receive
  <2>4. \A s \in 1 .. Sent : pending[s] - Count(batch, s) \in 0 .. NbPackets
    BY <1>2, <2>1, <2>2, LinkAssumption
  <2> QED BY <2>1, <2>3, <2>4
<1>5. CASE reset
  <2> DEFINE c == IdOf(batch[1])
  <2> DEFINE Opened == {WrappingAdd(c, k) : k \in 0 .. WindowWidth - 1}
  <2> DEFINE empty == [i \in BlockId |-> {}]
  <2>1. c \in BlockId BY <1>3, IdOfType
  <2>2. /\ cur_id' = c /\ reset' = FALSE
        /\ blocks_ignore' = [i \in BlockId |-> i \notin Opened]
        /\ blocks_data' = Push(batch, empty, blocks_ignore')
        /\ first' = Append(first, batch[1])
        /\ UNCHANGED <<to_decode, lossy>>
        /\ block_to_dispatch' = c
    BY <1>2, <1>5 DEF Receive, OpenWindow, DispatchFrom
  <2>3. blocks_ignore' \in [BlockId -> BOOLEAN] BY <2>2
  <2>4. empty \in [BlockId -> SUBSET Packet] OBVIOUS
  <2>5. /\ blocks_data' \in [BlockId -> SUBSET Packet]
        /\ \A id \in BlockId :
             blocks_ignore'[id] => blocks_data'[id] = empty[id]
    <3> HIDE DEF empty
    <3>1. \A i \in DOMAIN batch : batch[i] \in Nat BY <1>3
    <3> DEFINE pushed(ignore) == Push(batch, empty, ignore)
    <3>2. \A ignore \in [BlockId -> BOOLEAN] :
            /\ pushed(ignore) \in [BlockId -> SUBSET Packet]
            /\ \A id \in BlockId : ignore[id] => pushed(ignore)[id] = empty[id]
      BY <2>4, <3>1, PushType
    <3>3. blocks_data' = pushed(blocks_ignore') BY <2>2
    <3> HIDE DEF pushed
    <3> QED BY <2>3, <3>2, <3>3
  <2>6. TypeOK'
    <3>1. first' \in Seq(Nat \ {0}) BY <1>3, <2>2 DEF TypeOK
    <3> QED BY <1>4, <2>1, <2>2, <2>3, <2>5, <3>1 DEF TypeOK
  <2>7. first' # <<>>
    <3>1. Len(first') = Len(first) + 1 /\ Len(first) \in Nat
      BY <1>3, <2>2 DEF TypeOK
    <3> QED BY <3>1
  <2>8. WindowFollowsCurrent'
    <3> SUFFICES ASSUME NEW id \in BlockId
                 PROVE  blocks_ignore'[id] <=> Ahead(id)' >= WindowWidth
      BY DEF WindowFollowsCurrent
    <3>1. Ahead(id)' = Distance(c, id) BY <2>2 DEF Ahead, Distance
    <3>2. Ahead(id)' \in Int BY <2>1, <3>1, DistanceType DEF BlockId
    <3>3. blocks_ignore'[id] <=> ~ (id \in Opened) BY <2>2
    <3>4. id \in Opened <=> Ahead(id)' < WindowWidth
      BY <2>1, <3>1, OpenedWindow
    <3> QED BY <3>2, <3>3, <3>4, WindowWidthFact
  <2>9. IgnoredSlotsAreEmpty' BY <2>5 DEF IgnoredSlotsAreEmpty
  <2>10. NoErrorSent' BY <2>2 DEF NoErrorSent
  <2> QED BY <2>2, <2>6, <2>7, <2>8, <2>9, <2>10 DEF BeforeFirst, ResetIsQuiet
<1>6. CASE ~ reset
  <2>1. /\ blocks_data' = Push(batch, blocks_data, blocks_ignore)
        /\ UNCHANGED <<blocks_ignore, cur_id, first, to_decode, lossy,
                       block_to_dispatch>>
        /\ reset' = FALSE /\ first # <<>>
    BY <1>2, <1>6 DEF Receive, BeforeFirst
  <2>2. /\ blocks_data' \in [BlockId -> SUBSET Packet]
        /\ \A id \in BlockId :
             blocks_ignore[id] => blocks_data'[id] = blocks_data[id]
    <3>1. /\ blocks_data \in [BlockId -> SUBSET Packet]
          /\ blocks_ignore \in [BlockId -> BOOLEAN]
      BY DEF TypeOK
    <3>2. \A i \in DOMAIN batch : batch[i] \in Nat BY <1>3
    <3> QED BY <2>1, <3>1, <3>2, PushType
  <2>3. TypeOK' BY <1>4, <2>1, <2>2 DEF TypeOK
  <2>4. WindowFollowsCurrent' /\ BeforeFirst'
    BY <2>1 DEF WindowFollowsCurrent, BeforeFirst, Ahead
  <2>5. IgnoredSlotsAreEmpty'
    BY <2>1, <2>2 DEF IgnoredSlotsAreEmpty
  <2>6. NoErrorSent' BY <2>1 DEF NoErrorSent
  <2>7. ResetIsQuiet' BY <2>1 DEF ResetIsQuiet
  <2> QED BY <2>3, <2>4, <2>5, <2>6, <2>7
<1> QED BY <1>5, <1>6

(* Handing a block over needs one, so a datagram has come.                 *)
LEMMA CompleteIsNotEmpty ==
  ASSUME IInv, CurrentIsComplete
  PROVE  /\ blocks_data[cur_id] # {}
         /\ ~ blocks_ignore[cur_id]
         /\ first # <<>>
<1>1. blocks_data[cur_id] # {}
  <2>1. Cardinality({}) = 0 BY FS_EmptySet
  <2> QED BY <2>1, LinkAssumption DEF CurrentIsComplete
<1> QED BY <1>1 DEF IInv, TypeOK, IgnoredSlotsAreEmpty, BeforeFirst

(* What a turn of the loop does, since the opposite slot is empty.         *)
LEMMA ReassembleEffect ==
  ASSUME IInv, Reassemble
  PROVE  LET opposite == WrappingAdd(cur_id, WindowWidth)
         IN /\ opposite \in BlockId /\ opposite # cur_id
            /\ Ahead(opposite) = WindowWidth
            /\ blocks_ignore[opposite] /\ blocks_data[opposite] = {}
            /\ blocks_data' = [blocks_data EXCEPT ![cur_id] = {}]
            /\ blocks_ignore' = [blocks_ignore EXCEPT ![cur_id] = TRUE,
                                                      ![opposite] = FALSE]
            /\ to_decode' = Append(to_decode, Block(cur_id, blocks_data[cur_id]))
            /\ cur_id' = WrappingAdd(cur_id, 1) /\ cur_id' \in BlockId
            /\ first # <<>> /\ ~ reset
            /\ UNCHANGED <<first, pending, lossy, reset, block_to_dispatch>>
<1> USE DEF IInv
<1> DEFINE opposite == WrappingAdd(cur_id, WindowWidth)
<1> DEFINE block == Block(cur_id, blocks_data[cur_id])
<1>0. /\ cur_id \in BlockId /\ WindowWidth \in BlockId /\ 1 \in BlockId
      /\ \A id \in BlockId : Ahead(id) = Distance(cur_id, id)
  BY WindowWidthFact DEF TypeOK, BlockId, Ahead, Distance
<1>1. /\ opposite \in BlockId /\ opposite # cur_id
      /\ Ahead(opposite) = WindowWidth
      /\ WrappingAdd(cur_id, 1) \in BlockId
  <2>1. opposite \in BlockId /\ WrappingAdd(cur_id, 1) \in BlockId
    BY <1>0, WrapFact
  <2>2. Ahead(opposite) = WindowWidth BY <1>0, <2>1, DistanceOfWrap
  <2>3. Ahead(cur_id) = 0 BY <1>0 DEF Distance, BlockId
  <2> QED BY <2>1, <2>2, <2>3, WindowWidthFact
<1>2. first # <<>> /\ ~ reset
  BY CompleteIsNotEmpty DEF Reassemble, ResetIsQuiet
<1>3. blocks_ignore[opposite] /\ blocks_data[opposite] = {}
  <2>1. blocks_ignore[opposite] <=> Ahead(opposite) >= WindowWidth
    BY <1>1, <1>2 DEF WindowFollowsCurrent
  <2>2. Ahead(opposite) >= WindowWidth BY <1>1, WindowWidthFact
  <2> QED BY <1>1, <2>1, <2>2 DEF IgnoredSlotsAreEmpty
<1>4. /\ blocks_data' = [blocks_data EXCEPT ![cur_id] = {}]
      /\ blocks_ignore' = [blocks_ignore EXCEPT ![cur_id] = TRUE,
                                                ![opposite] = FALSE]
      /\ UNCHANGED <<first, pending, lossy, block_to_dispatch>>
  BY DEF Reassemble, SlideWindow, linkVars
<1>5. blocks_data'[opposite] = {}
  BY <1>1, <1>3, <1>4 DEF TypeOK
<1>6. /\ to_decode' = Append(to_decode, block)
      /\ cur_id' = WrappingAdd(cur_id, 1)
      /\ reset' = reset
  BY <1>5 DEF Reassemble
<1> QED BY <1>1, <1>2, <1>3, <1>4, <1>6

LEMMA ReassembleKeeps ==
  ASSUME IInv, Reassemble
  PROVE  IInv'
<1> USE DEF IInv
<1> DEFINE opposite == WrappingAdd(cur_id, WindowWidth)
<1> DEFINE block == Block(cur_id, blocks_data[cur_id])
<1>0. /\ cur_id \in BlockId /\ WindowWidth \in BlockId /\ 1 \in BlockId
      /\ \A id \in BlockId : Ahead(id) = Distance(cur_id, id)
  BY WindowWidthFact DEF TypeOK, BlockId, Ahead, Distance
<1>1. /\ opposite \in BlockId /\ opposite # cur_id
      /\ Ahead(opposite) = WindowWidth
      /\ WrappingAdd(cur_id, 1) \in BlockId
  BY ReassembleEffect
<1>2. first # <<>> /\ ~ reset BY ReassembleEffect
<1>3. blocks_ignore[opposite] /\ blocks_data[opposite] = {}
  BY ReassembleEffect
<1>4. /\ blocks_data' = [blocks_data EXCEPT ![cur_id] = {}]
      /\ blocks_ignore' = [blocks_ignore EXCEPT ![cur_id] = TRUE,
                                                ![opposite] = FALSE]
      /\ UNCHANGED <<first, pending, lossy, block_to_dispatch>>
  BY ReassembleEffect
<1>6. /\ to_decode' = Append(to_decode, block)
      /\ cur_id' = WrappingAdd(cur_id, 1)
      /\ reset' = reset
  BY ReassembleEffect
<1>7. block \in Reassembled /\ block.kind = "block"
  BY DEF Block, Reassembled, TypeOK
<1>8. \A id \in BlockId :
        /\ blocks_data'[id] = IF id = cur_id THEN {} ELSE blocks_data[id]
        /\ blocks_ignore'[id] = IF id = opposite THEN FALSE
                                ELSE IF id = cur_id THEN TRUE
                                ELSE blocks_ignore[id]
  BY <1>1, <1>4 DEF TypeOK
<1>9. TypeOK'
  <2>1. to_decode' \in Seq(Reassembled)
    <3> HIDE DEF block
    <3> QED BY <1>6, <1>7 DEF TypeOK
  <2> QED BY <1>1, <1>4, <1>6, <2>1 DEF TypeOK
<1>10. BeforeFirst' BY <1>2, <1>4 DEF BeforeFirst
<1>11. WindowFollowsCurrent'
  <2> SUFFICES ASSUME NEW id \in BlockId
               PROVE  blocks_ignore'[id] <=> Ahead(id)' >= WindowWidth
    BY DEF WindowFollowsCurrent
  <2>1. Ahead(id)' = IF id = cur_id THEN IdCount - 1 ELSE Ahead(id) - 1
    <3>1. Ahead(id)' = Distance(WrappingAdd(cur_id, 1), id)
      BY <1>6 DEF Ahead, Distance
    <3> QED BY <1>0, <3>1, DistanceAfterOne
  <2>2. Ahead(id) \in Int BY <1>0, DistanceType DEF BlockId
  <2>3. Ahead(id) = WindowWidth => id = opposite
    BY <1>0, WrapOfDistance
  <2>4. blocks_ignore[id] <=> Ahead(id) >= WindowWidth
    BY <1>2 DEF WindowFollowsCurrent
  <2>5. CASE id = opposite
    <3>1. blocks_ignore'[id] = FALSE BY <1>8, <2>5
    <3>2. Ahead(id)' = WindowWidth - 1 BY <1>1, <2>1, <2>5
    <3> QED BY <3>1, <3>2, WindowWidthFact
  <2>6. CASE id = cur_id
    <3>1. blocks_ignore'[id] = TRUE BY <1>1, <1>8, <2>6
    <3>2. Ahead(id)' = IdCount - 1 BY <2>1, <2>6
    <3> QED BY <3>1, <3>2, WindowWidthFact
  <2>7. CASE id # opposite /\ id # cur_id
    <3>1. blocks_ignore'[id] <=> Ahead(id) >= WindowWidth
      BY <1>8, <2>4, <2>7
    <3>2. Ahead(id)' = Ahead(id) - 1 /\ Ahead(id) # WindowWidth
      BY <2>1, <2>3, <2>7
    <3> QED BY <2>2, <3>1, <3>2, WindowWidthFact
  <2> QED BY <2>5, <2>6, <2>7
<1>12. IgnoredSlotsAreEmpty'
  BY <1>1, <1>3, <1>8 DEF IgnoredSlotsAreEmpty
<1>13. NoErrorSent'
  <2> HIDE DEF block
  <2> QED BY <1>6, <1>7 DEF NoErrorSent, TypeOK
<1>14. ResetIsQuiet' BY <1>2, <1>6 DEF ResetIsQuiet
<1> QED BY <1>9, <1>10, <1>11, <1>12, <1>13, <1>14

LEMMA InvStep == IInv /\ [Next]_vars => IInv'
<1> SUFFICES ASSUME IInv, [Next]_vars PROVE IInv'
  OBVIOUS
<1> USE DEF IInv
<1>1. CASE SendBlock
  <2>1. UNCHANGED reblockVars /\ lossy' \in BOOLEAN
    BY <1>1 DEF SendBlock, TypeOK
  <2>2. pending' \in Seq(0 .. NbPackets)
    <3>1. Sent \in Nat /\ \A s \in 1 .. Sent : pending[s] \in 0 .. NbPackets
      BY PendingType
    <3>2. NbPackets \in Nat /\ MaxSkew \in Nat BY LinkAssumption
    <3> DEFINE now(s) == IF s <= Sent + 1 - MaxSkew THEN 0
                         ELSE IF s = Sent + 1 THEN NbPackets ELSE pending[s]
    <3>3. \A s \in 1 .. Sent + 1 : now(s) \in 0 .. NbPackets BY <3>1, <3>2
    <3>4. pending' = [s \in 1 .. Sent + 1 |-> now(s)] BY <1>1 DEF SendBlock
    <3> HIDE DEF now
    <3> QED BY <3>1, <3>3, <3>4
  <2> QED BY <2>1, <2>2 DEF reblockVars, TypeOK, BeforeFirst, ResetIsQuiet,
                            CurrentIsComplete, WindowFollowsCurrent, Ahead,
                            IgnoredSlotsAreEmpty, NoErrorSent
<1>2. CASE Timeout
  <2>1. /\ to_decode' = to_decode /\ reset' = TRUE /\ lossy' \in BOOLEAN
        /\ ~ CurrentIsComplete
        /\ UNCHANGED <<blocks_data, blocks_ignore, cur_id, block_to_dispatch,
                       first>>
    BY <1>2 DEF Timeout, IgnoredSlotsAreEmpty
  <2>2. pending' \in Seq(0 .. NbPackets)
    <3>1. Sent \in Nat /\ 0 \in 0 .. NbPackets
      BY LinkAssumption DEF TypeOK, Sent
    <3>2. pending' = [s \in 1 .. Sent |-> 0] BY <1>2 DEF Timeout
    <3> QED BY <3>1, <3>2
  <2> QED BY <2>1, <2>2 DEF TypeOK, BeforeFirst, ResetIsQuiet,
                            CurrentIsComplete, WindowFollowsCurrent, Ahead,
                            IgnoredSlotsAreEmpty, NoErrorSent
<1>3. CASE ReceiveSome BY <1>3, ReceiveKeeps
<1>4. CASE Reassemble BY <1>4, ReassembleKeeps
<1>5. CASE UNCHANGED vars
  BY <1>5 DEF vars, linkVars, reblockVars, TypeOK, BeforeFirst, ResetIsQuiet,
              CurrentIsComplete, WindowFollowsCurrent, Ahead,
              IgnoredSlotsAreEmpty, NoErrorSent
<1> QED BY <1>1, <1>2, <1>3, <1>4, <1>5 DEF Next

(* Nothing is out of the window, so a timeout reports no loss.             *)
LEMMA TimeoutEffect ==
  ASSUME IInv, Timeout
  PROVE  UNCHANGED <<blocks_data, blocks_ignore, cur_id, block_to_dispatch,
                     to_decode, first>>
BY DEF Timeout, IInv, IgnoredSlotsAreEmpty

(* The inductive invariant holds in every reachable state.                 *)
THEOREM InvCorrect == Spec => []IInv
BY InvInit, InvStep, PTL DEF Spec

(* The window is the WindowWidth numbers that follow cur_id                *)
(* (receive/reblock.rs), for any link.                                     *)
THEOREM WindowCorrect == Spec => []WindowFollowsCurrent
<1>1. IInv => WindowFollowsCurrent BY DEF IInv
<1> QED BY <1>1, InvCorrect, PTL

(* No packet waits in a slot out of the window (receive/reblock.rs).       *)
THEOREM IgnoredSlotsCorrect == Spec => []IgnoredSlotsAreEmpty
<1>1. IInv => IgnoredSlotsAreEmpty BY DEF IInv
<1> QED BY <1>1, InvCorrect, PTL

(* Neither test for a lost block of receive/reblock.rs ever succeeds,      *)
(* whatever the link loses.                                                *)
THEOREM LossIsNeverReported == Spec => []NoErrorSent
<1>1. IInv => NoErrorSent BY DEF IInv
<1> QED BY <1>1, InvCorrect, PTL
(* The parameters of the model are of their types.                         *)
THEOREM TypeCorrect == Spec => []TypeOK
<1>1. IInv => TypeOK BY DEF IInv
<1> QED BY <1>1, InvCorrect, PTL
-----------------------------------------------------------------------------
(* The last message to the decoders was sent since the last restart.       *)
LastInEpoch ==
  to_decode # <<>> /\ to_decode[Len(to_decode)].epoch = Len(first)

(* cur_id is the number that follows the last one handed over, or that of  *)
(* the first datagram after a restart.                                     *)
IdInv ==
  /\ \A i \in 1 .. Len(to_decode) : to_decode[i].epoch \in 1 .. Len(first)
  /\ ConsecutiveIds
  /\ first # <<>> =>
       cur_id = IF LastInEpoch
                THEN WrappingAdd(to_decode[Len(to_decode)].id, 1)
                ELSE IdOf(first[Len(first)])

LEMMA IdInit == Init => IdInv
BY DEF Init, IdInv, ConsecutiveIds

(* The logs only grow.                                                     *)
LEMMA LogTypes ==
  ASSUME TypeOK
  PROVE  /\ Len(to_decode) \in Nat /\ Len(first) \in Nat
         /\ to_decode = <<>> <=> Len(to_decode) = 0
         /\ first = <<>> <=> Len(first) = 0
BY DEF TypeOK

LEMMA IdReceive ==
  ASSUME IInv, IdInv, ReceiveSome
  PROVE  IdInv'
<1>1. PICK n \in 1 .. MaxBatch : \E b \in [1 .. n -> 1 .. Sent] : Receive(b)
  BY DEF ReceiveSome
<1>2. PICK batch \in [1 .. n -> 1 .. Sent] : Receive(batch)
  BY <1>1
<1>3. TypeOK BY DEF IInv
<1>4. CASE ~ reset
  <2>1. UNCHANGED <<to_decode, first, cur_id>> BY <1>2, <1>4 DEF Receive
  <2> QED BY <2>1 DEF IdInv, ConsecutiveIds, LastInEpoch
<1>5. CASE reset
  <2>1. /\ to_decode' = to_decode /\ first' = Append(first, batch[1])
        /\ cur_id' = IdOf(batch[1])
    BY <1>2, <1>5 DEF Receive
  <2>2. /\ Len(first') = Len(first) + 1 /\ first'[Len(first')] = batch[1]
        /\ \A e \in 1 .. Len(first) : first'[e] = first[e]
    BY <1>3, <2>1 DEF TypeOK
  <2>3. Len(to_decode) \in Nat /\ Len(first) \in Nat
    BY <1>3, LogTypes
  <2>4. \A i \in 1 .. Len(to_decode) :
          to_decode[i].epoch \in 1 .. Len(first) /\ to_decode[i].epoch # Len(first')
    BY <2>2, <2>3 DEF IdInv
  <2>5. ConsecutiveIds' BY <2>1, <2>2, <2>4 DEF IdInv, ConsecutiveIds
  <2>6. ~ LastInEpoch'
    BY <1>3, <2>1, <2>3, <2>4, LogTypes DEF LastInEpoch
  <2>7. \A i \in 1 .. Len(to_decode) : to_decode[i].epoch \in 1 .. Len(first')
    BY <2>2, <2>3, <2>4
  <2> QED BY <2>1, <2>2, <2>5, <2>6, <2>7 DEF IdInv
<1> QED BY <1>4, <1>5

LEMMA IdReassemble ==
  ASSUME IInv, IdInv, Reassemble
  PROVE  IdInv'
<1> DEFINE block == Block(cur_id, blocks_data[cur_id])
<1> DEFINE n == Len(to_decode)
<1>1. TypeOK BY DEF IInv
<1>2. /\ to_decode' = Append(to_decode, block)
      /\ cur_id' = WrappingAdd(cur_id, 1)
      /\ first' = first /\ first # <<>>
  BY ReassembleEffect
<1>3. block.id = cur_id /\ block.epoch = Len(first) BY DEF Block
<1>4. n \in Nat /\ Len(first) \in Nat \ {0} BY <1>1, <1>2, LogTypes
<1> HIDE DEF block
<1>5. /\ Len(to_decode') = n + 1 /\ to_decode'[n + 1] = block
      /\ \A i \in 1 .. n : to_decode'[i] = to_decode[i]
  BY <1>1, <1>2 DEF TypeOK
<1>6. LastInEpoch' /\ to_decode'[Len(to_decode')].id = cur_id
  BY <1>2, <1>3, <1>4, <1>5 DEF LastInEpoch
<1>7. ConsecutiveIds'
  <2> SUFFICES ASSUME NEW i \in 1 .. n + 1
               PROVE  to_decode'[i].id =
                        IF i = 1 \/ to_decode'[i].epoch # to_decode'[i - 1].epoch
                        THEN IdOf(first[to_decode'[i].epoch])
                        ELSE WrappingAdd(to_decode'[i - 1].id, 1)
    BY <1>2, <1>5 DEF ConsecutiveIds
  <2>1. CASE i \in 1 .. n
    <3>1. i = 1 \/ i - 1 \in 1 .. n BY <2>1, <1>4
    <3> QED BY <1>5, <2>1, <3>1 DEF IdInv, ConsecutiveIds
  <2>2. CASE i = n + 1
    <3>1. i = 1 <=> to_decode = <<>> BY <1>1, <1>4, <2>2, LogTypes
    <3>2. i # 1 => to_decode'[i - 1] = to_decode[n] BY <1>4, <1>5, <2>2
    <3>3. LastInEpoch <=> ~ (i = 1 \/ block.epoch # to_decode'[i - 1].epoch)
      BY <1>3, <3>1, <3>2 DEF LastInEpoch
    <3>4. cur_id = IF LastInEpoch THEN WrappingAdd(to_decode[n].id, 1)
                   ELSE IdOf(first[Len(first)])
      BY <1>2 DEF IdInv
    <3> QED BY <1>3, <1>5, <2>2, <3>1, <3>2, <3>3, <3>4
  <2> QED BY <2>1, <2>2, <1>4
<1>8. \A i \in 1 .. n + 1 : to_decode'[i].epoch \in 1 .. Len(first)
  BY <1>3, <1>4, <1>5 DEF IdInv
<1> QED BY <1>2, <1>5, <1>6, <1>7, <1>8 DEF IdInv

LEMMA IdStep == IInv /\ IdInv /\ [Next]_vars => IdInv'
<1> SUFFICES ASSUME IInv, IdInv, [Next]_vars PROVE IdInv'
  OBVIOUS
<1>1. CASE SendBlock \/ Timeout \/ UNCHANGED vars
  <2>1. UNCHANGED <<to_decode, first, cur_id>>
    BY <1>1, TimeoutEffect DEF SendBlock, vars, reblockVars
  <2> QED BY <2>1 DEF IdInv, ConsecutiveIds, LastInEpoch
<1>2. CASE ReceiveSome BY <1>2, IdReceive
<1>3. CASE Reassemble BY <1>3, IdReassemble
<1> QED BY <1>1, <1>2, <1>3 DEF Next

THEOREM IdCorrect == Spec => []IdInv
BY IdInit, IdStep, InvCorrect, PTL DEF Spec

(* Between two restarts the decoders are given consecutive block numbers   *)
(* from that of the first datagram on, whatever the link loses.            *)
THEOREM ConsecutiveIdsCorrect == Spec => []ConsecutiveIds
<1>1. IdInv => ConsecutiveIds BY DEF IdInv
<1> QED BY <1>1, IdCorrect, PTL
-----------------------------------------------------------------------------
(* How the numbers of two blocks of the sender lie on the circle.          *)
LEMMA IdOfAhead ==
  ASSUME NEW s \in Nat \ {0}, NEW k \in BlockId
  PROVE  IdOf(s + k) = WrappingAdd(IdOf(s), k)
<1> DEFINE x == s - 1
<1>1. x \in Nat /\ k \in Nat BY IdCountAssumption DEF BlockId
<1>2. (s + k) - 1 = x + k BY <1>1
<1> HIDE DEF x
<1>3. IdCount \in Nat /\ IdCount > 1 BY IdCountAssumption
<1>4. (x + k) % IdCount = ((x % IdCount) + k) % IdCount
  BY <1>1, <1>3, ModAdd
<1> QED BY <1>2, <1>4 DEF IdOf, WrappingAdd, x

LEMMA IdOfInjective ==
  ASSUME NEW r \in Nat \ {0}, NEW s \in Nat \ {0},
         r - s < IdCount, s - r < IdCount, IdOf(r) = IdOf(s)
  PROVE  r = s
<1> DEFINE x == r - 1
<1> DEFINE y == s - 1
<1>1. /\ x \in Nat /\ y \in Nat
      /\ x - y < IdCount /\ y - x < IdCount
      /\ x = y => r = s
  OBVIOUS
<1>2. x % IdCount = y % IdCount BY DEF IdOf
<1>3. IdCount \in Nat /\ IdCount > 0 BY IdCountAssumption
<1> HIDE DEF x, y
<1>4. CASE x <= y BY <1>1, <1>2, <1>3, <1>4, ModInj
<1>5. CASE y <= x BY <1>1, <1>2, <1>3, <1>5, ModInj
<1> QED BY <1>1, <1>4, <1>5

(* The packets of block s that are not in flight any more.                 *)
Arrived(link, s) == {p \in [block : {s}, nth : 1 .. NbPackets] : p.nth > link[s]}

LEMMA ArrivedCardinality ==
  ASSUME NEW link, NEW s, link[s] \in 0 .. NbPackets
  PROVE  Cardinality(Arrived(link, s)) = NbPackets - link[s]
<1> DEFINE I == link[s] + 1 .. NbPackets
<1> DEFINE f == [n \in I |-> [block |-> s, nth |-> n]]
<1>1. NbPackets \in Nat BY LinkAssumption
<1>2. f \in [I -> Arrived(link, s)] BY <1>1 DEF Arrived
<1>3. \A m, n \in I : f[m] = f[n] => m = n OBVIOUS
<1>4. \A p \in Arrived(link, s) : \E n \in I : f[n] = p
  <2> SUFFICES ASSUME NEW p \in Arrived(link, s)
               PROVE  p.nth \in I /\ f[p.nth] = p
    OBVIOUS
  <2> QED BY <1>1 DEF Arrived
<1>5. f \in Bijection(I, Arrived(link, s))
  <2>1. f \in Injection(I, Arrived(link, s))
    BY <1>2, <1>3 DEF Injection, IsInjective
  <2>2. f \in Surjection(I, Arrived(link, s))
    BY <1>2, <1>4 DEF Surjection
  <2> QED BY <2>1, <2>2 DEF Bijection
<1>6. IsFiniteSet(I) /\ Cardinality(I) = NbPackets - link[s]
  <2>1. link[s] + 1 \in Int /\ NbPackets \in Int BY <1>1
  <2>2. IsFiniteSet(I)
        /\ Cardinality(I) = IF link[s] + 1 > NbPackets THEN 0
                            ELSE NbPackets - (link[s] + 1) + 1
    BY <2>1, FS_Interval
  <2> QED BY <1>1, <2>2
<1>7. ExistsBijection(I, Arrived(link, s)) BY <1>5 DEF ExistsBijection
<1> QED BY <1>6, <1>7, FS_Bijection
-----------------------------------------------------------------------------
(* A slot holds what came of block s, and nothing else.  Once the link has *)
(* dropped the rest of the block only their number is known.               *)
Holds(link, slot, s) ==
  IF s > Len(link) THEN slot = {}
  ELSE IF s > Len(link) - MaxSkew THEN slot = Arrived(link, s)
  ELSE (\A p \in slot : p.block = s) /\ Cardinality(slot) >= MinPackets

Window == 0 .. WindowWidth - 1

(* What is in flight: nothing of the old blocks; nothing was received      *)
(* since the silence of a timeout.                                         *)
LinkInv ==
  /\ \A s \in 1 .. Sent : s <= Sent - MaxSkew => pending[s] = 0
  /\ reset /\ ~ lossy =>
       \A s \in 1 .. Sent : pending[s] # 0 =>
         \A r \in s .. Sent : pending[r] = NbPackets

(* On a link that loses no more than the repair packets: cur_id is the     *)
(* number of the block that is due, the slots of the window hold what came *)
(* of the blocks from that one on, and nothing has come of later ones.     *)
SlotInv ==
  ~ lossy =>
    /\ InOrderWithoutHole
    /\ LastInEpoch => \E s \in Nat \ {0} : Sources(Len(to_decode)) = {s}
    /\ ~ reset =>
         /\ DueBlock \in 1 .. Sent + 1
         /\ cur_id = IdOf(DueBlock)
         /\ \A k \in Window :
              Holds(pending, blocks_data[IdOf(DueBlock + k)], DueBlock + k)
         /\ \A s \in DueBlock + WindowWidth .. Sent : pending[s] = NbPackets

LEMMA LinkInit == Init => LinkInv /\ SlotInv
<1> SUFFICES ASSUME Init PROVE LinkInv /\ SlotInv OBVIOUS
<1>1. Sent = 0 BY DEF Init, Sent
<1>2. LinkInv BY <1>1 DEF Init, LinkInv
<1>3. SlotInv BY DEF Init, SlotInv, InOrderWithoutHole, LastInEpoch
<1> QED BY <1>2, <1>3

LEMMA BatchFacts ==
  ASSUME TypeOK, NEW n \in Nat, NEW batch \in [1 .. n -> 1 .. Sent],
         \A s \in 1 .. Sent : Count(batch, s) <= pending[s]
  PROVE  /\ \A s \in 1 .. Sent : Count(batch, s) \in 0 .. pending[s]
         /\ \A i \in 1 .. n : pending[batch[i]] > 0
<1>1. \A s \in 1 .. Sent :
        /\ IsFiniteSet({i \in DOMAIN batch : batch[i] = s})
        /\ Count(batch, s) \in Nat
  <2> SUFFICES ASSUME NEW s \in 1 .. Sent
               PROVE  /\ IsFiniteSet({i \in DOMAIN batch : batch[i] = s})
                      /\ Count(batch, s) \in Nat
    OBVIOUS
  <2>1. IsFiniteSet(1 .. n) BY FS_Interval
  <2>2. {i \in DOMAIN batch : batch[i] = s} \in SUBSET (1 .. n) OBVIOUS
  <2>3. IsFiniteSet({i \in DOMAIN batch : batch[i] = s})
    BY <2>1, <2>2, FS_Subset
  <2> QED BY <2>3, FS_CardinalityType DEF Count
<1>2. \A s \in 1 .. Sent : pending[s] \in 0 .. NbPackets BY PendingType
<1>3. \A s \in 1 .. Sent : Count(batch, s) \in 0 .. pending[s]
  <2> SUFFICES ASSUME NEW s \in 1 .. Sent
               PROVE  Count(batch, s) \in 0 .. pending[s]
    OBVIOUS
  <2>1. Count(batch, s) \in Nat BY <1>1
  <2>2. Count(batch, s) <= pending[s] OBVIOUS
  <2>3. pending[s] \in Int BY <1>2, LinkAssumption
  <2> QED BY <2>1, <2>2, <2>3
<1>4. ASSUME NEW i \in 1 .. n
      PROVE  pending[batch[i]] > 0
  <2>1. batch[i] \in 1 .. Sent OBVIOUS
  <2>2. {j \in DOMAIN batch : batch[j] = batch[i]} # {} OBVIOUS
  <2>3. Count(batch, batch[i]) # 0
    BY <1>1, <2>1, <2>2, FS_EmptySet DEF Count
  <2> QED BY <1>2, <1>3, <2>1, <2>3, LinkAssumption
<1> QED BY <1>3, <1>4

(* What a batch adds to the slot of a block of the window: exactly the     *)
(* packets of that block.                                                  *)
LEMMA PushHolds ==
  ASSUME MaxSkew <= WindowWidth, TypeOK,
         \A s \in 1 .. Sent : s <= Sent - MaxSkew => pending[s] = 0,
         NEW n \in Nat, NEW batch \in [1 .. n -> 1 .. Sent],
         \A s \in 1 .. Sent : Count(batch, s) <= pending[s],
         NEW link, link = [s \in 1 .. Sent |-> pending[s] - Count(batch, s)],
         NEW due \in 1 .. Sent + 1, due > Sent - MaxSkew,
         NEW data, NEW ignore, NEW k \in Window,
         ~ ignore[IdOf(due + k)],
         Holds(pending, data[IdOf(due + k)], due + k)
  PROVE  Holds(link, Push(batch, data, ignore)[IdOf(due + k)], due + k)
<1> DEFINE s == due + k
<1>1. /\ Sent \in Nat /\ NbPackets \in Nat /\ MaxSkew \in Nat
      /\ WindowWidth \in 1 .. IdCount - 1 /\ IdCount \in Nat
      /\ 2 * WindowWidth < IdCount
      /\ k \in 0 .. WindowWidth - 1
  <2>1. /\ Sent \in Nat /\ NbPackets \in Nat /\ MaxSkew \in Nat
    BY PendingType, LinkAssumption
  <2>2. /\ WindowWidth \in 1 .. IdCount - 1 /\ IdCount \in Nat
        /\ 2 * WindowWidth < IdCount
    BY WindowWidthFact, IdCountAssumption DEF WindowWidth
  <2>3. k \in 0 .. WindowWidth - 1 BY DEF Window
  <2> QED BY <2>1, <2>2, <2>3
<1>2. s \in Nat \ {0} /\ s > Sent - MaxSkew BY <1>1
<1>3. IdOf(s) \in BlockId BY <1>2, IdOfType
<1>4. /\ \A r \in 1 .. Sent : pending[r] \in 0 .. NbPackets
      /\ \A r \in 1 .. Sent : Count(batch, r) \in 0 .. pending[r]
      /\ \A i \in 1 .. n : pending[batch[i]] > 0
  BY PendingType, BatchFacts
<1>5. Len(link) = Sent /\ DOMAIN link = 1 .. Sent
  BY <1>1
<1>6. \A p \in Packets(batch) :
        /\ p.block \in 1 .. Sent /\ pending[p.block] > 0
        /\ p \in [block : {p.block}, nth : 1 .. NbPackets]
        /\ p.nth > link[p.block] /\ p.nth <= pending[p.block]
  <2> SUFFICES ASSUME NEW p \in Packets(batch)
               PROVE  /\ p.block \in 1 .. Sent /\ pending[p.block] > 0
                      /\ p \in [block : {p.block}, nth : 1 .. NbPackets]
                      /\ p.nth > link[p.block] /\ p.nth <= pending[p.block]
    OBVIOUS
  <2>1. /\ p \in [block : {batch[i] : i \in DOMAIN batch}, nth : 1 .. NbPackets]
        /\ p.nth \in pending[p.block] - Count(batch, p.block) + 1
                       .. pending[p.block]
    BY DEF Packets
  <2>2. PICK i \in 1 .. n : p.block = batch[i] BY <2>1
  <2>3. p.block \in 1 .. Sent /\ pending[p.block] > 0 BY <1>4, <2>2
  <2>4. link[p.block] = pending[p.block] - Count(batch, p.block) BY <2>3
  <2>5. link[p.block] \in Int /\ pending[p.block] \in Int BY <1>4, <2>3, <2>4
  <2> QED BY <2>1, <2>3, <2>4, <2>5
<1>7. \A p \in Packets(batch) : IdOf(p.block) = IdOf(s) <=> p.block = s
  <2> SUFFICES ASSUME NEW p \in Packets(batch), IdOf(p.block) = IdOf(s)
               PROVE  p.block = s
    OBVIOUS
  <2>1. p.block \in 1 .. Sent /\ p.block > Sent - MaxSkew
    <3>1. p.block \in 1 .. Sent /\ pending[p.block] # 0 BY <1>6
    <3>2. ~ (p.block <= Sent - MaxSkew) BY <3>1
    <3> QED BY <1>1, <3>1, <3>2
  <2>2. p.block - s < IdCount /\ s - p.block < IdCount BY <1>1, <2>1
  <2> QED BY <1>2, <2>1, <2>2, IdOfInjective
<1>8. Push(batch, data, ignore)[IdOf(s)]
        = data[IdOf(s)] \cup {p \in Packets(batch) : p.block = s}
  BY <1>3, <1>7 DEF Push
<1>9. CASE s > Sent
  <2>1. \A p \in Packets(batch) : p.block # s
    <3>1. s \notin 1 .. Sent BY <1>1, <1>2, <1>9
    <3> QED BY <1>6, <3>1
  <2>2. data[IdOf(s)] = {} BY <1>9 DEF Holds, Sent
  <2> QED BY <1>5, <1>8, <1>9, <2>1, <2>2 DEF Holds
<1>10. CASE s <= Sent
  <2>1. data[IdOf(s)] = Arrived(pending, s)
    BY <1>1, <1>2, <1>10 DEF Holds, Sent
  <2>2. s \in 1 .. Sent BY <1>1, <1>2, <1>10
  <2>3. link[s] = pending[s] - Count(batch, s) BY <2>2
  <2>4. /\ link[s] \in Int /\ pending[s] \in Int /\ link[s] <= pending[s]
        /\ pending[s] <= NbPackets
    BY <1>1, <1>4, <2>2, <2>3
  <2>5. Arrived(pending, s) \cup {p \in Packets(batch) : p.block = s}
          = Arrived(link, s)
    <3>1. ASSUME NEW p \in Arrived(pending, s) PROVE p \in Arrived(link, s)
      BY <2>4 DEF Arrived
    <3>2. ASSUME NEW p \in Packets(batch), p.block = s
          PROVE  p \in Arrived(link, s)
      BY <1>6, <3>2 DEF Arrived
    <3>3. ASSUME NEW p \in Arrived(link, s), p \notin Arrived(pending, s)
          PROVE  p \in Packets(batch) /\ p.block = s
      <4>1. /\ p \in [block : {s}, nth : 1 .. NbPackets]
            /\ p.nth > link[s] /\ p.nth <= pending[s]
        BY <2>4, <3>3 DEF Arrived
      <4>2. Count(batch, s) # 0 BY <2>3, <2>4, <4>1
      <4>3. \E i \in DOMAIN batch : batch[i] = s
        <5> SUFFICES ASSUME \A i \in DOMAIN batch : batch[i] # s PROVE FALSE
          OBVIOUS
        <5>1. {i \in DOMAIN batch : batch[i] = s} = {} OBVIOUS
        <5> QED BY <4>2, <5>1, FS_EmptySet DEF Count
      <4>4. p.nth \in pending[s] - Count(batch, s) + 1 .. pending[s]
        BY <2>3, <2>4, <4>1
      <4> QED BY <4>1, <4>3, <4>4 DEF Packets
    <3> QED BY <3>1, <3>2, <3>3
  <2>6. Push(batch, data, ignore)[IdOf(s)] = Arrived(link, s)
    BY <1>8, <2>1, <2>5
  <2>7. ~ (s > Len(link)) /\ s > Len(link) - MaxSkew
    BY <1>1, <1>2, <1>5, <1>10
  <2> QED BY <2>6, <2>7 DEF Holds
<1> QED BY <1>1, <1>2, <1>9, <1>10
(* The window is narrower than half a lap.                                 *)
LEMMA LinkFacts ==
  /\ NbPackets \in Nat /\ MinPackets \in 1 .. NbPackets
  /\ MaxSkew \in Nat \ {0}
  /\ WindowWidth \in 1 .. IdCount - 1 /\ IdCount \in Nat
  /\ 2 * WindowWidth < IdCount
  /\ 0 \in Window
BY LinkAssumption, WindowWidthFact, IdCountAssumption DEF WindowWidth, Window

(* While it waits for a datagram, the block that is due is not too old:    *)
(* what the link has let through of an old block is enough.                *)
LEMMA DueIsRecent ==
  ASSUME TypeOK, SlotInv, ~ lossy, ~ reset, ~ CurrentIsComplete
  PROVE  DueBlock > Sent - MaxSkew
<1>1. /\ DueBlock \in 1 .. Sent + 1
      /\ cur_id = IdOf(DueBlock)
      /\ Holds(pending, blocks_data[IdOf(DueBlock + 0)], DueBlock + 0)
  BY LinkFacts DEF SlotInv
<1>2. DueBlock \in Int /\ DueBlock + 0 = DueBlock /\ Sent \in Nat
  BY <1>1, PendingType
<1> SUFFICES ASSUME ~ (DueBlock > Sent - MaxSkew) PROVE FALSE
  OBVIOUS
<1>3. ~ (DueBlock > Sent) BY <1>2, LinkFacts
<1>4. Cardinality(blocks_data[IdOf(DueBlock)]) >= MinPackets
  BY <1>1, <1>2, <1>3 DEF Holds, Sent
<1> QED BY <1>1, <1>4 DEF CurrentIsComplete

(* The variables of the receiver that the due block depends on.            *)
LEMMA DueUnchanged ==
  ASSUME UNCHANGED <<to_decode, first>>
  PROVE  /\ DueBlock' = DueBlock
         /\ LastInEpoch' <=> LastInEpoch
         /\ InOrderWithoutHole /\ (~ lossy' => ~ lossy) => InOrderWithoutHole'
         /\ Sources(Len(to_decode))' = Sources(Len(to_decode))
<1>1. Sources(Len(to_decode))' = Sources(Len(to_decode)) BY DEF Sources
<1>2. DueBlock' = DueBlock BY DEF DueBlock, Sources
<1>3. LastInEpoch' <=> LastInEpoch BY DEF LastInEpoch
<1>4. InOrderWithoutHole /\ (~ lossy' => ~ lossy) => InOrderWithoutHole'
  BY DEF InOrderWithoutHole, Sources
<1> QED BY <1>1, <1>2, <1>3, <1>4

LEMMA SendBlockEffect ==
  ASSUME TypeOK, SendBlock
  PROVE  /\ Sent' = Sent + 1 /\ Sent \in Nat
         /\ \A s \in 1 .. Sent + 1 :
              pending'[s] = IF s <= Sent + 1 - MaxSkew THEN 0
                            ELSE IF s = Sent + 1 THEN NbPackets ELSE pending[s]
         /\ UNCHANGED reblockVars
         /\ ~ lossy' => /\ ~ lossy
                        /\ \A s \in 1 .. Sent + 1 - MaxSkew :
                             NbPackets - pending[s] >= MinPackets
<1>1. Sent \in Nat BY PendingType
<1>2. pending' = [s \in 1 .. Sent + 1 |->
                    IF s <= Sent + 1 - MaxSkew THEN 0
                    ELSE IF s = Sent + 1 THEN NbPackets ELSE pending[s]]
  BY DEF SendBlock
<1>3. Len(pending') = Sent + 1 BY <1>1, <1>2
<1> QED BY <1>1, <1>2, <1>3 DEF SendBlock, Sent, Enough

LEMMA LinkSendBlock ==
  ASSUME IInv, LinkInv, SlotInv, SendBlock
  PROVE  LinkInv' /\ SlotInv'
<1>1. TypeOK BY DEF IInv
<1>2. /\ Sent' = Sent + 1 /\ Sent \in Nat
      /\ \A s \in 1 .. Sent + 1 :
           pending'[s] = IF s <= Sent + 1 - MaxSkew THEN 0
                         ELSE IF s = Sent + 1 THEN NbPackets ELSE pending[s]
      /\ UNCHANGED reblockVars
      /\ ~ lossy' => /\ ~ lossy
                     /\ \A s \in 1 .. Sent + 1 - MaxSkew :
                          NbPackets - pending[s] >= MinPackets
  BY <1>1, SendBlockEffect
<1>3. /\ NbPackets \in Nat /\ MinPackets \in 1 .. NbPackets
      /\ MaxSkew \in Nat \ {0} /\ WindowWidth \in Nat \ {0}
  BY LinkFacts
<1>4. LinkInv'
  <2>1. \A s \in 1 .. Sent + 1 : s <= Sent + 1 - MaxSkew => pending'[s] = 0
    BY <1>2
  <2>3. ASSUME reset, ~ lossy', NEW s \in 1 .. Sent + 1, pending'[s] # 0,
               NEW r \in s .. Sent + 1
        PROVE  pending'[r] = NbPackets
    <3>1. s > Sent + 1 - MaxSkew BY <1>2, <1>3, <2>3
    <3>2. r \in 1 .. Sent + 1 /\ r > Sent + 1 - MaxSkew
      BY <1>2, <1>3, <3>1
    <3>3. CASE r = Sent + 1 BY <1>2, <1>3, <3>2, <3>3
    <3>4. CASE r # Sent + 1
      <4>1. s \in 1 .. Sent /\ r \in s .. Sent BY <1>2, <3>2, <3>4
      <4>2. pending'[s] = pending[s] /\ pending'[r] = pending[r]
        BY <1>2, <1>3, <3>1, <3>2, <4>1
      <4> QED BY <1>2, <2>3, <4>1, <4>2 DEF LinkInv
    <3> QED BY <3>3, <3>4
  <2>4. reset' = reset BY <1>2 DEF reblockVars
  <2>5. reset' /\ ~ lossy' =>
          \A s \in 1 .. Sent' : pending'[s] # 0 =>
            \A r \in s .. Sent' : pending'[r] = NbPackets
    BY <1>2, <2>3, <2>4
  <2>6. \A s \in 1 .. Sent' : s <= Sent' - MaxSkew => pending'[s] = 0
    BY <1>2, <1>3, <2>1
  <2> QED BY <2>5, <2>6 DEF LinkInv
<1>5. SlotInv'
  <2> SUFFICES ASSUME ~ lossy' PROVE SlotInv'
    BY DEF SlotInv
  <2>1. ~ lossy /\ UNCHANGED <<to_decode, first, reset, cur_id, blocks_data>>
    BY <1>2 DEF reblockVars
  <2>2. CASE reset BY <2>1, <2>2, DueUnchanged DEF SlotInv
  <2>3. CASE ~ reset
    <3> DEFINE due == DueBlock
    <3>1. /\ due \in 1 .. Sent + 1 /\ cur_id = IdOf(due)
          /\ \A k \in Window : Holds(pending, blocks_data[IdOf(due + k)], due + k)
          /\ \A s \in due + WindowWidth .. Sent : pending[s] = NbPackets
      BY <2>1, <2>3 DEF SlotInv
    <3>2. DueBlock' = due BY <2>1, DueUnchanged
    <3> HIDE DEF due
    <3>3. Len(pending) = Sent /\ Len(pending') = Sent + 1 BY <1>2 DEF Sent
    <3>4. ASSUME NEW k \in Window
          PROVE  Holds(pending', blocks_data[IdOf(due + k)], due + k)
      <4> DEFINE s == due + k
      <4> DEFINE slot == blocks_data[IdOf(s)]
      <4>1. s \in Nat \ {0} /\ Holds(pending, slot, s)
        BY <1>2, <3>1 DEF Window
      <4> SUFFICES Holds(pending', slot, s) OBVIOUS
      <4> HIDE DEF s, slot
      <4>2. CASE s > Sent + 1
        BY <1>2, <3>3, <4>1, <4>2 DEF Holds
      <4>3. CASE s = Sent + 1
        <5>1. slot = {} BY <1>2, <3>3, <4>1, <4>3 DEF Holds
        <5>2. pending'[s] = NbPackets BY <1>2, <1>3, <4>3
        <5>3. Arrived(pending', s) = {} BY <1>3, <5>2 DEF Arrived
        <5> QED BY <1>2, <1>3, <3>3, <4>3, <5>1, <5>3 DEF Holds
      <4>4. CASE s <= Sent /\ s > Sent + 1 - MaxSkew
        <5>1. slot = Arrived(pending, s)
          BY <1>2, <1>3, <3>3, <4>1, <4>4 DEF Holds
        <5>2. pending'[s] = pending[s] BY <1>2, <1>3, <4>1, <4>4
        <5>3. Arrived(pending', s) = Arrived(pending, s) BY <5>2 DEF Arrived
        <5> QED BY <1>2, <1>3, <3>3, <4>1, <4>4, <5>1, <5>3 DEF Holds
      <4>5. CASE s = Sent + 1 - MaxSkew
        <5>1. slot = Arrived(pending, s)
          BY <1>2, <1>3, <3>3, <4>1, <4>5 DEF Holds
        <5>2. s \in 1 .. Sent /\ s \in 1 .. Sent + 1 - MaxSkew
          BY <1>2, <1>3, <4>1, <4>5
        <5>3. pending[s] \in 0 .. NbPackets BY <1>1, <5>2, PendingType
        <5>4. Cardinality(slot) >= MinPackets
          BY <1>2, <5>1, <5>2, <5>3, ArrivedCardinality
        <5>5. \A p \in slot : p.block = s BY <5>1 DEF Arrived
        <5> QED BY <1>2, <1>3, <3>3, <4>5, <5>4, <5>5 DEF Holds
      <4>6. CASE s < Sent + 1 - MaxSkew
        BY <1>2, <1>3, <3>3, <4>1, <4>6 DEF Holds
      <4> QED BY <1>2, <1>3, <4>1, <4>2, <4>3, <4>4, <4>5, <4>6
    <3>5. ASSUME NEW s \in due + WindowWidth .. Sent + 1
          PROVE  pending'[s] = NbPackets
      <4>1. s \in 1 .. Sent + 1 BY <1>2, <1>3, <3>1
      <4>2. CASE s = Sent + 1 BY <1>2, <1>3, <4>1, <4>2
      <4>3. CASE s # Sent + 1
        <5>1. s \in due + WindowWidth .. Sent BY <1>2, <1>3, <3>1, <4>1, <4>3
        <5>2. pending[s] = NbPackets BY <3>1, <5>1
        <5>3. ~ (s <= Sent + 1 - MaxSkew)
          <6> SUFFICES ASSUME s <= Sent + 1 - MaxSkew PROVE FALSE OBVIOUS
          <6>1. s \in 1 .. Sent + 1 - MaxSkew BY <1>2, <1>3, <4>1
          <6>2. NbPackets - pending[s] >= MinPackets BY <1>2, <6>1
          <6> QED BY <1>3, <5>2, <6>2
        <5> QED BY <1>2, <4>1, <4>3, <5>2, <5>3
      <4> QED BY <4>2, <4>3
    <3>6. due \in 1 .. (Sent + 1) + 1 BY <1>2, <3>1
    <3>7. ~ lossy' =>
            /\ InOrderWithoutHole'
            /\ LastInEpoch' =>
                 \E s \in Nat \ {0} : Sources(Len(to_decode))' = {s}
      BY <2>1, DueUnchanged DEF SlotInv
    <3> QED BY <1>2, <2>1, <3>1, <3>2, <3>4, <3>5, <3>6, <3>7 DEF SlotInv
  <2> QED BY <2>2, <2>3
<1> QED BY <1>4, <1>5
LEMMA LinkTimeout ==
  ASSUME IInv, LinkInv, SlotInv, Timeout
  PROVE  LinkInv' /\ SlotInv'
<1>1. Sent \in Nat BY PendingType DEF IInv
<1>2. pending' = [s \in 1 .. Sent |-> 0] BY DEF Timeout
<1>3. Sent' = Sent /\ \A s \in 1 .. Sent : pending'[s] = 0
  BY <1>1, <1>2 DEF Sent
<1>4. /\ UNCHANGED <<to_decode, first, blocks_data, cur_id>>
      /\ reset' = TRUE
      /\ ~ lossy' => ~ lossy
  BY TimeoutEffect DEF Timeout
<1>5. LinkInv' BY <1>3, <1>4 DEF LinkInv
<1>6. SlotInv' BY <1>4, DueUnchanged DEF SlotInv
<1> QED BY <1>5, <1>6

(* The blocks of a window that starts at a recent block end with the last  *)
(* one sent, or later.                                                     *)
LEMMA WindowReachesEnd ==
  ASSUME MaxSkew <= WindowWidth, Sent \in Nat, NEW due \in 1 .. Sent + 1,
         due > Sent - MaxSkew
  PROVE  due + WindowWidth .. Sent = {}
BY LinkFacts

LEMMA LinkReceive ==
  ASSUME MaxSkew <= WindowWidth,
         IInv, IdInv, LinkInv, SlotInv, ReceiveSome
  PROVE  LinkInv' /\ SlotInv'
<1>1. PICK n \in 1 .. MaxBatch : \E b \in [1 .. n -> 1 .. Sent] :
        /\ \A s \in 1 .. Sent : Count(b, s) <= pending[s]
        /\ Receive(b)
  BY DEF ReceiveSome
<1>2. PICK batch \in [1 .. n -> 1 .. Sent] :
        /\ \A s \in 1 .. Sent : Count(batch, s) <= pending[s]
        /\ Receive(batch)
  BY <1>1
<1>3. n \in Nat /\ 1 \in 1 .. n BY LinkAssumption
<1>4. TypeOK /\ Sent \in Nat BY PendingType DEF IInv
<1>5. /\ \A s \in 1 .. Sent : Count(batch, s) \in 0 .. pending[s]
      /\ \A i \in 1 .. n : pending[batch[i]] > 0
  BY <1>2, <1>3, <1>4, BatchFacts
<1>6. PICK link : link = pending' OBVIOUS
<1>7. link = [s \in 1 .. Sent |-> pending[s] - Count(batch, s)]
  BY <1>2, <1>6 DEF Receive
<1>8. Sent' = Sent BY <1>4, <1>6, <1>7 DEF Sent
<1>9. /\ reset' = FALSE /\ lossy' = lossy /\ to_decode' = to_decode
      /\ ~ CurrentIsComplete
  BY <1>2 DEF Receive
<1>10. \A s \in 1 .. Sent : s <= Sent - MaxSkew => pending[s] = 0
  BY DEF LinkInv
<1>11. LinkInv'
  <2>1. ASSUME NEW s \in 1 .. Sent, s <= Sent - MaxSkew
        PROVE  link[s] = 0
    <3>1. pending[s] = 0 /\ Count(batch, s) \in 0 .. pending[s]
      BY <1>5, <1>10, <2>1
    <3>2. Count(batch, s) = 0 BY <3>1
    <3> QED BY <1>7, <3>1, <3>2
  <2> QED BY <1>6, <1>8, <1>9, <2>1 DEF LinkInv
<1>12. CASE lossy BY <1>9, <1>11, <1>12 DEF SlotInv
<1>13. CASE ~ lossy /\ reset
  <2> DEFINE due == batch[1]
  <2> DEFINE empty == [i \in BlockId |-> {}]
  <2>1. PICK ignore : ignore = blocks_ignore' OBVIOUS
  <2>2. /\ cur_id' = IdOf(due)
        /\ ignore = OpenWindow(IdOf(due))
        /\ blocks_data' = Push(batch, empty, ignore)
        /\ first' = Append(first, due)
    BY <1>2, <1>13, <2>1 DEF Receive
  <2>3. due \in 1 .. Sent /\ pending[due] > 0 BY <1>3, <1>5
  <2> HIDE DEF due
  <2>4. due > Sent - MaxSkew
    <3>1. ~ (due <= Sent - MaxSkew) BY <1>10, <2>3
    <3> QED BY <1>4, <2>3, <3>1, LinkFacts
  <2>5. \A r \in due .. Sent : pending[r] = NbPackets
    BY <1>13, <2>3 DEF LinkInv
  <2>6. /\ Len(first) \in Nat /\ Len(first') = Len(first) + 1
        /\ first'[Len(first')] = due
        /\ \A e \in 1 .. Len(first) : first'[e] = first[e]
    BY <1>4, <2>2, <2>3 DEF TypeOK
  <2>7. \A i \in 1 .. Len(to_decode) : to_decode[i].epoch \in 1 .. Len(first)
    BY DEF IdInv
  <2>8. ~ LastInEpoch'
    <3>1. Len(to_decode) \in Nat /\ (to_decode = <<>> <=> Len(to_decode) = 0)
      BY <1>4, LogTypes
    <3>2. to_decode # <<>> => to_decode[Len(to_decode)].epoch \in 1 .. Len(first)
      BY <2>7, <3>1
    <3> QED BY <1>9, <2>6, <3>2 DEF LastInEpoch
  <2>9. DueBlock' = due
    BY <2>6, <2>8 DEF DueBlock, LastInEpoch
  <2>10. InOrderWithoutHole'
    <3>1. InOrderWithoutHole BY <1>13 DEF SlotInv
    <3> QED BY <1>9, <1>13, <2>6, <2>7, <3>1 DEF InOrderWithoutHole, Sources
  <2>11. ASSUME NEW k \in Window
         PROVE  Holds(link, Push(batch, empty, ignore)[IdOf(due + k)], due + k)
    <3>1. k \in BlockId /\ k \in 0 .. WindowWidth - 1
      BY LinkFacts DEF Window, BlockId
    <3>2. IdOf(due + k) = WrappingAdd(IdOf(due), k)
      BY <2>3, <3>1, IdOfAhead
    <3>3. due + k \in Nat \ {0} /\ IdOf(due) \in BlockId
      BY <2>3, <3>1, IdOfType
    <3>4. IdOf(due + k) \in BlockId BY <3>3, IdOfType
    <3>5. ~ ignore[IdOf(due + k)]
      BY <2>2, <3>1, <3>2, <3>4 DEF OpenWindow
    <3>6. empty[IdOf(due + k)] = {} BY <3>4
    <3>7. Holds(pending, {}, due + k)
      <4>1. CASE due + k > Sent BY <4>1 DEF Holds, Sent
      <4>2. CASE ~ (due + k > Sent)
        <5>1. due + k \in due .. Sent /\ due + k > Sent - MaxSkew
          BY <1>4, <2>3, <2>4, <3>1, <3>3, <4>2, LinkFacts
        <5>2. pending[due + k] = NbPackets BY <2>5, <5>1
        <5>3. Arrived(pending, due + k) = {}
          BY <5>2, LinkFacts DEF Arrived
        <5> QED BY <4>2, <5>1, <5>3 DEF Holds, Sent
      <4> QED BY <4>1, <4>2
    <3> HIDE DEF empty
    <3>8. due \in 1 .. Sent + 1 BY <1>4, <2>3
    <3> QED BY <1>2, <1>3, <1>4, <1>7, <1>10, <2>4, <3>5, <3>6, <3>7, <3>8,
               PushHolds
  <2>12. due \in 1 .. Sent + 1 BY <1>4, <2>3
  <2>13. due + WindowWidth .. Sent = {}
    BY <1>4, <2>4, <2>12, WindowReachesEnd
  <2> HIDE DEF empty
  <2>14. /\ DueBlock' \in 1 .. Sent' + 1 /\ cur_id' = IdOf(DueBlock')
         /\ \A s \in DueBlock' + WindowWidth .. Sent' : pending'[s] = NbPackets
    BY <1>8, <2>2, <2>9, <2>12, <2>13
  <2>15. \A k \in Window :
           Holds(pending', blocks_data'[IdOf(DueBlock' + k)], DueBlock' + k)
    BY <1>6, <2>2, <2>9, <2>11
  <2> QED BY <1>11, <2>8, <2>10, <2>14, <2>15 DEF SlotInv
<1>14. CASE ~ lossy /\ ~ reset
  <2> DEFINE due == DueBlock
  <2>1. /\ blocks_data' = Push(batch, blocks_data, blocks_ignore)
        /\ UNCHANGED <<first, cur_id>>
    BY <1>2, <1>14 DEF Receive
  <2>2. /\ due \in 1 .. Sent + 1 /\ cur_id = IdOf(due)
        /\ \A k \in Window : Holds(pending, blocks_data[IdOf(due + k)], due + k)
    BY <1>14 DEF SlotInv
  <2>3. due > Sent - MaxSkew BY <1>4, <1>9, <1>14, DueIsRecent
  <2>4. DueBlock' = due BY <1>9, <2>1, DueUnchanged
  <2> HIDE DEF due
  <2>5. ASSUME NEW k \in Window
        PROVE  Holds(link, Push(batch, blocks_data, blocks_ignore)[IdOf(due + k)],
                     due + k)
    <3>1. k \in BlockId /\ k < WindowWidth /\ cur_id \in BlockId
      BY <1>4, LinkFacts DEF Window, BlockId, TypeOK
    <3>2. IdOf(due + k) = WrappingAdd(cur_id, k)
      BY <1>4, <2>2, <3>1, IdOfAhead
    <3>3. IdOf(due + k) \in BlockId BY <3>1, <3>2, WrapFact
    <3>4. Ahead(IdOf(due + k)) = k
      <4>1. Ahead(IdOf(due + k)) = Distance(cur_id, IdOf(due + k))
        BY DEF Ahead, Distance
      <4> QED BY <3>1, <3>2, <4>1, DistanceOfWrap
    <3>5. ~ blocks_ignore[IdOf(due + k)]
      <4>1. first # <<>> BY <1>14 DEF IInv, BeforeFirst
      <4>2. ~ (Ahead(IdOf(due + k)) >= WindowWidth)
        BY <3>1, <3>4, LinkFacts DEF BlockId
      <4> QED BY <3>3, <4>1, <4>2 DEF IInv, WindowFollowsCurrent
    <3> QED BY <1>2, <1>3, <1>4, <1>7, <1>10, <2>2, <2>3, <3>5, PushHolds
  <2>6. due + WindowWidth .. Sent = {}
    BY <1>4, <2>2, <2>3, WindowReachesEnd
  <2>7. /\ InOrderWithoutHole'
        /\ LastInEpoch' => \E s \in Nat \ {0} : Sources(Len(to_decode))' = {s}
    BY <1>9, <1>14, <2>1, DueUnchanged DEF SlotInv
  <2>8. /\ DueBlock' \in 1 .. Sent' + 1 /\ cur_id' = IdOf(DueBlock')
        /\ \A s \in DueBlock' + WindowWidth .. Sent' : pending'[s] = NbPackets
    BY <1>8, <2>1, <2>2, <2>4, <2>6
  <2>9. \A k \in Window :
          Holds(pending', blocks_data'[IdOf(DueBlock' + k)], DueBlock' + k)
    BY <1>6, <2>1, <2>4, <2>5
  <2> QED BY <1>11, <2>7, <2>8, <2>9 DEF SlotInv
<1> QED BY <1>11, <1>12, <1>13, <1>14
LEMMA LinkReassemble ==
  ASSUME IInv, IdInv, LinkInv, SlotInv, Reassemble
  PROVE  LinkInv' /\ SlotInv'
<1> DEFINE slot == blocks_data[cur_id]
<1> DEFINE block == Block(cur_id, slot)
<1> DEFINE opposite == WrappingAdd(cur_id, WindowWidth)
<1>0. PICK n : n = Len(to_decode) OBVIOUS
<1>1. /\ opposite \in BlockId /\ blocks_data[opposite] = {}
      /\ opposite # cur_id
      /\ blocks_data' = [blocks_data EXCEPT ![cur_id] = {}]
      /\ to_decode' = Append(to_decode, block)
      /\ cur_id' = WrappingAdd(cur_id, 1) /\ first # <<>>
      /\ UNCHANGED <<first, pending, lossy, reset>>
  BY ReassembleEffect
<1>2. /\ TypeOK /\ Sent \in Nat /\ n \in Nat /\ cur_id \in BlockId
      /\ CurrentIsComplete /\ slot # {}
  BY <1>0, PendingType, LogTypes, CompleteIsNotEmpty
     DEF IInv, TypeOK, Reassemble
<1>3. ~ reset BY ReassembleEffect
<1>4. LinkInv' BY <1>1, <1>3 DEF LinkInv, Sent
<1>5. SlotInv'
  <2> SUFFICES ASSUME ~ lossy PROVE SlotInv'
    BY <1>1 DEF SlotInv
  <2> DEFINE due == DueBlock
  <2>1. /\ InOrderWithoutHole
        /\ LastInEpoch => \E s \in Nat \ {0} : Sources(n) = {s}
        /\ due \in 1 .. Sent + 1
        /\ cur_id = IdOf(due)
        /\ \A k \in Window : Holds(pending, blocks_data[IdOf(due + k)], due + k)
        /\ \A s \in due + WindowWidth .. Sent : pending[s] = NbPackets
    BY <1>0, <1>3 DEF SlotInv
  <2>2. LastInEpoch => Sources(n) = {due - 1}
    <3> SUFFICES ASSUME LastInEpoch PROVE Sources(n) = {due - 1}
      OBVIOUS
    <3>1. PICK s \in Nat \ {0} : Sources(n) = {s} BY <2>1
    <3>2. due = 1 + CHOOSE r \in Sources(n) : TRUE
      BY <1>0 DEF DueBlock, LastInEpoch
    <3> QED BY <3>1, <3>2
  <2>3. ~ LastInEpoch => due = first[Len(first)] BY DEF DueBlock, LastInEpoch
  <2> HIDE DEF due
  <2>4. due \in Nat \ {0} /\ due + 0 = due BY <1>2, <2>1
  <2>5. Holds(pending, slot, due) BY <2>1, <2>4, LinkFacts
  <2>6. due <= Sent /\ \A p \in slot : p.block = due
    BY <1>2, <2>4, <2>5 DEF Holds, Sent, Arrived
  <2>7. /\ block.epoch = Len(first) /\ block.packets = slot
        /\ {p.block : p \in slot} = {due}
    BY <1>2, <2>6 DEF Block
  <2> HIDE DEF block, slot
  <2>8. /\ Len(to_decode') = n + 1 /\ to_decode'[n + 1] = block
        /\ \A i \in 1 .. n : to_decode'[i] = to_decode[i]
    BY <1>0, <1>1, <1>2 DEF TypeOK
  <2>9. /\ Sources(n + 1)' = {due}
        /\ \A i \in 1 .. n : Sources(i)' = Sources(i)
        /\ Sources(Len(to_decode))' = {due}
    <3>1. to_decode'[n + 1].packets = slot BY <2>7, <2>8
    <3>2. {p.block : p \in to_decode'[n + 1].packets} = {due} BY <2>7, <3>1
    <3> QED BY <2>8, <3>2 DEF Sources
  <2>10. LastInEpoch' BY <1>1, <1>2, <2>7, <2>8 DEF LastInEpoch
  <2>11. DueBlock' = due + 1
    <3>1. DueBlock' = 1 + CHOOSE s \in Sources(Len(to_decode))' : TRUE
      BY <2>10 DEF DueBlock, LastInEpoch
    <3> QED BY <2>4, <2>9, <3>1
  <2>12. InOrderWithoutHole'
    <3> SUFFICES ASSUME NEW i \in 1 .. n + 1
                 PROVE  IF i = 1 \/ to_decode'[i].epoch # to_decode'[i - 1].epoch
                        THEN Sources(i)' = {first[to_decode'[i].epoch]}
                        ELSE Sources(i)' = {s + 1 : s \in Sources(i - 1)'}
      BY <1>1, <2>8 DEF InOrderWithoutHole
    <3>1. CASE i \in 1 .. n
      <4>1. i = 1 \/ i - 1 \in 1 .. n BY <1>2, <3>1
      <4>2. IF i = 1 \/ to_decode[i].epoch # to_decode[i - 1].epoch
            THEN Sources(i) = {first[to_decode[i].epoch]}
            ELSE Sources(i) = {s + 1 : s \in Sources(i - 1)}
        BY <1>0, <2>1, <3>1 DEF InOrderWithoutHole
      <4> QED BY <2>8, <2>9, <3>1, <4>1, <4>2
    <3>2. CASE i = n + 1
      <4>1. i = 1 <=> to_decode = <<>> BY <1>0, <1>2, <3>2, LogTypes
      <4>2. i # 1 => i - 1 = n /\ n \in 1 .. n BY <1>2, <3>2
      <4>3. LastInEpoch <=> ~ (i = 1 \/ block.epoch # to_decode'[i - 1].epoch)
        BY <1>0, <2>7, <2>8, <4>1, <4>2 DEF LastInEpoch
      <4>4. CASE LastInEpoch
        <5>1. Sources(i - 1)' = {due - 1}
          BY <2>2, <2>9, <4>2, <4>3, <4>4
        <5>2. {s + 1 : s \in Sources(i - 1)'} = {due} BY <2>4, <5>1
        <5> QED BY <2>8, <2>9, <3>2, <4>3, <4>4, <5>2
      <4>5. CASE ~ LastInEpoch
        BY <2>3, <2>7, <2>8, <2>9, <3>2, <4>3, <4>5
      <4> QED BY <4>4, <4>5
    <3> QED BY <1>2, <3>1, <3>2
  <2>13. cur_id' = IdOf(due + 1)
    <3>1. 1 \in BlockId BY LinkFacts DEF BlockId
    <3> QED BY <1>1, <2>1, <2>4, <3>1, IdOfAhead
  <2>14. ASSUME NEW k \in Window
         PROVE  Holds(pending, blocks_data'[IdOf(due + 1 + k)], due + 1 + k)
    <3>1. k \in 0 .. WindowWidth - 1 BY DEF Window
    <3>2. CASE k < WindowWidth - 1
      <4>1. k + 1 \in Window /\ due + 1 + k = due + (k + 1)
        BY <2>4, <3>1, <3>2, LinkFacts DEF Window
      <4>2. IdOf(due + (k + 1)) \in BlockId /\ IdOf(due + (k + 1)) # cur_id
        <5> DEFINE s == due + (k + 1)
        <5>1. /\ s \in Nat \ {0} /\ s # due
              /\ s - due < IdCount /\ due - s < IdCount
          BY <2>4, <3>1, LinkFacts
        <5> SUFFICES IdOf(s) \in BlockId /\ IdOf(s) # cur_id OBVIOUS
        <5> HIDE DEF s
        <5>2. IdOf(s) # IdOf(due) BY <2>4, <5>1, IdOfInjective
        <5> QED BY <2>1, <5>1, <5>2, IdOfType
      <4>3. blocks_data'[IdOf(due + (k + 1))] = blocks_data[IdOf(due + (k + 1))]
        BY <1>1, <1>2, <4>2 DEF TypeOK
      <4> QED BY <2>1, <4>1, <4>3
    <3>3. CASE k = WindowWidth - 1
      <4>1. due + 1 + k = due + WindowWidth /\ WindowWidth \in BlockId
        BY <2>4, <3>3, LinkFacts DEF BlockId
      <4>2. IdOf(due + WindowWidth) = opposite
        BY <2>1, <2>4, <4>1, IdOfAhead
      <4>3. blocks_data'[IdOf(due + WindowWidth)] = {}
        BY <1>1, <1>2, <4>2 DEF TypeOK
      <4>4. Holds(pending, {}, due + WindowWidth)
        <5>1. CASE due + WindowWidth > Sent BY <5>1 DEF Holds, Sent
        <5>2. CASE ~ (due + WindowWidth > Sent)
          <6>1. /\ due + WindowWidth \in 1 .. Sent
                /\ due + WindowWidth \in due + WindowWidth .. Sent
            BY <1>2, <2>4, <5>2, LinkFacts
          <6>2. pending[due + WindowWidth] = NbPackets BY <2>1, <6>1
          <6>3. due + WindowWidth > Sent - MaxSkew
            <7>1. ~ (due + WindowWidth <= Sent - MaxSkew)
              BY <6>1, <6>2, LinkFacts DEF LinkInv
            <7> QED BY <1>2, <2>4, <7>1, LinkFacts
          <6>4. Arrived(pending, due + WindowWidth) = {}
            BY <6>2, LinkFacts DEF Arrived
          <6> QED BY <5>2, <6>3, <6>4 DEF Holds, Sent
        <5> QED BY <5>1, <5>2
      <4> QED BY <4>1, <4>3, <4>4
    <3> QED BY <3>1, <3>2, <3>3, LinkFacts
  <2>15. \A s \in due + 1 + WindowWidth .. Sent : pending[s] = NbPackets
    <3> SUFFICES ASSUME NEW s \in due + 1 + WindowWidth .. Sent
                 PROVE  s \in due + WindowWidth .. Sent
      BY <2>1
    <3> QED BY <1>2, <2>4, LinkFacts
  <2>16. due + 1 \in 1 .. Sent + 1 BY <1>2, <2>4, <2>6
  <2>17. Sent' = Sent /\ pending' = pending /\ reset' = reset BY <1>1 DEF Sent
  <2>18. \E s \in Nat \ {0} : Sources(Len(to_decode))' = {s}
    BY <2>4, <2>9
  <2> QED BY <2>11, <2>12, <2>13, <2>14, <2>15, <2>16, <2>17, <2>18
          DEF SlotInv
<1> QED BY <1>4, <1>5

LEMMA LinkStep ==
  ASSUME MaxSkew <= WindowWidth,
         IInv, IdInv, LinkInv, SlotInv, [Next]_vars
  PROVE  LinkInv' /\ SlotInv'
<1>1. CASE SendBlock BY <1>1, LinkSendBlock
<1>2. CASE Timeout BY <1>2, LinkTimeout
<1>3. CASE ReceiveSome BY <1>3, LinkReceive
<1>4. CASE Reassemble BY <1>4, LinkReassemble
<1>5. CASE UNCHANGED vars
  <2>1. /\ UNCHANGED <<pending, lossy, blocks_data, cur_id, reset, to_decode,
                       first>>
        /\ Sent' = Sent
    BY <1>5 DEF vars, linkVars, reblockVars, Sent
  <2>2. LinkInv' BY <2>1 DEF LinkInv
  <2>3. SlotInv' BY <2>1, DueUnchanged DEF SlotInv
  <2> QED BY <2>2, <2>3
<1> QED BY <1>1, <1>2, <1>3, <1>4, <1>5 DEF Next

THEOREM LinkCorrect ==
  ASSUME MaxSkew <= WindowWidth
  PROVE  Spec => [](IInv /\ IdInv /\ LinkInv /\ SlotInv)
<1> DEFINE I == IInv /\ IdInv /\ LinkInv /\ SlotInv
<1>1. Init => I BY InvInit, IdInit, LinkInit
<1>2. I /\ [Next]_vars => I' BY InvStep, IdStep, LinkStep
<1> HIDE DEF I
<1>3. Spec => []I BY <1>1, <1>2, PTL DEF Spec
<1> QED BY <1>3 DEF I

(* On a link that loses no more than the repair packets and reorders no    *)
(* more than the window, the blocks handed over between two restarts are   *)
(* those of the sender, in order and without a hole (receive/reblock.rs,   *)
(* the sliding window).                                                    *)
THEOREM InOrderWithoutHoleCorrect ==
  ASSUME MaxSkew <= WindowWidth
  PROVE  Spec => []InOrderWithoutHole
<1>1. SlotInv => InOrderWithoutHole BY DEF SlotInv, InOrderWithoutHole
<1> QED BY <1>1, LinkCorrect, PTL

(* On such a link the worker waits for a datagram only when the block that *)
(* is due is one of the last MaxSkew.                                      *)
THEOREM KeepsUpCorrect ==
  ASSUME MaxSkew <= WindowWidth
  PROVE  Spec => []KeepsUp
<1>1. IInv /\ SlotInv => KeepsUp BY DueIsRecent DEF IInv, KeepsUp
<1> QED BY <1>1, LinkCorrect, PTL
-----------------------------------------------------------------------------
(* The decoding workers.                                                   *)
-----------------------------------------------------------------------------
DecoderCount == Cardinality(Decoders)

Busy == {d \in Decoders : decoding[d] # None}

(* How many blocks the decoders have passed on.                            *)
Done == Len(to_dispatch) - decode_faults

(* Each failure put one None into to_dispatch, and there is a first one.   *)
FaultInv ==
  /\ BlocksUpTo(Len(to_dispatch)) = Done
  /\ decode_faults > 0 =>
       \E k \in 1 .. Len(to_dispatch) :
         /\ to_dispatch[k] = None
         /\ \A j \in 1 .. k - 1 : to_dispatch[j] # None

(* block_to_dispatch is the number of the block that is next to go out,    *)
(* cur_id that of the next one to come in.                                 *)
TurnInv ==
  /\ \A i \in Done + 1 .. Len(to_decode) :
       to_decode[i].id = (block_to_dispatch + (i - (Done + 1))) % IdCount
  /\ cur_id = (block_to_dispatch + (Len(to_decode) - Done)) % IdCount

(* What was taken and not passed on is held at position pos[d] by a worker *)
(* d, or lost.                                                             *)
HeldInv(pos, lost) ==
  /\ lost \subseteq Done + 1 .. taken
  /\ Cardinality(lost) = decode_faults
  /\ \A d \in Busy : /\ pos[d] \in Done + 1 .. taken
                     /\ pos[d] \notin lost
                     /\ decoding[d] = to_decode[pos[d]]
  /\ \A d, c \in Busy : pos[d] = pos[c] => d = c
  /\ \A n \in Done + 1 .. taken : n \in lost \/ \E d \in Busy : pos[d] = n

DispatchedInv ==
  /\ Done <= taken
  /\ \A i \in 1 .. Len(to_dispatch) : to_dispatch[i] # None =>
       /\ BlocksUpTo(i) <= Done
       /\ to_dispatch[i] = to_decode[BlocksUpTo(i)]

(* Nothing is left of the blocks that came before a reset.                 *)
NothingLeft == reset /\ decode_faults = 0 => Done = Len(to_decode)

OrderInv ==
  InSequence =>
    /\ TurnInv
    /\ DispatchedInv
    /\ NothingLeft
    /\ \E lost \in SUBSET Nat : \E pos \in [Decoders -> Nat] :
         HeldInv(pos, lost)

TypeInv ==
  /\ IInv
  /\ IdInv
  /\ DecodeTypeOK
  /\ FaultInv
-----------------------------------------------------------------------------
(* Facts about the constants and the types of the counters.                *)
LEMMA DecodeFacts ==
  ASSUME DecodeTypeOK
  PROVE  /\ IsFiniteSet(Decoders) /\ DecoderCount \in 1 .. IdCount - 1
         /\ IdCount \in Nat /\ IdCount > 3
         /\ None \notin Reassembled
         /\ Len(to_decode) \in Nat /\ Len(to_dispatch) \in Nat
         /\ Len(first) \in Nat
         /\ taken \in 0 .. Len(to_decode)
         /\ decode_faults \in Nat /\ Done \in Int
         /\ block_to_dispatch \in BlockId /\ cur_id \in BlockId
         /\ \A i \in 1 .. Len(to_decode) :
              to_decode[i] \in Reassembled /\ to_decode[i] # None
<1>1. MaxDecodeFaults \in Nat BY DecodersAssumption
<1>2. /\ Len(to_decode) \in Nat /\ Len(first) \in Nat
  BY LogTypes DEF DecodeTypeOK
<1>3. Len(to_dispatch) \in Nat BY DEF DecodeTypeOK
<1>4. decode_faults \in Nat BY <1>1 DEF DecodeTypeOK
<1>5. \A i \in 1 .. Len(to_decode) : to_decode[i] \in Reassembled
  BY DEF DecodeTypeOK, TypeOK
<1>6. /\ taken \in 0 .. Len(to_decode)
      /\ block_to_dispatch \in BlockId /\ cur_id \in BlockId
  BY DEF DecodeTypeOK, TypeOK
<1> QED BY <1>2, <1>3, <1>4, <1>5, <1>6, DecodersAssumption, NoneAssumption,
           IdCountAssumption DEF DecoderCount, Done

(* Counting the blocks in a log to which a message is added.               *)
LEMMA CountAppend ==
  ASSUME NEW message, to_dispatch \in Seq(Reassembled \cup {None}),
         message \in Reassembled \cup {None},
         to_dispatch' = Append(to_dispatch, message),
         NEW n, n = Len(to_dispatch)
  PROVE  /\ Len(to_dispatch') = n + 1 /\ to_dispatch'[n + 1] = message
         /\ \A i \in 1 .. n : to_dispatch'[i] = to_dispatch[i]
         /\ \A i \in 0 .. n :
              BlocksUpTo(i)' = BlocksUpTo(i) /\ BlocksUpTo(i) \in Nat
         /\ BlocksUpTo(n + 1)'
              = BlocksUpTo(n) + (IF message = None THEN 0 ELSE 1)
<1>1. /\ n \in Nat /\ Len(to_dispatch') = n + 1
      /\ to_dispatch'[n + 1] = message
      /\ \A i \in 1 .. n : to_dispatch'[i] = to_dispatch[i]
  OBVIOUS
<1> DEFINE S(i) == {j \in 1 .. i : to_dispatch[j] # None}
<1> DEFINE T(i) == {j \in 1 .. i : to_dispatch'[j] # None}
<1>2. \A i \in 0 .. n : IsFiniteSet(S(i)) /\ Cardinality(S(i)) \in Nat
  <2> SUFFICES ASSUME NEW i \in 0 .. n
               PROVE  IsFiniteSet(S(i)) /\ Cardinality(S(i)) \in Nat
    OBVIOUS
  <2>1. IsFiniteSet(1 .. i) BY <1>1, FS_Interval
  <2>2. S(i) \in SUBSET (1 .. i) OBVIOUS
  <2>3. IsFiniteSet(S(i)) BY <2>1, <2>2, FS_Subset
  <2> QED BY <2>3, FS_CardinalityType
<1>3. \A i \in 0 .. n : T(i) = S(i)
  <2> SUFFICES ASSUME NEW i \in 0 .. n PROVE T(i) = S(i) OBVIOUS
  <2>1. \A j \in 1 .. i : to_dispatch'[j] = to_dispatch[j] BY <1>1
  <2> QED BY <2>1
<1>4. n \in 0 .. n /\ n + 1 \notin S(n) BY <1>1
<1>5. T(n + 1) = IF message = None THEN S(n) ELSE S(n) \cup {n + 1}
  <2>1. 1 .. n + 1 = (1 .. n) \cup {n + 1} BY <1>1
  <2>2. T(n + 1) = T(n) \cup {j \in {n + 1} : to_dispatch'[j] # None}
    BY <2>1
  <2>3. {j \in {n + 1} : to_dispatch'[j] # None}
          = IF message = None THEN {} ELSE {n + 1}
    BY <1>1
  <2> QED BY <1>3, <1>4, <2>2, <2>3
<1>6. Cardinality(T(n + 1))
        = Cardinality(S(n)) + (IF message = None THEN 0 ELSE 1)
  <2> DEFINE U == S(n)
  <2>1. IsFiniteSet(U) /\ Cardinality(U) \in Nat /\ n + 1 \notin U BY <1>2, <1>4
  <2>2. T(n + 1) = IF message = None THEN U ELSE U \cup {n + 1} BY <1>5
  <2> HIDE DEF U
  <2>3. Cardinality(U \cup {n + 1}) = Cardinality(U) + 1
    BY <2>1, FS_AddElement
  <2>4. Cardinality(T(n + 1))
          = Cardinality(U) + (IF message = None THEN 0 ELSE 1)
    <3> HIDE DEF T
    <3>1. CASE message = None BY <2>1, <2>2, <3>1
    <3>2. CASE message # None BY <2>1, <2>2, <2>3, <3>2
    <3> QED BY <3>1, <3>2
  <2> QED BY <2>4 DEF U
<1>7. \A i : BlocksUpTo(i) = Cardinality(S(i)) /\ BlocksUpTo(i)' = Cardinality(T(i))
  BY DEF BlocksUpTo
<1>8. \A i \in 0 .. n : BlocksUpTo(i)' = BlocksUpTo(i) /\ BlocksUpTo(i) \in Nat
  BY <1>2, <1>3, <1>7
<1>9. BlocksUpTo(n + 1)'
        = BlocksUpTo(n) + (IF message = None THEN 0 ELSE 1)
  BY <1>6, <1>7
<1> HIDE DEF S, T
<1> QED BY <1>1, <1>8, <1>9

(* The steps of the decoders leave the reblock worker alone, except for    *)
(* the counter.                                                            *)
LEMMA DecoderEffect ==
  ASSUME DecodeTypeOK, NEW d \in Decoders, DecodeStep(d)
  PROVE  /\ UNCHANGED <<pending, lossy, blocks_data, blocks_ignore, cur_id,
                        reset, to_decode, first>>
         /\ block_to_dispatch' \in BlockId
<1>1. WrappingAdd(block_to_dispatch, 1) \in BlockId
  <2>1. 1 \in BlockId BY DecodeFacts DEF BlockId
  <2> QED BY <2>1, WrapFact, DecodeFacts
<1> QED BY <1>1, DecodeFacts DEF DecodeStep, DecodeRecv, DecodeFail, DecodeSend,
                                 PassOn, restOfReblock
-----------------------------------------------------------------------------
(* The log of the decoders' input only grows.                              *)
LEMMA HandedOverGrows ==
  ASSUME IInv, [Next]_vars
  PROVE  \/ UNCHANGED to_decode
         \/ /\ Len(to_decode') = Len(to_decode) + 1
            /\ \A i \in 1 .. Len(to_decode) : to_decode'[i] = to_decode[i]
<1>1. CASE Reassemble
  <2> DEFINE block == Block(cur_id, blocks_data[cur_id])
  <2>1. to_decode' = Append(to_decode, block) BY <1>1, ReassembleEffect
  <2> HIDE DEF block
  <2>2. to_decode \in Seq(Reassembled) BY DEF IInv, TypeOK
  <2> QED BY <2>1, <2>2
<1>2. CASE ~ Reassemble
  BY <1>2, TimeoutEffect DEF Next, SendBlock, ReceiveSome, Receive, vars,
                             reblockVars
<1> QED BY <1>1, <1>2

LEMMA TypeInit == DecodeInit => TypeInv
<1> SUFFICES ASSUME DecodeInit PROVE TypeInv OBVIOUS
<1>1. Init /\ IInv /\ IdInv BY InvInit, IdInit DEF DecodeInit
<1>2. to_decode = <<>> BY <1>1 DEF Init
<1>3. DecodeTypeOK
  BY <1>1, <1>2, DecodersAssumption DEF DecodeInit, DecodeTypeOK, IInv
<1>4. FaultInv
  <2>1. BlocksUpTo(0) = 0 BY FS_EmptySet DEF BlocksUpTo
  <2> QED BY <2>1 DEF DecodeInit, FaultInv, Done
<1> QED BY <1>1, <1>3, <1>4 DEF TypeInv

(* Without a failure the log has no None.                                  *)
LEMMA NoFaultNoNone ==
  ASSUME FaultInv, DecodeTypeOK, decode_faults = 0
  PROVE  \A j \in 1 .. Len(to_dispatch) : to_dispatch[j] # None
<1>0. PICK n : n = Len(to_dispatch) OBVIOUS
<1> DEFINE S == {j \in 1 .. n : to_dispatch[j] # None}
<1>1. n \in Nat BY <1>0, DecodeFacts
<1>2. S \in SUBSET (1 .. n) OBVIOUS
<1>3. IsFiniteSet(1 .. n) /\ Cardinality(1 .. n) = n BY <1>1, FS_Interval
<1>4. Cardinality(S) = n
  <2>1. BlocksUpTo(n) = n - decode_faults BY <1>0 DEF FaultInv, Done
  <2> QED BY <1>1, <2>1 DEF BlocksUpTo
<1> HIDE DEF S
<1>5. S = 1 .. n BY <1>2, <1>3, <1>4, FS_Subset
<1> QED BY <1>0, <1>5 DEF S

(* A message is added to the log of what was decoded.                      *)
LEMMA FaultAppend ==
  ASSUME FaultInv, DecodeTypeOK,
         NEW message \in Reassembled \cup {None},
         to_dispatch' = Append(to_dispatch, message),
         decode_faults' = IF message = None THEN decode_faults + 1
                                            ELSE decode_faults
  PROVE  FaultInv'
<1>0. PICK n : n = Len(to_dispatch) OBVIOUS
<1>1. n \in Nat /\ decode_faults \in Nat BY <1>0, DecodeFacts
<1>2. to_dispatch \in Seq(Reassembled \cup {None}) BY DEF DecodeTypeOK
<1>3. /\ Len(to_dispatch') = n + 1 /\ to_dispatch'[n + 1] = message
      /\ \A i \in 1 .. n : to_dispatch'[i] = to_dispatch[i]
      /\ BlocksUpTo(n + 1)'
           = BlocksUpTo(n) + (IF message = None THEN 0 ELSE 1)
  BY <1>0, <1>2, CountAppend
<1>4. BlocksUpTo(n) = n - decode_faults BY <1>0 DEF FaultInv, Done
<1>5. BlocksUpTo(n + 1)' = (n + 1) - decode_faults'
  BY <1>1, <1>3, <1>4
<1>6. BlocksUpTo(Len(to_dispatch))' = Done'
  <2>1. BlocksUpTo(Len(to_dispatch))' = BlocksUpTo(n + 1)'
    BY <1>3 DEF BlocksUpTo
  <2> QED BY <1>3, <1>5, <2>1 DEF Done
<1>7. ASSUME decode_faults' > 0
      PROVE  \E k \in 1 .. n + 1 :
               /\ to_dispatch'[k] = None
               /\ \A j \in 1 .. k - 1 : to_dispatch'[j] # None
  <2>1. CASE decode_faults > 0
    <3>1. PICK k \in 1 .. n : /\ to_dispatch[k] = None
                              /\ \A j \in 1 .. k - 1 : to_dispatch[j] # None
      BY <1>0, <2>1 DEF FaultInv
    <3> QED BY SMTT(30), <1>1, <1>3, <3>1
  <2>2. CASE ~ (decode_faults > 0)
    <3>0. decode_faults = 0 BY <1>1, <2>2
    <3>1. message = None BY <1>7, <3>0
    <3>2. \A j \in 1 .. n : to_dispatch[j] # None
      BY <1>0, <3>0, NoFaultNoNone
    <3>3. \A j \in 1 .. (n + 1) - 1 : to_dispatch'[j] # None
      BY <1>1, <1>3, <3>2
    <3> QED BY <1>1, <1>3, <3>1, <3>3
  <2> QED BY <2>1, <2>2
<1> QED BY <1>3, <1>6, <1>7 DEF FaultInv

LEMMA TypeStep == TypeInv /\ [DecodeNext]_receiveVars => TypeInv'
<1> SUFFICES ASSUME TypeInv, [DecodeNext]_receiveVars PROVE TypeInv'
  OBVIOUS
<1> USE DEF TypeInv
<1>1. CASE ReblockStep \/ UNCHANGED receiveVars
  <2>1. [Next]_vars /\ UNCHANGED decodeVars
    BY <1>1 DEF ReblockStep, DecodeTimeout, Next, receiveVars, restOfReblock,
                vars, linkVars, reblockVars
  <2>2. IInv' /\ IdInv' BY <2>1, InvStep, IdStep
  <2>3. FaultInv' BY <2>1 DEF decodeVars, FaultInv, Done, BlocksUpTo
  <2>4. taken' \in 0 .. Len(to_decode')
    BY <2>1, HandedOverGrows, DecodeFacts DEF decodeVars
  <2>5. DecodeTypeOK' BY <2>1, <2>2, <2>4 DEF DecodeTypeOK, decodeVars, IInv
  <2> QED BY <2>2, <2>3, <2>5
<1>2. ASSUME NEW d \in Decoders, DecodeStep(d) PROVE TypeInv'
  <2>1. /\ UNCHANGED <<pending, lossy, blocks_data, blocks_ignore, cur_id,
                       reset, to_decode, first>>
        /\ block_to_dispatch' \in BlockId
    BY <1>2, DecoderEffect
  <2>2. TypeOK' BY <2>1 DEF DecodeTypeOK, TypeOK
  <2>3. IInv' /\ IdInv'
    BY <2>1, <2>2 DEF IInv, BeforeFirst, ResetIsQuiet, CurrentIsComplete,
                      WindowFollowsCurrent, Ahead, IgnoredSlotsAreEmpty,
                      NoErrorSent, IdInv, ConsecutiveIds, LastInEpoch
  <2>4. CASE DecodeRecv(d)
    <3>1. /\ taken < Len(to_decode) /\ taken' = taken + 1
          /\ decoding' = [decoding EXCEPT ![d] = to_decode[taken + 1]]
          /\ UNCHANGED <<to_dispatch, decode_faults, to_decode>>
      BY <2>4 DEF DecodeRecv, restOfReblock
    <3>2. taken' \in 0 .. Len(to_decode') /\ taken + 1 \in 1 .. Len(to_decode)
      BY <3>1, DecodeFacts
    <3>3. to_decode[taken + 1] \in Reassembled BY <3>2, DecodeFacts
    <3>4. DecodeTypeOK' BY <2>2, <3>1, <3>2, <3>3 DEF DecodeTypeOK
    <3>5. FaultInv' BY <3>1 DEF FaultInv, Done, BlocksUpTo
    <3> QED BY <2>3, <3>4, <3>5
  <2>5. CASE DecodeFail(d)
    <3>1. /\ decode_faults < MaxDecodeFaults
          /\ decode_faults' = decode_faults + 1
          /\ to_dispatch' = Append(to_dispatch, None)
          /\ decoding' = [decoding EXCEPT ![d] = None]
          /\ taken' = taken
      BY <2>5 DEF DecodeFail
    <3>2. decode_faults' \in 0 .. MaxDecodeFaults
      BY <3>1, DecodersAssumption DEF DecodeTypeOK
    <3>3. DecodeTypeOK' BY <2>1, <2>2, <3>1, <3>2 DEF DecodeTypeOK
    <3>4. FaultInv' BY <3>1, FaultAppend
    <3> QED BY <2>3, <3>3, <3>4
  <2>6. CASE DecodeSend(d)
    <3> DEFINE block == decoding[d]
    <3>1. /\ decoding[d] # None /\ decoding[d] \in Reassembled
          /\ to_dispatch' = Append(to_dispatch, decoding[d])
          /\ decoding' = [decoding EXCEPT ![d] = None]
          /\ UNCHANGED <<taken, decode_faults>>
      BY <2>6 DEF DecodeSend, PassOn, DecodeTypeOK
    <3>2. DecodeTypeOK' BY <2>1, <2>2, <3>1 DEF DecodeTypeOK
    <3>3. FaultInv' BY <3>1, FaultAppend
    <3> QED BY <2>3, <3>2, <3>3
  <2> QED BY <1>2, <2>4, <2>5, <2>6 DEF DecodeStep
<1> QED BY <1>1, <1>2 DEF DecodeNext

(* The decoders keep every variable in its type, whatever they do and      *)
(* however slow they are.                                                  *)
THEOREM DecodeTypeCorrect == DecodeSpec => []DecodeTypeOK
<1>1. TypeInv => DecodeTypeOK BY DEF TypeInv
<1> QED BY <1>1, TypeInit, TypeStep, PTL DEF DecodeSpec
-----------------------------------------------------------------------------
(* What was taken and not passed on is held or lost: less than a lap.      *)
LEMMA InFlightBound ==
  ASSUME DecodeTypeOK, InSequence, Done <= taken, Done \in Nat,
         NEW pos \in [Decoders -> Nat], NEW lost, HeldInv(pos, lost)
  PROVE  /\ IsFiniteSet(lost)
         /\ taken - Done <= IdCount
         /\ decode_faults = 0 => lost = {} /\ taken - Done < IdCount
<1> DEFINE S == Done + 1 .. taken
<1> DEFINE H == S \ lost
<1> DEFINE f == [n \in H |-> CHOOSE d \in Decoders : d \in Busy /\ pos[d] = n]
<1>0. /\ taken \in Nat /\ DecoderCount \in 1 .. IdCount - 1
      /\ IdCount \in Nat /\ decode_faults \in Nat /\ IsFiniteSet(Decoders)
  BY DecodeFacts
<1>1. IsFiniteSet(S) /\ Cardinality(S) = taken - Done
  <2>1. PICK a \in Int : a = Done + 1 OBVIOUS
  <2>2. /\ IsFiniteSet(a .. taken)
        /\ Cardinality(a .. taken) = IF a > taken THEN 0 ELSE taken - a + 1
    BY <1>0, FS_Interval
  <2> QED BY <1>0, <2>1, <2>2
<1>2. lost \in SUBSET S /\ Cardinality(lost) = decode_faults
  BY DEF HeldInv
<1>3. IsFiniteSet(lost) BY <1>1, <1>2, FS_Subset
<1>4. S \cap lost = lost BY <1>2
<1>5. Cardinality(H) = Cardinality(S) - decode_faults
  <2> HIDE DEF S
  <2>1. Cardinality(S \ lost) = Cardinality(S) - Cardinality(S \cap lost)
    BY <1>1, FS_Difference
  <2> QED BY <1>2, <1>4, <2>1
<1>6. \A n \in H : \E d \in Decoders : d \in Busy /\ pos[d] = n
  BY DEF HeldInv, Busy
<1>7. f \in Injection(H, Decoders)
  <2>1. \A n \in H : f[n] \in Decoders /\ pos[f[n]] = n BY <1>6
  <2>2. f \in [H -> Decoders] BY <2>1
  <2>3. \A a, b \in H : f[a] = f[b] => a = b BY <2>1
  <2> QED BY <2>2, <2>3 DEF Injection, IsInjective
<1> HIDE DEF H, S, f
<1>8. Cardinality(H) <= DecoderCount
  BY <1>0, <1>7, FS_Injection DEF DecoderCount
<1>9. taken - Done <= DecoderCount + decode_faults
  BY <1>0, <1>1, <1>5, <1>8
<1>10. CASE decode_faults = 0
  BY <1>0, <1>2, <1>3, <1>9, <1>10, FS_EmptySet
<1>11. CASE decode_faults # 0
  BY <1>0, <1>3, <1>9, <1>11 DEF InSequence, DecoderCount
<1> QED BY <1>10, <1>11

(* Done counts the blocks passed on.                                       *)
LEMMA DoneType ==
  ASSUME TypeInv
  PROVE  Done \in Nat
<1>1. DecodeTypeOK BY DEF TypeInv
<1>2. Len(to_dispatch) \in Nat BY <1>1, DecodeFacts
<1>3. PICK n : n = Len(to_dispatch) OBVIOUS
<1> DEFINE S == {j \in 1 .. n : to_dispatch[j] # None}
<1>4. IsFiniteSet(1 .. n) /\ S \in SUBSET (1 .. n) BY <1>2, <1>3, FS_Interval
<1>5. IsFiniteSet(S) BY <1>4, FS_Subset
<1>6. Cardinality(S) \in Nat BY <1>5, FS_CardinalityType
<1> QED BY <1>3, <1>6 DEF TypeInv, FaultInv, BlocksUpTo

(* Once a block waits a second lap, the blocks are out of sequence.        *)
LEMMA InSequenceBefore ==
  ASSUME TypeInv, TypeInv', [DecodeNext]_receiveVars, InSequence'
  PROVE  InSequence
<1>1. /\ decode_faults \in Nat /\ decode_faults' \in Nat
      /\ Len(first) \in Nat /\ Len(first') \in Nat
      /\ Cardinality(Decoders) \in Nat
  BY DecodeFacts DEF TypeInv, DecodeTypeOK, DecoderCount
<1>2. decode_faults' >= decode_faults
  BY <1>1 DEF DecodeNext, ReblockStep, DecodeStep, DecodeRecv, DecodeFail,
              DecodeSend, PassOn, decodeVars, receiveVars
<1>3. Len(first') >= Len(first)
  <2>1. CASE ReceiveSome /\ reset
    <3>1. PICK n \in 1 .. MaxBatch : \E b \in [1 .. n -> 1 .. Sent] : Receive(b)
      BY <2>1 DEF ReceiveSome
    <3>2. PICK batch \in [1 .. n -> 1 .. Sent] : Receive(batch) BY <3>1
    <3>3. batch[1] \in Nat \ {0}
      BY <3>1, LinkAssumption, PendingType DEF TypeInv, IInv
    <3>4. first' = Append(first, batch[1]) BY <2>1, <3>2 DEF Receive
    <3> QED BY <1>1, <3>3, <3>4 DEF TypeInv, IInv, TypeOK
  <2>2. CASE ~ (ReceiveSome /\ reset)
    <3>1. first' = first
      BY <2>2 DEF DecodeNext, ReblockStep, SendBlock, DecodeTimeout, Timeout,
                  ReceiveSome, Receive, Reassemble, DecodeStep, DecodeRecv,
                  DecodeFail, DecodeSend, PassOn, reblockVars, restOfReblock,
                  receiveVars
    <3> QED BY <1>1, <3>1
  <2> QED BY <2>1, <2>2
<1>4. IdCount \in Nat BY IdCountAssumption
<1> DEFINE size == Cardinality(Decoders)
<1>5. \/ decode_faults' = 0
      \/ Len(first') <= 1 /\ decode_faults' + size <= IdCount
  BY DEF InSequence
<1>6. size \in Nat BY <1>1
<1> HIDE DEF size
<1>7. \/ decode_faults = 0
      \/ Len(first) <= 1 /\ decode_faults + size <= IdCount
  <2> DEFINE l == Len(first)
  <2> DEFINE m == Len(first')
  <2> DEFINE a == decode_faults
  <2> DEFINE b == decode_faults'
  <2>1. /\ l \in Nat /\ m \in Nat /\ a \in Nat /\ b \in Nat
        /\ l <= m /\ a <= b
        /\ b = 0 \/ (m <= 1 /\ b + size <= IdCount)
    BY <1>1, <1>2, <1>3, <1>5
  <2> HIDE DEF l, m, a, b
  <2>2. a = 0 \/ (l <= 1 /\ a + size <= IdCount) BY <1>4, <1>6, <2>1
  <2> QED BY <2>2 DEF a, l
<1> QED BY <1>7 DEF InSequence, size

LEMMA IdModulo ==
  ASSUME NEW b \in BlockId
  PROVE  (b + 0) % IdCount = b
<1>1. IdCount \in Nat /\ IdCount > 0 /\ b \in 0 .. IdCount - 1 /\ b \in Nat
  BY IdCountAssumption DEF BlockId
<1>2. b = IdCount * 0 + b BY <1>1
<1>3. b % IdCount = b BY <1>1, <1>2, ModUnique
<1> QED BY <1>1, <1>3

(* The decoder that wait_while lets through holds the block that is next,  *)
(* not one a lap later with the same 8-bit number.                         *)
LEMMA OnlyNextGoesOut ==
  ASSUME TypeInv, InSequence, TurnInv, DispatchedInv,
         NEW pos \in [Decoders -> Nat], NEW lost, HeldInv(pos, lost),
         NEW d \in Busy, decoding[d].id = block_to_dispatch
  PROVE  /\ pos[d] = Done + 1 /\ Done + 1 <= taken
         /\ decoding[d] = to_decode[Done + 1]
<1> DEFINE b == block_to_dispatch
<1> DEFINE n == pos[d]
<1> DEFINE k == n - (Done + 1)
<1>1. /\ DecodeTypeOK /\ Done \in Nat /\ Done <= taken
      /\ taken \in 0 .. Len(to_decode) /\ Len(to_decode) \in Nat
      /\ b \in BlockId /\ IdCount \in Nat /\ IdCount > 3
  BY DecodeFacts, DoneType DEF TypeInv, DispatchedInv
<1>2. /\ n \in Done + 1 .. taken /\ decoding[d] = to_decode[n]
  BY DEF HeldInv
<1>3. /\ k \in Nat /\ n \in Done + 1 .. Len(to_decode) /\ n <= taken
  BY <1>1, <1>2
<1>4. b = (b + k) % IdCount BY <1>2, <1>3 DEF TurnInv
<1>5. taken - Done <= IdCount BY <1>1, InFlightBound
<1>6. k < IdCount BY <1>1, <1>3, <1>5
<1>7. b % IdCount = b
  <2>1. b + 0 = b BY <1>1 DEF BlockId
  <2> QED BY <1>1, <2>1, IdModulo
<1> DEFINE y == b + k
<1>8. /\ b \in Nat /\ y \in Nat /\ b <= y /\ y - b < IdCount
      /\ y = b => k = 0
  BY <1>1, <1>3, <1>6 DEF BlockId
<1>9. b % IdCount = y % IdCount BY <1>4, <1>7
<1> HIDE DEF y, b, k
<1>10. k = 0
  <2>1. IdCount > 0 BY <1>1
  <2>2. b = y BY <1>1, <1>8, <1>9, <2>1, ModInj
  <2> QED BY <1>8, <2>2
<1>11. n = Done + 1 BY <1>1, <1>3, <1>10 DEF k
<1> QED BY <1>1, <1>2, <1>3, <1>11

LEMMA OrderInit == DecodeInit => OrderInv
<1> SUFFICES ASSUME DecodeInit PROVE OrderInv OBVIOUS
<1>1. /\ to_decode = <<>> /\ to_dispatch = <<>> /\ taken = 0
      /\ decode_faults = 0 /\ Done = 0 /\ Len(to_decode) = 0
      /\ cur_id = 0 /\ block_to_dispatch = 0 /\ Busy = {}
  BY DEF DecodeInit, Init, Done, Busy
<1>2. TurnInv
  <2>1. 0 \in BlockId BY IdCountAssumption DEF BlockId
  <2>2. (0 + 0) % IdCount = 0 BY <2>1, IdModulo
  <2> QED BY <1>1, <2>2 DEF TurnInv
<1>3. DispatchedInv /\ NothingLeft BY <1>1 DEF DispatchedInv, NothingLeft
<1>4. HeldInv([d \in Decoders |-> 0], {})
  BY <1>1, FS_EmptySet DEF HeldInv
<1>5. [d \in Decoders |-> 0] \in [Decoders -> Nat] OBVIOUS
<1> QED BY <1>2, <1>3, <1>4, <1>5 DEF OrderInv

(* A step that moves no block and no counter.                              *)
LEMMA OrderUnchanged ==
  ASSUME OrderInv, InSequence, NothingLeft',
         UNCHANGED <<to_decode, cur_id, block_to_dispatch, decodeVars>>
  PROVE  OrderInv'
<1>1. /\ UNCHANGED <<taken, decoding, to_dispatch, decode_faults>>
      /\ Done' = Done /\ Busy' = Busy
      /\ \A i : BlocksUpTo(i)' = BlocksUpTo(i)
  BY DEF decodeVars, Done, Busy, BlocksUpTo
<1>2. TurnInv' BY <1>1 DEF OrderInv, TurnInv
<1>3. DispatchedInv' BY <1>1 DEF OrderInv, DispatchedInv
<1>4. PICK lost \in SUBSET Nat, pos \in [Decoders -> Nat] : HeldInv(pos, lost)
  BY DEF OrderInv
<1>5. HeldInv(pos, lost)' BY <1>1, <1>4 DEF HeldInv
<1> QED BY <1>2, <1>3, <1>4, <1>5 DEF OrderInv

(* As long as every block decodes, a decoder that holds a block holds the  *)
(* next one.                                                               *)
LEMMA NextIsHeld ==
  ASSUME TypeInv, OrderInv, decode_faults = 0, NEW c \in Busy
  PROVE  \E d \in Busy : decoding[d].id = block_to_dispatch
<1>1. /\ DecodeTypeOK /\ Done \in Nat
      /\ taken \in 0 .. Len(to_decode) /\ Len(to_decode) \in Nat
      /\ block_to_dispatch \in BlockId
  BY DecodeFacts, DoneType DEF TypeInv
<1>2. InSequence /\ TurnInv /\ DispatchedInv BY DEF InSequence, OrderInv
<1>3. PICK lost \in SUBSET Nat, pos \in [Decoders -> Nat] : HeldInv(pos, lost)
  BY <1>2 DEF OrderInv
<1>4. lost = {} BY <1>1, <1>2, <1>3, InFlightBound DEF DispatchedInv
<1>5. pos[c] \in Done + 1 .. taken BY <1>3 DEF HeldInv
<1>6. Done + 1 \in Done + 1 .. taken /\ Done + 1 \in Done + 1 .. Len(to_decode)
  BY <1>1, <1>5
<1>7. PICK d \in Busy : pos[d] = Done + 1 BY <1>3, <1>4, <1>6 DEF HeldInv
<1>8. decoding[d] = to_decode[Done + 1] BY <1>3, <1>7 DEF HeldInv
<1>9. to_decode[Done + 1].id
        = (block_to_dispatch + ((Done + 1) - (Done + 1))) % IdCount
  BY <1>2, <1>6 DEF TurnInv
<1>10. (Done + 1) - (Done + 1) = 0 BY <1>1
<1> QED BY <1>1, <1>7, <1>8, <1>9, <1>10, IdModulo

(* The decoders have done all they can when reset_timeout elapses.         *)
LEMMA TimeoutLeavesNothing ==
  ASSUME TypeInv, OrderInv, ~ SlowDecoders, DecodeTimeout, decode_faults = 0
  PROVE  Done = Len(to_decode)
<1>1. /\ DecodeTypeOK /\ Done \in Nat /\ InSequence /\ DispatchedInv
      /\ taken \in 0 .. Len(to_decode) /\ Len(to_decode) \in Nat
  BY DecodeFacts, DoneType DEF TypeInv, InSequence, OrderInv
<1>2. DecodersWait BY DEF DecodeTimeout
<1>3. Busy = {}
  <2> SUFFICES ASSUME NEW c \in Busy PROVE FALSE OBVIOUS
  <2>1. PICK d \in Busy : decoding[d].id = block_to_dispatch BY NextIsHeld
  <2> QED BY <1>2, <2>1 DEF DecodersWait, Busy
<1>4. PICK d : d \in Decoders
  <2>1. Cardinality(Decoders) # 0 BY DecodersAssumption
  <2> QED BY <2>1, FS_EmptySet
<1>5. taken = Len(to_decode) BY <1>2, <1>3, <1>4 DEF DecodersWait, Busy
<1>6. PICK lost \in SUBSET Nat, pos \in [Decoders -> Nat] : HeldInv(pos, lost)
  BY <1>1 DEF OrderInv
<1>7. lost = {} BY <1>1, <1>6, InFlightBound DEF DispatchedInv
<1>8. \A n \in Done + 1 .. taken : FALSE BY <1>3, <1>6, <1>7 DEF HeldInv
<1>9. ~ (Done + 1 \in Done + 1 .. taken) BY <1>8
<1> QED BY <1>1, <1>5, <1>9 DEF DispatchedInv

LEMMA OrderReceive ==
  ASSUME TypeInv, TypeInv', OrderInv, InSequence, InSequence',
         ReceiveSome, UNCHANGED decodeVars
  PROVE  OrderInv'
<1>1. PICK n \in 1 .. MaxBatch : \E b \in [1 .. n -> 1 .. Sent] : Receive(b)
  BY DEF ReceiveSome
<1>2. PICK batch \in [1 .. n -> 1 .. Sent] : Receive(batch) BY <1>1
<1>3. to_decode' = to_decode /\ reset' = FALSE BY <1>2 DEF Receive
<1>4. NothingLeft' BY <1>3 DEF NothingLeft
<1>5. CASE ~ reset
  <2>1. UNCHANGED <<cur_id, block_to_dispatch>> BY <1>2, <1>5 DEF Receive
  <2> QED BY <1>3, <1>4, <2>1, OrderUnchanged
<1>6. CASE reset
  <2>0. PICK id : id = IdOf(batch[1]) OBVIOUS
  <2>1. cur_id' = id /\ block_to_dispatch' = id
        /\ first' = Append(first, batch[1])
    BY <1>2, <1>6, <2>0 DEF Receive, DispatchFrom
  <2>2. /\ DecodeTypeOK /\ Done \in Nat /\ DispatchedInv
        /\ taken \in 0 .. Len(to_decode) /\ Len(to_decode) \in Nat
        /\ Len(first) \in Nat /\ decode_faults \in Nat
    BY DecodeFacts, DoneType DEF TypeInv, OrderInv
  <2>3. Done = Len(to_decode)
    <3>1. CASE decode_faults = 0 BY <1>6, <3>1 DEF OrderInv, NothingLeft
    <3>2. CASE decode_faults # 0
      <4>1. batch[1] \in Nat \ {0}
        BY <1>1, LinkAssumption, PendingType DEF TypeInv, IInv
      <4>2. Len(first') = Len(first) + 1
        BY <2>1, <4>1 DEF DecodeTypeOK, TypeInv, TypeOK
      <4>3. Len(first') <= 1
        BY <3>2 DEF InSequence, decodeVars
      <4>4. Len(first) = 0 BY <2>2, <4>2, <4>3
      <4>5. \A i \in 1 .. Len(to_decode) : FALSE
        BY <4>4 DEF TypeInv, IdInv
      <4>6. ~ (1 \in 1 .. Len(to_decode)) BY <4>5
      <4> QED BY <2>2, <4>6 DEF DispatchedInv
    <3> QED BY <3>1, <3>2
  <2>4. /\ UNCHANGED <<taken, decoding, to_dispatch, decode_faults>>
        /\ Done' = Done /\ Busy' = Busy
        /\ \A i : BlocksUpTo(i)' = BlocksUpTo(i)
    BY DEF decodeVars, Done, Busy, BlocksUpTo
  <2>5. TurnInv'
    <3>1. id \in BlockId BY <2>1, DecodeFacts DEF TypeInv, DecodeTypeOK, TypeOK
    <3>2. (id + 0) % IdCount = id BY <3>1, IdModulo
    <3>3. Done + 1 .. Len(to_decode) = {} /\ Len(to_decode) - Done = 0
      BY <2>2, <2>3
    <3> QED BY <1>3, <2>1, <2>4, <3>2, <3>3 DEF TurnInv
  <2>6. DispatchedInv' BY <1>3, <2>2, <2>4 DEF DispatchedInv
  <2>7. PICK lost \in SUBSET Nat, pos \in [Decoders -> Nat] : HeldInv(pos, lost)
    BY DEF OrderInv
  <2>8. HeldInv(pos, lost)' BY <1>3, <2>4, <2>7 DEF HeldInv
  <2> QED BY <1>4, <2>5, <2>6, <2>7, <2>8 DEF OrderInv
<1> QED BY <1>5, <1>6

LEMMA OrderReassemble ==
  ASSUME TypeInv, TypeInv', OrderInv, InSequence,
         Reassemble, UNCHANGED decodeVars
  PROVE  OrderInv'
<1> DEFINE block == Block(cur_id, blocks_data[cur_id])
<1>0. PICK n : n = Len(to_decode) OBVIOUS
<1>1. /\ to_decode' = Append(to_decode, block)
      /\ cur_id' = WrappingAdd(cur_id, 1)
      /\ ~ reset /\ UNCHANGED <<reset, block_to_dispatch>>
  BY ReassembleEffect DEF TypeInv
<1>2. block.id = cur_id BY DEF Block
<1> HIDE DEF block
<1>3. /\ DecodeTypeOK /\ Done \in Nat /\ DispatchedInv /\ TurnInv
      /\ taken \in 0 .. n /\ n \in Nat /\ Done <= taken
      /\ block_to_dispatch \in BlockId /\ IdCount \in Nat /\ IdCount > 3
  BY <1>0, DecodeFacts, DoneType DEF TypeInv, OrderInv, DispatchedInv
<1>4. /\ Len(to_decode') = n + 1 /\ to_decode'[n + 1] = block
      /\ \A i \in 1 .. n : to_decode'[i] = to_decode[i]
  BY <1>0, <1>1, <1>3 DEF DecodeTypeOK, TypeOK
<1>5. /\ UNCHANGED <<taken, decoding, to_dispatch, decode_faults>>
      /\ Done' = Done /\ Busy' = Busy
      /\ \A i : BlocksUpTo(i)' = BlocksUpTo(i)
  BY DEF decodeVars, Done, Busy, BlocksUpTo
<1>6. TurnInv'
  <2> DEFINE b == block_to_dispatch
  <2>1. cur_id = (b + (n - Done)) % IdCount BY <1>0, <1>3 DEF TurnInv
  <2>2. cur_id' = (b + ((n + 1) - Done)) % IdCount
    <3> DEFINE x == b + (n - Done)
    <3>1. x \in Nat /\ b + ((n + 1) - Done) = x + 1
      BY <1>3 DEF BlockId
    <3> HIDE DEF x
    <3>2. (x + 1) % IdCount = ((x % IdCount) + 1) % IdCount
      <4>1. IdCount \in Nat /\ IdCount > 1 BY <1>3
      <4> QED BY <3>1, <4>1, ModSucc
    <3>3. cur_id = x % IdCount BY <2>1 DEF x
    <3> QED BY <1>1, <3>1, <3>2, <3>3 DEF WrappingAdd
  <2>3. ASSUME NEW i \in Done + 1 .. n + 1
        PROVE  to_decode'[i].id = (b + (i - (Done + 1))) % IdCount
    <3>1. CASE i = n + 1
      <4>1. i - (Done + 1) = n - Done BY <1>3, <3>1
      <4> QED BY <1>2, <1>4, <2>1, <3>1, <4>1
    <3>2. CASE i # n + 1
      <4>1. i \in Done + 1 .. n /\ i \in 1 .. n BY <1>3, <3>2
      <4> QED BY <1>0, <1>3, <1>4, <4>1 DEF TurnInv
    <3> QED BY <3>1, <3>2
  <2> QED BY <1>1, <1>4, <1>5, <2>2, <2>3 DEF TurnInv
<1>7. DispatchedInv'
  <2> SUFFICES ASSUME NEW i \in 1 .. Len(to_dispatch), to_dispatch[i] # None
               PROVE  to_decode'[BlocksUpTo(i)] = to_decode[BlocksUpTo(i)]
    BY <1>3, <1>5 DEF DispatchedInv
  <2>1. BlocksUpTo(i) <= Done BY <1>3 DEF DispatchedInv
  <2>2. BlocksUpTo(i) \in 1 .. n
    <3> DEFINE S == {j \in 1 .. i : to_dispatch[j] # None}
    <3>1. i \in Nat /\ i \in S BY <1>3, DecodeFacts
    <3>2. IsFiniteSet(1 .. i) BY <3>1, FS_Interval
    <3>3. S \in SUBSET (1 .. i) OBVIOUS
    <3>4. IsFiniteSet(S) BY <3>2, <3>3, FS_Subset
    <3>5. Cardinality(S) \in Nat /\ Cardinality(S) # 0
      BY <3>1, <3>4, FS_CardinalityType, FS_EmptySet
    <3> QED BY <1>3, <2>1, <3>5 DEF BlocksUpTo
  <2> QED BY <1>4, <2>2
<1>8. NothingLeft' BY <1>1 DEF NothingLeft
<1>9. PICK lost \in SUBSET Nat, pos \in [Decoders -> Nat] : HeldInv(pos, lost)
  BY DEF OrderInv
<1>10. HeldInv(pos, lost)'
  <2>1. \A k \in Done + 1 .. taken : to_decode'[k] = to_decode[k]
    BY <1>3, <1>4
  <2> QED BY <1>5, <1>9, <2>1 DEF HeldInv
<1> QED BY <1>6, <1>7, <1>8, <1>9, <1>10 DEF OrderInv

LEMMA OrderRecv ==
  ASSUME TypeInv, OrderInv, InSequence, NEW d \in Decoders, DecodeRecv(d)
  PROVE  OrderInv'
<1>1. /\ decoding[d] = None /\ taken < Len(to_decode) /\ taken' = taken + 1
      /\ decoding' = [decoding EXCEPT ![d] = to_decode[taken + 1]]
      /\ UNCHANGED <<to_decode, cur_id, reset, block_to_dispatch, to_dispatch,
                     decode_faults>>
  BY DEF DecodeRecv, restOfReblock
<1>2. /\ DecodeTypeOK /\ Done \in Nat /\ DispatchedInv /\ Done <= taken
      /\ taken \in Nat /\ taken + 1 \in 1 .. Len(to_decode)
      /\ to_decode[taken + 1] # None
  BY <1>1, DecodeFacts, DoneType DEF TypeInv, OrderInv, DispatchedInv
<1>3. /\ Done' = Done /\ \A i : BlocksUpTo(i)' = BlocksUpTo(i)
  BY <1>1 DEF Done, BlocksUpTo
<1>4. /\ d \notin Busy /\ Busy' = Busy \cup {d}
      /\ decoding'[d] = to_decode[taken + 1]
      /\ \A c \in Busy : decoding'[c] = decoding[c]
  BY <1>1, <1>2 DEF Busy, DecodeTypeOK
<1>5. TurnInv' BY <1>1, <1>3 DEF OrderInv, TurnInv
<1>6. DispatchedInv' BY <1>1, <1>2, <1>3 DEF DispatchedInv
<1>7. NothingLeft' BY <1>1, <1>3 DEF OrderInv, NothingLeft
<1>8. PICK lost \in SUBSET Nat, pos \in [Decoders -> Nat] : HeldInv(pos, lost)
  BY DEF OrderInv
<1>9. PICK now \in [Decoders -> Nat] :
        now[d] = taken + 1 /\ \A c \in Busy : now[c] = pos[c]
  <2>1. [pos EXCEPT ![d] = taken + 1] \in [Decoders -> Nat] BY <1>2
  <2> WITNESS [pos EXCEPT ![d] = taken + 1] \in [Decoders -> Nat]
  <2> QED BY <1>4 DEF Busy
<1>10. \A n : n \in Done + 1 .. taken + 1 <=> n \in Done + 1 .. taken \/ n = taken + 1
  BY <1>2
<1>11. \A n \in Done + 1 .. taken : n # taken + 1 BY <1>2
<1>12. HeldInv(now, lost)'
  <2>1. lost \subseteq Done + 1 .. taken + 1
    BY <1>8, <1>10 DEF HeldInv
  <2>2. Cardinality(lost) = decode_faults' BY <1>1, <1>8 DEF HeldInv
  <2>3. \A c \in Busy' : /\ now[c] \in Done + 1 .. taken + 1
                         /\ now[c] \notin lost
                         /\ decoding'[c] = to_decode[now[c]]
    BY <1>4, <1>8, <1>9, <1>10, <1>11 DEF HeldInv
  <2>4. \A c, e \in Busy' : now[c] = now[e] => c = e
    BY <1>4, <1>8, <1>9, <1>11 DEF HeldInv
  <2>5. \A n \in Done + 1 .. taken + 1 :
          n \in lost \/ \E c \in Busy' : now[c] = n
    BY <1>4, <1>8, <1>9, <1>10 DEF HeldInv
  <2> QED BY <1>1, <1>3, <2>1, <2>2, <2>3, <2>4, <2>5 DEF HeldInv
<1> QED BY <1>5, <1>6, <1>7, <1>8, <1>9, <1>12 DEF OrderInv

LEMMA OrderFail ==
  ASSUME TypeInv, OrderInv, InSequence, NEW d \in Decoders, DecodeFail(d)
  PROVE  OrderInv'
<1>0. PICK n : n = Len(to_dispatch) OBVIOUS
<1>1. /\ d \in Busy /\ decode_faults' = decode_faults + 1
      /\ to_dispatch' = Append(to_dispatch, None)
      /\ decoding' = [decoding EXCEPT ![d] = None]
      /\ UNCHANGED <<to_decode, cur_id, block_to_dispatch, taken>>
  BY DEF DecodeFail, restOfReblock, Busy
<1>2. /\ DecodeTypeOK /\ Done \in Nat /\ DispatchedInv /\ Done <= taken
      /\ taken \in Nat /\ n \in Nat /\ decode_faults \in Nat
  BY <1>0, DecodeFacts, DoneType DEF TypeInv, OrderInv, DispatchedInv
<1>3. /\ Len(to_dispatch') = n + 1 /\ to_dispatch'[n + 1] = None
      /\ \A i \in 1 .. n : to_dispatch'[i] = to_dispatch[i]
      /\ \A i \in 0 .. n : BlocksUpTo(i)' = BlocksUpTo(i)
  BY <1>0, <1>1, <1>2, CountAppend DEF DecodeTypeOK
<1>4. Done' = Done BY <1>0, <1>1, <1>2, <1>3 DEF Done
<1>5. /\ Busy' = Busy \ {d}
      /\ \A c \in Busy' : c \in Busy /\ c # d /\ decoding'[c] = decoding[c]
  BY <1>1, <1>2 DEF Busy, DecodeTypeOK
<1>6. TurnInv' BY <1>1, <1>4 DEF OrderInv, TurnInv
<1>7. DispatchedInv'
  <2> SUFFICES ASSUME NEW i \in 1 .. n + 1, to_dispatch'[i] # None
               PROVE  /\ BlocksUpTo(i)' <= Done
                      /\ to_dispatch'[i] = to_decode[BlocksUpTo(i)']
    BY <1>1, <1>2, <1>3, <1>4 DEF DispatchedInv
  <2>1. i \in 1 .. n /\ i \in 0 .. n BY <1>2, <1>3
  <2> QED BY <1>0, <1>2, <1>3, <2>1 DEF DispatchedInv
<1>8. NothingLeft' BY <1>1, <1>2 DEF NothingLeft
<1>9. PICK lost \in SUBSET Nat, pos \in [Decoders -> Nat] : HeldInv(pos, lost)
  BY DEF OrderInv
<1> DEFINE now == lost \cup {pos[d]}
<1>10. /\ pos[d] \in Done + 1 .. taken /\ pos[d] \notin lost
       /\ now \in SUBSET Nat
  <2>1. pos[d] \in Nat BY <1>1, <1>9 DEF Busy
  <2>2. pos[d] \in Done + 1 .. taken /\ pos[d] \notin lost
    BY <1>1, <1>9 DEF HeldInv
  <2> QED BY <1>9, <2>1, <2>2
<1>11. Cardinality(now) = decode_faults + 1
  <2>1. IsFiniteSet(lost) BY <1>2, <1>9, InFlightBound
  <2>2. Cardinality(lost) = decode_faults BY <1>9 DEF HeldInv
  <2> QED BY <1>10, <2>1, <2>2, FS_AddElement
<1>12. HeldInv(pos, now)'
  <2>1. \A c \in Busy' : pos[c] # pos[d] BY <1>1, <1>5, <1>9 DEF HeldInv
  <2>2. now \subseteq Done + 1 .. taken BY <1>9, <1>10 DEF HeldInv
  <2>3. \A c \in Busy' : /\ pos[c] \in Done + 1 .. taken
                         /\ pos[c] \notin now
                         /\ decoding'[c] = to_decode[pos[c]]
    BY <1>5, <1>9, <2>1 DEF HeldInv
  <2>4. \A c, e \in Busy' : pos[c] = pos[e] => c = e
    BY <1>5, <1>9 DEF HeldInv
  <2>5. \A k \in Done + 1 .. taken : k \in now \/ \E c \in Busy' : pos[c] = k
    <3> SUFFICES ASSUME NEW k \in Done + 1 .. taken, k \notin now
                 PROVE  \E c \in Busy' : pos[c] = k
      OBVIOUS
    <3>1. PICK c \in Busy : pos[c] = k BY <1>9 DEF HeldInv
    <3> QED BY <1>5, <3>1
  <2> HIDE DEF now
  <2> QED BY <1>1, <1>4, <1>11, <2>2, <2>3, <2>4, <2>5 DEF HeldInv
<1> QED BY <1>6, <1>7, <1>8, <1>9, <1>10, <1>12 DEF OrderInv

LEMMA OrderSend ==
  ASSUME TypeInv, OrderInv, InSequence, NEW d \in Decoders, DecodeSend(d)
  PROVE  OrderInv'
<1>0. PICK n : n = Len(to_dispatch) OBVIOUS
<1>1. /\ d \in Busy /\ decoding[d].id = block_to_dispatch
      /\ to_dispatch' = Append(to_dispatch, decoding[d])
      /\ decoding' = [decoding EXCEPT ![d] = None]
      /\ block_to_dispatch' = WrappingAdd(block_to_dispatch, 1)
      /\ UNCHANGED <<to_decode, cur_id, reset, taken, decode_faults>>
  BY DEF DecodeSend, PassOn, restOfReblock, Busy
<1>2. /\ DecodeTypeOK /\ Done \in Nat /\ DispatchedInv /\ TurnInv
      /\ Done <= taken /\ taken \in 0 .. Len(to_decode)
      /\ Len(to_decode) \in Nat /\ n \in Nat /\ decode_faults \in Nat
      /\ block_to_dispatch \in BlockId /\ IdCount \in Nat /\ IdCount > 3
      /\ n = Done + decode_faults /\ BlocksUpTo(n) = Done
      /\ decoding[d] \in Reassembled \cup {None} /\ decoding[d] # None
  <2>1. /\ DecodeTypeOK /\ DispatchedInv /\ TurnInv /\ Done <= taken
    BY DEF TypeInv, OrderInv, DispatchedInv
  <2>2. /\ taken \in 0 .. Len(to_decode) /\ Len(to_decode) \in Nat
        /\ n \in Nat /\ decode_faults \in Nat /\ Done \in Nat
        /\ block_to_dispatch \in BlockId /\ IdCount \in Nat /\ IdCount > 3
    BY <1>0, <2>1, DecodeFacts, DoneType DEF TypeInv
  <2>3. n = Done + decode_faults /\ BlocksUpTo(n) = Done
    BY <1>0, <2>2 DEF TypeInv, FaultInv, Done
  <2>4. decoding[d] \in Reassembled \cup {None} /\ decoding[d] # None
    BY <1>1, <2>1 DEF DecodeTypeOK, Busy
  <2> QED BY <2>1, <2>2, <2>3, <2>4
<1>3. PICK lost \in SUBSET Nat, pos \in [Decoders -> Nat] : HeldInv(pos, lost)
  BY DEF OrderInv
<1>4. /\ pos[d] = Done + 1 /\ Done + 1 <= taken
      /\ decoding[d] = to_decode[Done + 1]
  BY <1>1, <1>2, <1>3, OnlyNextGoesOut
<1>5. /\ Len(to_dispatch') = n + 1 /\ to_dispatch'[n + 1] = to_decode[Done + 1]
      /\ \A i \in 1 .. n : to_dispatch'[i] = to_dispatch[i]
      /\ \A i \in 0 .. n : BlocksUpTo(i)' = BlocksUpTo(i)
      /\ BlocksUpTo(n + 1)' = Done + 1
  BY <1>0, <1>1, <1>2, <1>4, CountAppend DEF DecodeTypeOK
<1>6. Done' = Done + 1 BY <1>0, <1>1, <1>2, <1>5 DEF Done
<1>7. /\ Busy' = Busy \ {d}
      /\ \A c \in Busy' : c \in Busy /\ c # d /\ decoding'[c] = decoding[c]
  BY <1>1, <1>2 DEF Busy, DecodeTypeOK
<1>8. TurnInv'
  <2> DEFINE b == block_to_dispatch
  <2> DEFINE next == WrappingAdd(b, 1)
  <2>1. ASSUME NEW k \in Nat
        PROVE  (next + k) % IdCount = (b + (k + 1)) % IdCount
    <3>1. b + 1 \in Nat /\ (b + 1) + k = b + (k + 1) BY <1>2 DEF BlockId
    <3>2. IdCount \in Nat /\ IdCount > 1 BY <1>2
    <3>3. ((b + 1) + k) % IdCount = (((b + 1) % IdCount) + k) % IdCount
      BY <3>1, <3>2, ModAdd
    <3> QED BY <3>1, <3>3 DEF WrappingAdd
  <2> HIDE DEF next
  <2>2. ASSUME NEW i \in Done + 2 .. Len(to_decode)
        PROVE  to_decode[i].id = (next + (i - (Done + 2))) % IdCount
    <3>1. /\ i - (Done + 2) \in Nat /\ i \in Done + 1 .. Len(to_decode)
          /\ (i - (Done + 2)) + 1 = i - (Done + 1)
      BY <1>2
    <3>2. to_decode[i].id = (b + (i - (Done + 1))) % IdCount
      BY <1>2, <3>1 DEF TurnInv
    <3> QED BY <2>1, <3>1, <3>2
  <2>3. cur_id = (next + (Len(to_decode) - (Done + 1))) % IdCount
    <3>1. /\ Len(to_decode) - (Done + 1) \in Nat
          /\ (Len(to_decode) - (Done + 1)) + 1 = Len(to_decode) - Done
      BY <1>2, <1>4
    <3>2. cur_id = (b + (Len(to_decode) - Done)) % IdCount
      BY <1>2 DEF TurnInv
    <3> QED BY <2>1, <3>1, <3>2
  <2>4. (Done + 1) + 1 = Done + 2 BY <1>2
  <2> QED BY <1>1, <1>6, <2>2, <2>3, <2>4 DEF TurnInv, next
<1>9. DispatchedInv'
  <2>1. ASSUME NEW i \in 1 .. n + 1, to_dispatch'[i] # None
        PROVE  /\ BlocksUpTo(i)' <= Done + 1
               /\ to_dispatch'[i] = to_decode[BlocksUpTo(i)']
    <3>1. CASE i = n + 1 BY <1>2, <1>5, <3>1
    <3>2. CASE i # n + 1
      <4>1. i \in 1 .. n /\ i \in 0 .. n BY <1>2, <3>2
      <4>2. BlocksUpTo(i) \in Nat
        BY <1>0, <1>1, <1>2, <4>1, CountAppend DEF DecodeTypeOK
      <4>3. BlocksUpTo(i) <= Done /\ to_dispatch[i] = to_decode[BlocksUpTo(i)]
        BY <1>0, <1>2, <1>5, <2>1, <4>1 DEF DispatchedInv
      <4> QED BY <1>2, <1>5, <4>1, <4>2, <4>3
    <3> QED BY <3>1, <3>2
  <2> QED BY <1>1, <1>4, <1>5, <1>6, <2>1 DEF DispatchedInv
<1>10. NothingLeft'
  BY <1>1, <1>2, <1>4 DEF OrderInv, NothingLeft
<1>11. HeldInv(pos, lost)'
  <2>1. \A k : k \in Done + 1 .. taken /\ k # pos[d] <=> k \in Done + 2 .. taken
    BY <1>2, <1>4
  <2>2. pos[d] \notin lost /\ \A c \in Busy' : pos[c] # pos[d]
    BY <1>1, <1>3, <1>7 DEF HeldInv
  <2>3. lost \subseteq Done + 2 .. taken BY <1>3, <2>1, <2>2 DEF HeldInv
  <2>4. \A c \in Busy' : /\ pos[c] \in Done + 2 .. taken
                         /\ pos[c] \notin lost
                         /\ decoding'[c] = to_decode[pos[c]]
    BY <1>3, <1>7, <2>1, <2>2 DEF HeldInv
  <2>5. \A c, e \in Busy' : pos[c] = pos[e] => c = e
    BY <1>3, <1>7 DEF HeldInv
  <2>6. \A k \in Done + 2 .. taken : k \in lost \/ \E c \in Busy' : pos[c] = k
    <3> SUFFICES ASSUME NEW k \in Done + 2 .. taken, k \notin lost
                 PROVE  \E c \in Busy' : pos[c] = k
      OBVIOUS
    <3>1. PICK c \in Busy : pos[c] = k BY <1>3, <2>1 DEF HeldInv
    <3> QED BY <1>7, <2>1, <3>1
  <2>7. (Done + 1) + 1 = Done + 2 BY <1>2
  <2> QED BY <1>1, <1>3, <1>6, <2>3, <2>4, <2>5, <2>6, <2>7 DEF HeldInv
<1> QED BY <1>3, <1>8, <1>9, <1>10, <1>11 DEF OrderInv

LEMMA OrderStep ==
  ASSUME ~ SlowDecoders, TypeInv, OrderInv, [DecodeNext]_receiveVars
  PROVE  OrderInv'
<1>1. TypeInv' BY TypeStep
<1> SUFFICES ASSUME InSequence' PROVE OrderInv'
  BY DEF OrderInv
<1>2. InSequence BY <1>1, InSequenceBefore
<1>3. CASE ReblockStep
  <2>1. UNCHANGED decodeVars BY <1>3 DEF ReblockStep
  <2>2. CASE SendBlock
    <3>1. UNCHANGED <<to_decode, cur_id, block_to_dispatch, reset>>
      BY <2>2 DEF SendBlock, reblockVars
    <3>2. NothingLeft'
      BY <1>2, <2>1, <3>1 DEF OrderInv, NothingLeft, Done, decodeVars
    <3> QED BY <1>2, <2>1, <3>1, <3>2, OrderUnchanged
  <2>3. CASE DecodeTimeout
    <3>1. UNCHANGED <<to_decode, cur_id, block_to_dispatch>>
      BY <2>3, TimeoutEffect DEF DecodeTimeout, TypeInv
    <3>2. NothingLeft'
      BY <2>1, <2>3, <3>1, TimeoutLeavesNothing
         DEF NothingLeft, Done, decodeVars
    <3> QED BY <1>2, <2>1, <3>1, <3>2, OrderUnchanged
  <2>4. CASE ReceiveSome BY <1>1, <1>2, <2>1, <2>4, OrderReceive
  <2>5. CASE Reassemble BY <1>1, <1>2, <2>1, <2>5, OrderReassemble
  <2> QED BY <1>3, <2>2, <2>3, <2>4, <2>5 DEF ReblockStep
<1>4. ASSUME NEW d \in Decoders, DecodeStep(d)
      PROVE  OrderInv'
  BY <1>2, <1>4, OrderRecv, OrderFail, OrderSend DEF DecodeStep
<1>5. CASE UNCHANGED receiveVars
  <2>1. UNCHANGED <<to_decode, cur_id, block_to_dispatch, reset, decodeVars>>
    BY <1>5 DEF receiveVars, restOfReblock
  <2>2. NothingLeft'
    BY <1>2, <2>1 DEF OrderInv, NothingLeft, Done, decodeVars
  <2> QED BY <1>2, <2>1, <2>2, OrderUnchanged
<1> QED BY <1>3, <1>4, <1>5 DEF DecodeNext

THEOREM OrderCorrect ==
  ASSUME ~ SlowDecoders
  PROVE  DecodeSpec => [](TypeInv /\ OrderInv)
<1> DEFINE I == TypeInv /\ OrderInv
<1>1. DecodeInit => I BY TypeInit, OrderInit
<1>2. I /\ [DecodeNext]_receiveVars => I' BY TypeStep, OrderStep
<1> HIDE DEF I
<1>3. DecodeSpec => []I BY <1>1, <1>2, PTL DEF DecodeSpec
<1> QED BY <1>3 DEF I

(* As long as every block decodes, the decoders never all wait for each    *)
(* other's number (receive/decode.rs, wait_while), restarts of the counter *)
(* included (receive/reblock.rs), for any number of decoders, if they are  *)
(* done when reset_timeout elapses.                                        *)
THEOREM SomeDecoderMayPassCorrect ==
  ASSUME ~ SlowDecoders
  PROVE  DecodeSpec => []SomeDecoderMayPass
<1>1. TypeInv /\ OrderInv => SomeDecoderMayPass
  <2> SUFFICES ASSUME TypeInv, OrderInv, decode_faults = 0,
                      NEW c \in Decoders, decoding[c] # None
               PROVE  \E d \in Decoders : /\ decoding[d] # None
                                          /\ decoding[d].id = block_to_dispatch
    BY DEF SomeDecoderMayPass
  <2>1. c \in Busy BY DEF Busy
  <2>2. PICK d \in Busy : decoding[d].id = block_to_dispatch
    BY <2>1, NextIsHeld
  <2> QED BY <2>2 DEF Busy
<1> QED BY <1>1, OrderCorrect, PTL

(* The n-th block dispatched is the n-th one reassembled: without failures *)
(* across any number of restarts, and with failures until the next restart *)
(* (receive/decode.rs, the counter that is not incremented), as long as    *)
(* those held and those lost are no more than a lap of the block numbers.  *)
THEOREM NoHoleCorrect ==
  ASSUME ~ SlowDecoders
  PROVE  DecodeSpec => []NoHole
<1>1. TypeInv /\ OrderInv => NoHole
  <2> SUFFICES ASSUME TypeInv, OrderInv, InSequence,
                      NEW i \in 1 .. Len(to_dispatch), to_dispatch[i] # None
               PROVE  /\ BlocksUpTo(i) <= Len(to_decode)
                      /\ to_dispatch[i] = to_decode[BlocksUpTo(i)]
    BY DEF NoHole
  <2>1. /\ Done \in Nat /\ Done <= taken /\ taken \in 0 .. Len(to_decode)
        /\ Len(to_decode) \in Nat /\ Len(to_dispatch) \in Nat
    BY DecodeFacts, DoneType DEF TypeInv, OrderInv, DispatchedInv
  <2>2. BlocksUpTo(i) <= Done /\ to_dispatch[i] = to_decode[BlocksUpTo(i)]
    BY DEF OrderInv, DispatchedInv
  <2>3. BlocksUpTo(i) \in Nat
    <3>1. IsFiniteSet(1 .. i) BY <2>1, FS_Interval
    <3>2. {j \in 1 .. i : to_dispatch[j] # None} \in SUBSET (1 .. i) OBVIOUS
    <3>3. IsFiniteSet({j \in 1 .. i : to_dispatch[j] # None})
      BY <3>1, <3>2, FS_Subset
    <3> QED BY <3>3, FS_CardinalityType DEF BlocksUpTo
  <2> QED BY <2>1, <2>2, <2>3
<1> QED BY <1>1, OrderCorrect, PTL
-----------------------------------------------------------------------------
LEMMA MinIs ==
  ASSUME NEW S \in SUBSET Int, NEW k \in S, \A x \in S : k <= x
  PROVE  Min(S) = k
<1>1. \A x \in S : (\A y \in S : x <= y) => x = k OBVIOUS
<1> QED BY <1>1 DEF Min

(* What was dispatched before the first failure, where that is known.      *)
FirstFault ==
  /\ decode_faults = 0 => BeforeFault = to_dispatch
  /\ \A k \in 1 .. Len(to_dispatch) :
       to_dispatch[k] = None /\ (\A j \in 1 .. k - 1 : to_dispatch[j] # None)
         => BeforeFault = SubSeq(to_dispatch, 1, k - 1)

LEMMA BeforeFaultIs == TypeInv => FirstFault
<1> SUFFICES ASSUME DecodeTypeOK, FaultInv PROVE FirstFault
  BY DEF TypeInv
<1> DEFINE nones == {j \in DOMAIN to_dispatch : to_dispatch[j] = None}
<1> DEFINE S == {Len(to_dispatch)} \cup {i - 1 : i \in nones}
<1>1. /\ to_dispatch \in Seq(Reassembled \cup {None})
      /\ Len(to_dispatch) \in Nat /\ DOMAIN to_dispatch = 1 .. Len(to_dispatch)
  BY DEF DecodeTypeOK
<1>2. BeforeFault = SubSeq(to_dispatch, 1, Min(S)) BY DEF BeforeFault
<1>3. S \in SUBSET Int BY <1>1
<1>4. ASSUME decode_faults = 0
      PROVE  BeforeFault = to_dispatch
  <2>1. nones = {} BY <1>1, <1>4, NoFaultNoNone
  <2>2. Len(to_dispatch) \in S /\ \A x \in S : Len(to_dispatch) <= x
    BY <1>1, <2>1
  <2> HIDE DEF S
  <2>3. Min(S) = Len(to_dispatch) BY <1>3, <2>2, MinIs
  <2> QED BY <1>1, <1>2, <2>3, SubSeqFull
<1>5. ASSUME NEW k \in 1 .. Len(to_dispatch), to_dispatch[k] = None,
             \A j \in 1 .. k - 1 : to_dispatch[j] # None
      PROVE  BeforeFault = SubSeq(to_dispatch, 1, k - 1)
  <2>1. \A i \in nones : k <= i BY <1>1, <1>5
  <2>2. k - 1 \in S /\ \A x \in S : k - 1 <= x BY <1>1, <1>5, <2>1
  <2> HIDE DEF S
  <2>3. Min(S) = k - 1 BY <1>3, <2>2, MinIs
  <2> QED BY <1>2, <2>3
<1> QED BY <1>4, <1>5 DEF FirstFault

(* A step that adds a message behind the first failure, or is the first    *)
(* failure, or adds none.                                                  *)
LEMMA BeforeFaultKept ==
  ASSUME TypeInv, FirstFault, FirstFault',
         NEW message \in Reassembled \cup {None},
         to_dispatch' = Append(to_dispatch, message),
         decode_faults > 0 \/ message = None
  PROVE  BeforeFault' = BeforeFault
<1>0. PICK n : n = Len(to_dispatch) OBVIOUS
<1>1. /\ DecodeTypeOK /\ FaultInv /\ n \in Nat /\ decode_faults \in Nat
      /\ to_dispatch \in Seq(Reassembled \cup {None})
  BY <1>0, DecodeFacts DEF TypeInv, DecodeTypeOK
<1>2. PICK log : log = to_dispatch' OBVIOUS
<1>3. /\ Len(log) = n + 1 /\ log[n + 1] = message
      /\ \A i \in 1 .. n : log[i] = to_dispatch[i]
      /\ log \in Seq(Reassembled \cup {None})
  BY <1>0, <1>1, <1>2
<1>4. \A k \in 1 .. n + 1 :
        log[k] = None /\ (\A j \in 1 .. k - 1 : log[j] # None)
          => BeforeFault' = SubSeq(log, 1, k - 1)
  <2> QED BY <1>2, <1>3 DEF FirstFault
<1>5. \A k \in 0 .. n : SubSeq(log, 1, k) = SubSeq(to_dispatch, 1, k)
  <2> SUFFICES ASSUME NEW k \in 0 .. n
               PROVE  SubSeq(log, 1, k) = SubSeq(to_dispatch, 1, k)
    OBVIOUS
  <2> DEFINE T == Reassembled \cup {None}
  <2>1. \A i \in 1 .. k : log[i] = to_dispatch[i] /\ log[i] \in T
    BY <1>0, <1>1, <1>3
  <2>2. /\ SubSeq(log, 1, k) \in Seq(T)
        /\ Len(SubSeq(log, 1, k)) = k
        /\ \A i \in 1 .. k : SubSeq(log, 1, k)[i] = log[i]
        /\ SubSeq(to_dispatch, 1, k) \in Seq(T)
        /\ Len(SubSeq(to_dispatch, 1, k)) = k
        /\ \A i \in 1 .. k : SubSeq(to_dispatch, 1, k)[i] = to_dispatch[i]
    BY <1>0, <1>1, <1>3, <2>1
  <2> HIDE DEF T
  <2> QED BY <2>1, <2>2, SeqEqual
<1>6. CASE decode_faults > 0
  <2>1. PICK k \in 1 .. n :
          to_dispatch[k] = None /\ \A j \in 1 .. k - 1 : to_dispatch[j] # None
    BY <1>0, <1>1, <1>6 DEF FaultInv
  <2>2. BeforeFault = SubSeq(to_dispatch, 1, k - 1)
    BY <1>0, <2>1 DEF FirstFault
  <2>3. BeforeFault' = SubSeq(log, 1, k - 1) BY <1>1, <1>3, <1>4, <2>1
  <2>4. k - 1 \in 0 .. n BY <1>1
  <2> QED BY <1>5, <2>2, <2>3, <2>4
<1>7. CASE ~ (decode_faults > 0)
  <2>1. decode_faults = 0 /\ message = None BY <1>1, <1>7
  <2>2. \A j \in 1 .. n : to_dispatch[j] # None
    BY <1>0, <1>1, <2>1, NoFaultNoNone
  <2>3. BeforeFault = to_dispatch BY <2>1 DEF FirstFault
  <2>4. n + 1 \in 1 .. n + 1 /\ (n + 1) - 1 = n /\ n \in 0 .. n BY <1>1
  <2>5. BeforeFault' = SubSeq(log, 1, n) BY <1>3, <1>4, <2>1, <2>2, <2>4
  <2>6. SubSeq(to_dispatch, 1, n) = to_dispatch BY <1>0, <1>1, SubSeqFull
  <2> QED BY <1>5, <2>3, <2>4, <2>5, <2>6
<1> QED BY <1>6, <1>7

(* Decoding implements the ordered pipe: a block that is reassembled is    *)
(* accepted, one that is passed on before the first failure is delivered,  *)
(* every other step is a stutter, the restarts of the counter included     *)
(* (receive/decode.rs, receive/reblock.rs).                                *)
THEOREM RefinesOrderedPipe ==
  ASSUME ~ SlowDecoders
  PROVE  DecodeSpec => ImplementsOrderedPipe
<1> DEFINE I == TypeInv /\ OrderInv
<1>1. DecodeInit /\ FirstFault => Pipe!PipeInit
  BY DEF DecodeInit, Init, FirstFault, Pipe!PipeInit
<1>2. I /\ FirstFault /\ FirstFault' /\ [DecodeNext]_receiveVars
        => [Pipe!PipeNext]_(Pipe!pipeVars)
  <2> SUFFICES ASSUME TypeInv, OrderInv, FirstFault, FirstFault',
                      [DecodeNext]_receiveVars
               PROVE  [Pipe!PipeNext]_(Pipe!pipeVars)
    OBVIOUS
  <2>1. /\ DecodeTypeOK /\ decode_faults \in Nat
        /\ to_decode \in Seq(Reassembled)
        /\ to_dispatch \in Seq(Reassembled \cup {None})
    BY DecodeFacts DEF TypeInv, DecodeTypeOK, TypeOK
  <2>2. CASE ReblockStep \/ UNCHANGED receiveVars
    <3>1. UNCHANGED decodeVars /\ [Next]_vars
      BY <2>2 DEF ReblockStep, DecodeTimeout, Next, receiveVars, restOfReblock,
                  vars, linkVars, reblockVars
    <3>2. BeforeFault' = BeforeFault BY <3>1 DEF decodeVars, BeforeFault
    <3>3. CASE Reassemble
      <4> DEFINE block == Block(cur_id, blocks_data[cur_id])
      <4>1. to_decode' = Append(to_decode, block)
        BY <3>3, ReassembleEffect DEF TypeInv
      <4>2. block \in Reassembled
        BY DEF Block, Reassembled, DecodeTypeOK, TypeInv, TypeOK
      <4> HIDE DEF block
      <4>3. to_decode' # <<>> /\ to_decode'[Len(to_decode')] = block
        BY <2>1, <4>1, <4>2
      <4> QED BY <3>2, <4>1, <4>2, <4>3 DEF Pipe!PipeNext, Pipe!Accept
    <3>4. CASE ~ Reassemble
      <4>1. to_decode' = to_decode
        BY <3>1, <3>4, TimeoutEffect DEF TypeInv, Next, SendBlock, ReceiveSome,
                                         Receive, vars, reblockVars
      <4> QED BY <3>2, <4>1 DEF Pipe!pipeVars
    <3> QED BY <3>3, <3>4
  <2>3. ASSUME NEW d \in Decoders, DecodeStep(d)
        PROVE  [Pipe!PipeNext]_(Pipe!pipeVars)
    <3>1. to_decode' = to_decode BY <2>1, <2>3, DecoderEffect
    <3>2. CASE DecodeRecv(d)
      <4>1. to_dispatch' = to_dispatch BY <3>2 DEF DecodeRecv
      <4> QED BY <3>1, <4>1 DEF BeforeFault, Pipe!pipeVars
    <3>3. CASE DecodeFail(d)
      <4>1. to_dispatch' = Append(to_dispatch, None) BY <3>3 DEF DecodeFail
      <4>2. BeforeFault' = BeforeFault BY <4>1, BeforeFaultKept
      <4> QED BY <3>1, <4>2 DEF Pipe!pipeVars
    <3>4. CASE DecodeSend(d)
      <4> DEFINE message == decoding[d]
      <4>1. /\ d \in Busy /\ message # None /\ message.id = block_to_dispatch
            /\ to_dispatch' = Append(to_dispatch, message)
            /\ decode_faults' = decode_faults
            /\ message \in Reassembled \cup {None}
        BY <2>1, <3>4 DEF DecodeSend, PassOn, Busy, DecodeTypeOK
      <4>2. CASE decode_faults > 0
        <5>1. BeforeFault' = BeforeFault
          <6> HIDE DEF message
          <6> QED BY <4>1, <4>2, BeforeFaultKept
        <5> QED BY <3>1, <5>1 DEF Pipe!pipeVars
      <4>3. CASE decode_faults = 0
        <5>1. /\ InSequence /\ TurnInv /\ DispatchedInv
              /\ Done \in Nat /\ Done = Len(to_dispatch)
          BY <2>1, <4>3, DoneType, DecodeFacts DEF InSequence, OrderInv, Done
        <5>2. PICK lost \in SUBSET Nat, pos \in [Decoders -> Nat] :
                     HeldInv(pos, lost)
          BY <5>1 DEF OrderInv
        <5>3. Done + 1 <= taken /\ message = to_decode[Done + 1]
          BY <4>1, <5>1, <5>2, OnlyNextGoesOut
        <5>4. Done < Len(to_decode) BY <2>1, <5>1, <5>3, DecodeFacts
        <5>5. BeforeFault = to_dispatch /\ BeforeFault' = to_dispatch'
          BY <4>1, <4>3 DEF FirstFault
        <5> QED BY <3>1, <4>1, <5>1, <5>3, <5>4, <5>5
                DEF Pipe!PipeNext, Pipe!Deliver
      <4> QED BY <2>1, <4>2, <4>3
    <3> QED BY <2>3, <3>2, <3>3, <3>4 DEF DecodeStep
  <2> QED BY <2>2, <2>3 DEF DecodeNext
<1>3. DecodeSpec => []I BY OrderCorrect
<1>4. I => FirstFault BY BeforeFaultIs
<1> HIDE DEF I
<1> QED BY <1>1, <1>2, <1>3, <1>4, PTL
        DEF DecodeSpec, ImplementsOrderedPipe, Pipe!PipeSpec
-----------------------------------------------------------------------------
(* The decoders do not disturb what Reblock promises on a link that loses  *)
(* no more than the repair packets and reorders no more than the window.   *)
LEMMA LinkUnderDecoders ==
  ASSUME MaxSkew <= WindowWidth,
         TypeInv, LinkInv, SlotInv, [DecodeNext]_receiveVars
  PROVE  LinkInv' /\ SlotInv'
<1>1. CASE ReblockStep \/ UNCHANGED receiveVars
  <2>1. [Next]_vars
    BY <1>1 DEF ReblockStep, DecodeTimeout, Next, receiveVars, restOfReblock,
                vars, linkVars, reblockVars
  <2> QED BY <2>1, LinkStep DEF TypeInv
<1>2. ASSUME NEW d \in Decoders, DecodeStep(d)
      PROVE  LinkInv' /\ SlotInv'
  <2>1. /\ UNCHANGED <<pending, lossy, blocks_data, cur_id, reset, to_decode,
                       first>>
        /\ Sent' = Sent
    BY <1>2, DecoderEffect DEF TypeInv, Sent
  <2>2. LinkInv' BY <2>1 DEF LinkInv
  <2>3. SlotInv' BY <2>1, DueUnchanged DEF SlotInv
  <2> QED BY <2>2, <2>3
<1> QED BY <1>1, <1>2 DEF DecodeNext

(* Without a failure what was passed on is what was handed over.           *)
LEMMA DispatchedIsHanded ==
  ASSUME TypeInv, OrderInv, decode_faults = 0
  PROVE  \A j \in 1 .. Len(to_dispatch) :
           /\ j \in 1 .. Len(to_decode)
           /\ to_dispatch[j] = to_decode[j] /\ to_dispatch[j] # None
<1>1. /\ InSequence /\ DispatchedInv
      /\ Done = Len(to_dispatch) /\ Len(to_dispatch) \in Nat
      /\ Len(to_decode) \in Nat /\ Done <= taken
      /\ taken \in 0 .. Len(to_decode)
  BY DecodeFacts DEF InSequence, OrderInv, DispatchedInv, TypeInv, Done
<1>2. \A j \in 1 .. Len(to_dispatch) : to_dispatch[j] # None
  BY NoFaultNoNone DEF TypeInv
<1> SUFFICES ASSUME NEW j \in 1 .. Len(to_dispatch)
             PROVE  j \in 1 .. Len(to_decode) /\ to_dispatch[j] = to_decode[j]
  BY <1>2
<1>3. {k \in 1 .. j : to_dispatch[k] # None} = 1 .. j
  <2>1. \A k \in 1 .. j : k \in 1 .. Len(to_dispatch) BY <1>1
  <2> QED BY <1>2, <2>1
<1>4. Cardinality(1 .. j) = j BY <1>1, FS_Interval
<1>5. BlocksUpTo(j) = j BY <1>3, <1>4 DEF BlocksUpTo
<1>6. to_dispatch[j] = to_decode[j] BY <1>1, <1>2, <1>5 DEF DispatchedInv
<1> QED BY <1>1, <1>6

(* On such a link, and as long as every block decodes, dispatch is given   *)
(* the blocks of the sender in order and without a hole between two        *)
(* restarts (receive/reblock.rs, receive/decode.rs), if the decoders are   *)
(* done when reset_timeout elapses.                                        *)
THEOREM DispatchedAsSentCorrect ==
  ASSUME ~ SlowDecoders, MaxSkew <= WindowWidth
  PROVE  DecodeSpec => []DispatchedAsSent
<1> DEFINE J == LinkInv /\ SlotInv
<1> DEFINE I == TypeInv /\ OrderInv
<1>1. I /\ J => DispatchedAsSent
  <2> SUFFICES ASSUME TypeInv, OrderInv, SlotInv, ~ lossy, decode_faults = 0,
                      NEW i \in 1 .. Len(to_dispatch)
               PROVE  IF i = 1 \/ to_dispatch[i].epoch # to_dispatch[i - 1].epoch
                      THEN SourcesOf(to_dispatch[i]) = {first[to_dispatch[i].epoch]}
                      ELSE SourcesOf(to_dispatch[i]) =
                             {s + 1 : s \in SourcesOf(to_dispatch[i - 1])}
    BY DEF DispatchedAsSent
  <2>1. Len(to_dispatch) \in Nat BY DecodeFacts DEF TypeInv
  <2>3. ASSUME NEW j \in 1 .. Len(to_dispatch)
        PROVE  /\ j \in 1 .. Len(to_decode)
               /\ to_dispatch[j] = to_decode[j]
               /\ SourcesOf(to_dispatch[j]) = Sources(j)
    BY DispatchedIsHanded DEF SourcesOf, Sources
  <2>4. IF i = 1 \/ to_decode[i].epoch # to_decode[i - 1].epoch
        THEN Sources(i) = {first[to_decode[i].epoch]}
        ELSE Sources(i) = {s + 1 : s \in Sources(i - 1)}
    BY <2>3 DEF SlotInv, InOrderWithoutHole
  <2>5. i = 1 \/ i - 1 \in 1 .. Len(to_dispatch) BY <2>1
  <2>6. CASE i = 1 BY <2>3, <2>4, <2>6
  <2>7. CASE i # 1
    <3>1. i - 1 \in 1 .. Len(to_dispatch) BY <2>5, <2>7
    <3>2. /\ to_dispatch[i] = to_decode[i]
          /\ to_dispatch[i - 1] = to_decode[i - 1]
          /\ SourcesOf(to_dispatch[i]) = Sources(i)
          /\ SourcesOf(to_dispatch[i - 1]) = Sources(i - 1)
      BY <2>3, <3>1
    <3> QED BY <2>4, <2>7, <3>2
  <2> QED BY <2>6, <2>7
<1>2. DecodeInit => J BY LinkInit DEF DecodeInit
<1>3. I /\ J /\ [DecodeNext]_receiveVars => J' BY LinkUnderDecoders
<1>4. DecodeSpec => []I BY OrderCorrect
<1> HIDE DEF I, J
<1> QED BY <1>1, <1>2, <1>3, <1>4, PTL DEF DecodeSpec
-----------------------------------------------------------------------------
(* As long as less than a lap of blocks was sent, whatever the link loses, *)
(* however often the workers start afresh and whatever fails to decode, a  *)
(* block number stands for one block, and the numbers of what reaches      *)
(* dispatch only grow.                                                     *)

(* The packets of a message are those of the block its number stands for.  *)
OfItsNumber(message) ==
  /\ message.packets # {}
  /\ \A p \in message.packets : p.block = message.id + 1

(* A restart never goes back: what was in flight is given up by then.      *)
RestartsAhead ==
  reset => \A s \in 1 .. Sent : pending[s] > 0 => cur_id < s

SlotsOfTheirNumber ==
  \A id \in BlockId : \A p \in blocks_data[id] :
    p.block = id + 1 /\ p.block <= Sent

HandedBehind ==
  \A i \in 1 .. Len(to_decode) :
    OfItsNumber(to_decode[i]) /\ to_decode[i].id < cur_id

HeldBehind ==
  \A d \in Busy : OfItsNumber(decoding[d]) /\ decoding[d].id < cur_id

DispatchedBehind ==
  \A i \in 1 .. Len(to_dispatch) : to_dispatch[i] # None =>
    /\ OfItsNumber(to_dispatch[i])
    /\ to_dispatch[i].id < block_to_dispatch
    /\ \A j \in 1 .. i - 1 :
         to_dispatch[j] # None => to_dispatch[j].id < to_dispatch[i].id

LapInv ==
  /\ cur_id <= Sent
  /\ block_to_dispatch <= cur_id
  /\ RestartsAhead
  /\ SlotsOfTheirNumber
  /\ HandedBehind
  /\ HeldBehind
  /\ DispatchedBehind

LEMMA LapInit == DecodeInit => LapInv
<1> SUFFICES ASSUME DecodeInit PROVE LapInv OBVIOUS
<1>1. Sent = 0 /\ cur_id = 0 /\ block_to_dispatch = 0
  BY DEF DecodeInit, Init, Sent
<1>2. RestartsAhead BY <1>1 DEF RestartsAhead
<1>3. SlotsOfTheirNumber BY DEF DecodeInit, Init, SlotsOfTheirNumber
<1>4. HandedBehind BY DEF DecodeInit, Init, HandedBehind
<1>5. HeldBehind BY DEF DecodeInit, HeldBehind, Busy
<1>6. DispatchedBehind BY DEF DecodeInit, DispatchedBehind
<1> QED BY <1>1, <1>2, <1>3, <1>4, <1>5, <1>6 DEF LapInv

LEMMA LapSendBlock ==
  ASSUME IInv, LapInv, SendBlock, UNCHANGED decodeVars
  PROVE  LapInv'
<1>1. TypeOK BY DEF IInv
<1>2. /\ Sent' = Sent + 1 /\ Sent \in Nat /\ cur_id \in Nat
      /\ UNCHANGED reblockVars
      /\ \A s \in 1 .. Sent + 1 :
           pending'[s] = IF s <= Sent + 1 - MaxSkew THEN 0
                         ELSE IF s = Sent + 1 THEN NbPackets ELSE pending[s]
  BY <1>1, SendBlockEffect DEF TypeOK, BlockId
<1>3. RestartsAhead'
  <2> SUFFICES ASSUME reset, NEW s \in 1 .. Sent + 1, pending'[s] > 0
               PROVE  cur_id < s
    BY <1>2 DEF RestartsAhead, reblockVars
  <2>1. CASE s = Sent + 1 BY <1>2, <2>1 DEF LapInv
  <2>2. CASE s # Sent + 1
    <3>1. s \in 1 .. Sent BY <1>2, <2>2
    <3>2. pending[s] > 0 BY <1>2, <2>2
    <3> QED BY <3>1, <3>2 DEF LapInv, RestartsAhead
  <2> QED BY <2>1, <2>2
<1>4. SlotsOfTheirNumber'
  <2> SUFFICES ASSUME NEW id \in BlockId, NEW p \in blocks_data[id]
               PROVE  p.block = id + 1 /\ p.block <= Sent + 1
    BY <1>2 DEF SlotsOfTheirNumber, reblockVars
  <2>1. p.block = id + 1 /\ p.block <= Sent
    BY DEF LapInv, SlotsOfTheirNumber
  <2> QED BY <1>2, <2>1 DEF BlockId
<1>5. HandedBehind' /\ HeldBehind' /\ DispatchedBehind'
  BY <1>2 DEF LapInv, HandedBehind, HeldBehind, DispatchedBehind, Busy,
              reblockVars, decodeVars, OfItsNumber
<1> QED BY <1>2, <1>3, <1>4, <1>5 DEF LapInv, reblockVars

LEMMA LapTimeout ==
  ASSUME IInv, LapInv, Timeout, UNCHANGED decodeVars
  PROVE  LapInv'
<1>1. TypeOK /\ Sent \in Nat BY PendingType DEF IInv
<1>2. UNCHANGED <<blocks_data, cur_id, block_to_dispatch, to_decode>>
  BY TimeoutEffect
<1>3. pending' = [s \in 1 .. Sent |-> 0] /\ Sent' = Sent
  BY <1>1 DEF Timeout, Sent
<1>4. RestartsAhead' BY <1>3 DEF RestartsAhead
<1>5. SlotsOfTheirNumber' BY <1>2, <1>3 DEF LapInv, SlotsOfTheirNumber
<1>6. HandedBehind' /\ HeldBehind' /\ DispatchedBehind'
  BY <1>2 DEF LapInv, HandedBehind, HeldBehind, DispatchedBehind, Busy,
              decodeVars, OfItsNumber
<1> QED BY <1>2, <1>3, <1>4, <1>5, <1>6 DEF LapInv

(* Below a lap the number of a block is its position.                      *)
LEMMA IdOfFirstLap ==
  ASSUME NEW s \in 1 .. IdCount - 1
  PROVE  IdOf(s) = s - 1 /\ IdOf(s) \in BlockId
<1>1. IdCount \in Nat /\ s - 1 \in 0 .. IdCount - 1 BY IdCountAssumption
<1>2. (s - 1) % IdCount = s - 1 BY <1>1
<1> QED BY <1>1, <1>2 DEF IdOf, BlockId

LEMMA LapReceive ==
  ASSUME IInv, DecodeTypeOK, LapInv, ReceiveSome, Sent < IdCount,
         UNCHANGED decodeVars
  PROVE  LapInv'
<1>1. TypeOK BY DEF IInv
<1>2. /\ Sent \in Nat /\ IdCount \in Nat /\ cur_id \in Nat
      /\ \A s \in 1 .. Sent : pending[s] \in Nat
  BY <1>1, PendingType, IdCountAssumption, LinkAssumption DEF TypeOK, BlockId
<1>3. PICK n \in 1 .. MaxBatch : \E b \in [1 .. n -> 1 .. Sent] :
        /\ \A s \in 1 .. Sent : Count(b, s) <= pending[s]
        /\ Receive(b)
  BY DEF ReceiveSome
<1>4. PICK batch \in [1 .. n -> 1 .. Sent] :
        /\ \A s \in 1 .. Sent : Count(batch, s) <= pending[s]
        /\ Receive(batch)
  BY <1>3
<1>5. /\ n \in Nat /\ 1 \in 1 .. n
      /\ \A i \in 1 .. n : /\ batch[i] \in 1 .. Sent
                           /\ batch[i] \in 1 .. IdCount - 1
                           /\ pending[batch[i]] > 0
  <2>1. n \in Nat /\ 1 \in 1 .. n BY LinkAssumption
  <2>2. \A i \in 1 .. n : pending[batch[i]] > 0
    BY <1>1, <1>4, <2>1, BatchFacts
  <2>3. \A i \in 1 .. n : batch[i] \in 1 .. Sent /\ batch[i] \in 1 .. IdCount - 1
    BY <1>2
  <2> QED BY <2>1, <2>2, <2>3
<1>6. Sent' = Sent BY <1>2, <1>4 DEF Receive, Sent
<1>7. \A data, ignore : \A id \in BlockId :
        \A p \in Push(batch, data, ignore)[id] :
          p \in data[id] \/ (p.block = id + 1 /\ p.block <= Sent)
  <2> SUFFICES ASSUME NEW data, NEW ignore, NEW id \in BlockId,
                      NEW p \in Push(batch, data, ignore)[id], p \notin data[id]
               PROVE  p.block = id + 1 /\ p.block <= Sent
    OBVIOUS
  <2>1. p \in Packets(batch) /\ IdOf(p.block) = id BY DEF Push
  <2>2. PICK i \in 1 .. n : p.block = batch[i] BY <2>1 DEF Packets
  <2>3. id = p.block - 1 /\ p.block \in 1 .. Sent
    BY <1>5, <2>1, <2>2, IdOfFirstLap
  <2> QED BY <1>2, <2>3
<1>8. CASE ~ reset
  <2>1. /\ UNCHANGED <<cur_id, block_to_dispatch, to_decode>>
        /\ blocks_data' = Push(batch, blocks_data, blocks_ignore) /\ ~ reset'
    BY <1>4, <1>8 DEF Receive
  <2>2. RestartsAhead' BY <2>1 DEF RestartsAhead
  <2>3. SlotsOfTheirNumber'
    BY <1>6, <1>7, <2>1 DEF LapInv, SlotsOfTheirNumber
  <2>4. HandedBehind' /\ HeldBehind' /\ DispatchedBehind'
    BY <2>1 DEF LapInv, HandedBehind, HeldBehind, DispatchedBehind, Busy,
                decodeVars, OfItsNumber
  <2> QED BY <1>6, <2>1, <2>2, <2>3, <2>4 DEF LapInv
<1>9. CASE reset
  <2> DEFINE f == batch[1]
  <2>1. /\ cur_id' = f - 1 /\ block_to_dispatch' = f - 1 /\ ~ reset'
        /\ to_decode' = to_decode
        /\ blocks_data' =
             Push(batch, [i \in BlockId |-> {}], blocks_ignore')
    BY <1>4, <1>5, <1>9, IdOfFirstLap DEF Receive, DispatchFrom
  <2>2. f \in 1 .. Sent /\ cur_id < f
    BY <1>5, <1>9 DEF LapInv, RestartsAhead
  <2> HIDE DEF f
  <2>3. cur_id' \in Nat /\ cur_id <= cur_id' /\ cur_id' <= Sent
    BY <1>2, <2>1, <2>2
  <2>4. RestartsAhead' BY <2>1 DEF RestartsAhead
  <2>5. SlotsOfTheirNumber'
    <3> SUFFICES ASSUME NEW id \in BlockId, NEW p \in blocks_data'[id]
                 PROVE  p.block = id + 1 /\ p.block <= Sent
      BY <1>6 DEF SlotsOfTheirNumber
    <3>1. p \notin [i \in BlockId |-> {}][id] OBVIOUS
    <3> QED BY <1>7, <2>1, <3>1
  <2>6. block_to_dispatch \in Nat /\ block_to_dispatch <= block_to_dispatch'
    BY <1>1, <1>2, <2>1, <2>3 DEF LapInv, TypeOK, BlockId
  <2>7. HandedBehind'
    <3> SUFFICES ASSUME NEW i \in 1 .. Len(to_decode)
                 PROVE  OfItsNumber(to_decode[i]) /\ to_decode[i].id < cur_id'
      BY <2>1 DEF HandedBehind, OfItsNumber
    <3>1. OfItsNumber(to_decode[i]) /\ to_decode[i].id < cur_id
      BY DEF LapInv, HandedBehind
    <3>2. to_decode[i].id \in Nat
      BY DecodeFacts DEF Reassembled, BlockId
    <3> QED BY <1>2, <2>3, <3>1, <3>2
  <2>8. HeldBehind'
    <3> SUFFICES ASSUME NEW d \in Busy
                 PROVE  OfItsNumber(decoding[d]) /\ decoding[d].id < cur_id'
      BY DEF HeldBehind, Busy, decodeVars, OfItsNumber
    <3>1. OfItsNumber(decoding[d]) /\ decoding[d].id < cur_id
      BY DEF LapInv, HeldBehind
    <3>2. decoding[d].id \in Nat
      BY DEF Busy, DecodeTypeOK, Reassembled, BlockId
    <3> QED BY <1>2, <2>3, <3>1, <3>2
  <2>9. DispatchedBehind'
    <3> SUFFICES ASSUME NEW i \in 1 .. Len(to_dispatch), to_dispatch[i] # None
                 PROVE  to_dispatch[i].id < block_to_dispatch'
      BY DEF LapInv, DispatchedBehind, decodeVars, OfItsNumber
    <3>1. to_dispatch[i].id < block_to_dispatch
      BY DEF LapInv, DispatchedBehind
    <3>2. to_dispatch[i].id \in Nat
      BY DEF DecodeTypeOK, Reassembled, BlockId
    <3>3. block_to_dispatch' \in Nat BY <2>1, <2>3
    <3> QED BY <2>6, <3>1, <3>2, <3>3
  <2> QED BY <1>6, <2>1, <2>3, <2>4, <2>5, <2>7, <2>8, <2>9 DEF LapInv
<1> QED BY <1>8, <1>9

LEMMA LapReassemble ==
  ASSUME IInv, DecodeTypeOK, LapInv, Reassemble, Sent < IdCount,
         UNCHANGED decodeVars
  PROVE  LapInv'
<1> DEFINE block == Block(cur_id, blocks_data[cur_id])
           n == Len(to_decode)
<1>1. TypeOK /\ cur_id \in BlockId /\ Sent \in Nat
  BY PendingType DEF IInv, TypeOK
<1>2. /\ blocks_data' = [blocks_data EXCEPT ![cur_id] = {}]
      /\ to_decode' = Append(to_decode, block)
      /\ cur_id' = WrappingAdd(cur_id, 1)
      /\ ~ reset
      /\ UNCHANGED <<pending, reset, block_to_dispatch>>
  BY ReassembleEffect
<1>3. block.id = cur_id /\ block.packets = blocks_data[cur_id] BY DEF Block
<1>4. /\ blocks_data[cur_id] # {}
      /\ \A p \in blocks_data[cur_id] : p.block = cur_id + 1 /\ p.block <= Sent
  <2>1. CurrentIsComplete BY DEF Reassemble
  <2> QED BY <1>1, <2>1, CompleteIsNotEmpty DEF LapInv, SlotsOfTheirNumber
<1>5. cur_id + 1 <= Sent /\ cur_id \in Nat BY <1>1, <1>4 DEF BlockId
<1>6. cur_id' = cur_id + 1
  <2>1. 1 \in BlockId BY IdCountAssumption DEF BlockId
  <2>2. cur_id + 1 < IdCount BY <1>1, <1>5, IdCountAssumption
  <2> QED BY <1>1, <1>2, <2>1, <2>2, WrapFact
<1> HIDE DEF block
<1>7. /\ n \in Nat /\ Len(to_decode') = n + 1 /\ to_decode'[n + 1] = block
      /\ \A i \in 1 .. n : to_decode'[i] = to_decode[i]
  BY <1>1, <1>2 DEF TypeOK
<1>8. OfItsNumber(block) BY <1>3, <1>4 DEF OfItsNumber
<1>9. HandedBehind'
  <2> SUFFICES ASSUME NEW i \in 1 .. n + 1
               PROVE  /\ OfItsNumber(to_decode'[i])
                      /\ to_decode'[i].id < cur_id + 1
    BY <1>6, <1>7 DEF HandedBehind, OfItsNumber
  <2>1. CASE i = n + 1 BY <1>3, <1>5, <1>7, <1>8, <2>1
  <2>2. CASE i # n + 1
    <3>1. i \in 1 .. n BY <1>7, <2>2
    <3>2. OfItsNumber(to_decode[i]) /\ to_decode[i].id < cur_id
      BY <3>1 DEF LapInv, HandedBehind
    <3>3. to_decode[i].id \in Nat
      BY <3>1, DecodeFacts DEF Reassembled, BlockId
    <3> QED BY <1>5, <1>7, <3>1, <3>2, <3>3
  <2> QED BY <2>1, <2>2
<1>10. HeldBehind'
  <2> SUFFICES ASSUME NEW d \in Busy
               PROVE  OfItsNumber(decoding[d]) /\ decoding[d].id < cur_id + 1
    BY <1>6 DEF HeldBehind, Busy, decodeVars, OfItsNumber
  <2>1. OfItsNumber(decoding[d]) /\ decoding[d].id < cur_id
    BY DEF LapInv, HeldBehind
  <2>2. decoding[d].id \in Nat
    BY DEF Busy, DecodeTypeOK, Reassembled, BlockId
  <2> QED BY <1>5, <2>1, <2>2
<1>11. DispatchedBehind'
  BY <1>2 DEF LapInv, DispatchedBehind, decodeVars, OfItsNumber
<1>12. SlotsOfTheirNumber'
  <2>1. Sent' = Sent BY <1>2 DEF Sent
  <2>2. \A id \in BlockId : blocks_data'[id] \subseteq blocks_data[id]
    BY <1>1, <1>2 DEF TypeOK
  <2> QED BY <2>1, <2>2 DEF LapInv, SlotsOfTheirNumber
<1>13. RestartsAhead' BY <1>2 DEF RestartsAhead
<1>14. cur_id' <= Sent' /\ block_to_dispatch' <= cur_id'
  <2>1. Sent' = Sent /\ block_to_dispatch' = block_to_dispatch
    BY <1>2 DEF Sent
  <2>2. block_to_dispatch \in Nat /\ block_to_dispatch <= cur_id
    BY <1>1 DEF LapInv, TypeOK, BlockId
  <2> QED BY <1>5, <1>6, <2>1, <2>2
<1> QED BY <1>9, <1>10, <1>11, <1>12, <1>13, <1>14 DEF LapInv

LEMMA LapDecoder ==
  ASSUME TypeInv, LapInv, NEW d \in Decoders, DecodeStep(d), Sent < IdCount
  PROVE  LapInv'
<1>1. /\ DecodeTypeOK /\ TypeOK /\ cur_id \in Nat /\ block_to_dispatch \in Nat
      /\ to_dispatch \in Seq(Reassembled \cup {None}) /\ Len(to_dispatch) \in Nat
      /\ Sent \in Nat
  BY PendingType DEF TypeInv, DecodeTypeOK, TypeOK, BlockId
<1>2. /\ UNCHANGED <<pending, lossy, blocks_data, blocks_ignore, cur_id, reset,
                     to_decode, first>>
      /\ Sent' = Sent
  BY <1>1, DecoderEffect DEF Sent
<1>3. RestartsAhead' /\ SlotsOfTheirNumber' /\ HandedBehind'
  BY <1>2 DEF LapInv, RestartsAhead, SlotsOfTheirNumber, HandedBehind,
              OfItsNumber
<1>4. CASE DecodeRecv(d)
  <2>1. /\ taken + 1 \in 1 .. Len(to_decode)
        /\ decoding' = [decoding EXCEPT ![d] = to_decode[taken + 1]]
        /\ to_dispatch' = to_dispatch
        /\ block_to_dispatch' = block_to_dispatch
    BY <1>1, <1>4, DecodeFacts DEF DecodeRecv
  <2>2. HeldBehind'
    <3> SUFFICES ASSUME NEW c \in Decoders, decoding'[c] # None
                 PROVE  OfItsNumber(decoding'[c]) /\ decoding'[c].id < cur_id
      BY <1>2 DEF HeldBehind, Busy, OfItsNumber
    <3>1. CASE c = d
      <4>1. decoding'[c] = to_decode[taken + 1]
        BY <1>1, <2>1, <3>1 DEF DecodeTypeOK
      <4> QED BY <2>1, <4>1 DEF LapInv, HandedBehind
    <3>2. CASE c # d
      <4>1. decoding'[c] = decoding[c] BY <1>1, <2>1, <3>2 DEF DecodeTypeOK
      <4> QED BY <4>1 DEF LapInv, HeldBehind, Busy
    <3> QED BY <3>1, <3>2
  <2>3. DispatchedBehind'
    BY <2>1 DEF LapInv, DispatchedBehind, OfItsNumber
  <2> QED BY <1>2, <1>3, <2>1, <2>2, <2>3 DEF LapInv
<1>5. ASSUME decoding' = [decoding EXCEPT ![d] = None]
      PROVE  HeldBehind'
  <2>1. \A c \in Decoders : decoding'[c] # None => decoding'[c] = decoding[c]
    BY <1>1, <1>5 DEF DecodeTypeOK
  <2> QED BY <1>2, <2>1 DEF LapInv, HeldBehind, Busy, OfItsNumber
<1>6. ASSUME NEW message \in Reassembled \cup {None},
             to_dispatch' = Append(to_dispatch, message),
             \/ message = None /\ block_to_dispatch' = block_to_dispatch
             \/ /\ OfItsNumber(message) /\ message.id = block_to_dispatch
                /\ block_to_dispatch' = block_to_dispatch + 1
      PROVE  DispatchedBehind'
  <2> DEFINE n == Len(to_dispatch)
  <2>1. /\ Len(to_dispatch') = n + 1 /\ to_dispatch'[n + 1] = message
        /\ \A i \in 1 .. n : to_dispatch'[i] = to_dispatch[i]
    BY <1>1, <1>6
  <2>2. block_to_dispatch' \in Nat /\ block_to_dispatch <= block_to_dispatch'
    BY <1>1, <1>6
  <2>3. \A i \in 1 .. n : to_dispatch[i] # None =>
          /\ OfItsNumber(to_dispatch[i])
          /\ to_dispatch[i].id \in Nat
          /\ to_dispatch[i].id < block_to_dispatch
    BY <1>1 DEF LapInv, DispatchedBehind, Reassembled, BlockId
  <2> SUFFICES ASSUME NEW i \in 1 .. n + 1, to_dispatch'[i] # None
               PROVE  /\ OfItsNumber(to_dispatch'[i])
                      /\ to_dispatch'[i].id < block_to_dispatch'
                      /\ \A j \in 1 .. i - 1 : to_dispatch'[j] # None =>
                           to_dispatch'[j].id < to_dispatch'[i].id
    BY <2>1 DEF DispatchedBehind, OfItsNumber
  <2>4. CASE i = n + 1
    <3>1. /\ OfItsNumber(message) /\ message.id = block_to_dispatch
          /\ block_to_dispatch' = block_to_dispatch + 1
      BY <1>6, <2>1, <2>4
    <3>2. \A j \in 1 .. i - 1 : j \in 1 .. n BY <1>1, <2>4
    <3> QED BY <1>1, <2>1, <2>3, <2>4, <3>1, <3>2
  <2>5. CASE i # n + 1
    <3>1. /\ i \in 1 .. n
          /\ \A j \in 1 .. i - 1 : j \in 1 .. n
      BY <1>1, <2>5
    <3>2. \A j \in 1 .. i - 1 : to_dispatch[j] # None =>
            to_dispatch[j].id < to_dispatch[i].id
      BY <2>1, <3>1 DEF LapInv, DispatchedBehind
    <3> QED BY <1>1, <2>1, <2>2, <2>3, <3>1, <3>2
  <2> QED BY <2>4, <2>5
<1>7. CASE DecodeFail(d)
  <2>1. /\ decoding' = [decoding EXCEPT ![d] = None]
        /\ to_dispatch' = Append(to_dispatch, None)
        /\ block_to_dispatch' = block_to_dispatch
    BY <1>7 DEF DecodeFail
  <2>2. HeldBehind' BY <1>5, <2>1
  <2>3. DispatchedBehind' BY <1>6, <2>1
  <2> QED BY <1>2, <1>3, <2>1, <2>2, <2>3 DEF LapInv
<1>8. CASE DecodeSend(d)
  <2> DEFINE message == decoding[d]
  <2>1. /\ message # None /\ message.id = block_to_dispatch
        /\ decoding' = [decoding EXCEPT ![d] = None]
        /\ to_dispatch' = Append(to_dispatch, message)
        /\ block_to_dispatch' = WrappingAdd(block_to_dispatch, 1)
        /\ message \in Reassembled \cup {None}
    BY <1>1, <1>8 DEF DecodeSend, PassOn, DecodeTypeOK
  <2>2. OfItsNumber(message) /\ message.id < cur_id
    BY <2>1 DEF LapInv, HeldBehind, Busy
  <2>3. block_to_dispatch' = block_to_dispatch + 1
    <3>1. 1 \in BlockId /\ block_to_dispatch \in BlockId
      BY <1>1, IdCountAssumption DEF TypeOK, BlockId
    <3>2. cur_id <= Sent BY DEF LapInv
    <3>3. block_to_dispatch + 1 < IdCount
      BY <1>1, <2>1, <2>2, <3>2, IdCountAssumption
    <3> QED BY <2>1, <3>1, <3>3, WrapFact
  <2>4. HeldBehind' BY <1>5, <2>1
  <2> HIDE DEF message
  <2>5. DispatchedBehind' BY <1>6, <2>1, <2>2, <2>3
  <2>6. block_to_dispatch' <= cur_id' BY <1>1, <1>2, <2>1, <2>2, <2>3
  <2> QED BY <1>2, <1>3, <2>4, <2>5, <2>6 DEF LapInv
<1> QED BY <1>4, <1>7, <1>8 DEF DecodeStep

LEMMA LapStep ==
  ASSUME TypeInv, LapInv, [DecodeNext]_receiveVars, Sent < IdCount
  PROVE  LapInv'
<1>1. IInv /\ DecodeTypeOK BY DEF TypeInv
<1>2. CASE UNCHANGED receiveVars
  BY <1>2 DEF receiveVars, restOfReblock, decodeVars, LapInv, RestartsAhead,
              SlotsOfTheirNumber, HandedBehind, HeldBehind, Busy,
              DispatchedBehind, OfItsNumber, Sent
<1>3. CASE ReblockStep
  BY <1>1, <1>3, LapSendBlock, LapTimeout, LapReceive, LapReassemble
     DEF ReblockStep, DecodeTimeout
<1>4. ASSUME NEW d \in Decoders, DecodeStep(d) PROVE LapInv'
  BY <1>4, LapDecoder
<1> QED BY <1>2, <1>3, <1>4 DEF DecodeNext
-----------------------------------------------------------------------------
(* On a link that loses no more than the repair packets the worker does    *)
(* not start afresh between the first block and the first hand-over: a     *)
(* silence comes after enough packets of that block.                       *)
FirstInv ==
  /\ first # <<>> => Sent > 0
  /\ ~ lossy /\ first # <<>> /\ first[1] = 1 =>
       IF to_decode = <<>> THEN Len(first) = 1 /\ ~ reset
                           ELSE to_decode[1].epoch = 1

LEMMA FirstInit == DecodeInit => FirstInv
BY DEF DecodeInit, Init, FirstInv

LEMMA FirstTimeout ==
  ASSUME IInv, SlotInv, FirstInv, Timeout
  PROVE  FirstInv'
<1>1. TypeOK /\ Sent \in Nat BY PendingType DEF IInv
<1>2. UNCHANGED <<to_decode, first>> BY TimeoutEffect
<1>3. Sent' = Sent
  <2>1. pending' = [s \in 1 .. Sent |-> 0] BY DEF Timeout
  <2> QED BY <1>1, <2>1 DEF Sent
<1>4. ~ CurrentIsComplete /\ (~ lossy' => ~ lossy /\ \A s \in 1 .. Sent : Enough(s))
  BY DEF Timeout
<1> SUFFICES ASSUME ~ lossy', first # <<>>, first[1] = 1, to_decode = <<>>
             PROVE  FALSE
  BY <1>2, <1>3, <1>4 DEF FirstInv
<1>5. ~ lossy /\ ~ reset /\ Len(first) = 1 /\ Sent > 0 BY <1>4 DEF FirstInv
<1>6. DueBlock = 1 BY <1>5 DEF DueBlock
<1>7. /\ cur_id = IdOf(1)
      /\ Holds(pending, blocks_data[IdOf(1 + 0)], 1 + 0)
  BY <1>5, <1>6, LinkFacts DEF SlotInv
<1>8. 1 > Sent - MaxSkew
  BY <1>1, <1>4, <1>5, <1>6, DueIsRecent
<1>9. blocks_data[cur_id] = Arrived(pending, 1)
  BY <1>1, <1>5, <1>7, <1>8 DEF Holds, Sent
<1>10. pending[1] \in 0 .. NbPackets /\ 1 \in 1 .. Sent
  BY <1>1, <1>5, PendingType
<1>11. Cardinality(blocks_data[cur_id]) = NbPackets - pending[1]
  BY <1>9, <1>10, ArrivedCardinality
<1> QED BY <1>4, <1>10, <1>11 DEF Enough, CurrentIsComplete

LEMMA FirstReceive ==
  ASSUME IInv, IdInv, FirstInv, ReceiveSome
  PROVE  FirstInv'
<1>1. PICK n \in 1 .. MaxBatch : \E b \in [1 .. n -> 1 .. Sent] : Receive(b)
  BY DEF ReceiveSome
<1>2. PICK batch \in [1 .. n -> 1 .. Sent] : Receive(batch)
  BY <1>1
<1>3. TypeOK /\ Sent \in Nat /\ n \in Nat /\ n > 0
  BY PendingType, LinkAssumption DEF IInv
<1>4. Sent' = Sent
  <2>1. pending' = [s \in 1 .. Sent |-> pending[s] - Count(batch, s)]
    BY <1>2 DEF Receive
  <2> QED BY <1>3, <2>1 DEF Sent
<1>5. UNCHANGED <<lossy, to_decode>> /\ reset' = FALSE BY <1>2 DEF Receive
<1>6. Sent > 0
  <2>1. batch[1] \in 1 .. Sent BY <1>3
  <2> QED BY <1>3, <2>1
<1>7. CASE ~ reset
  <2>1. UNCHANGED first BY <1>2, <1>7 DEF Receive
  <2> QED BY <1>4, <1>5, <1>6, <2>1 DEF FirstInv
<1>8. CASE reset
  <2>1. first' = Append(first, batch[1]) BY <1>2, <1>8 DEF Receive
  <2>2. CASE first = <<>>
    <3>1. to_decode = <<>>
      <4>1. Len(to_decode) = 0
        BY <1>3, <2>2, LogTypes DEF IdInv
      <4> QED BY <1>3, <4>1, LogTypes
    <3>2. Len(first') = 1 BY <2>1, <2>2
    <3> QED BY <1>4, <1>5, <1>6, <3>1, <3>2 DEF FirstInv
  <2>3. CASE first # <<>>
    <3>1. first'[1] = first[1] /\ Len(first) > 0
      BY <1>3, <2>1, <2>3, LogTypes DEF TypeOK
    <3> QED BY <1>4, <1>5, <1>6, <1>8, <2>3, <3>1 DEF FirstInv
  <2> QED BY <2>2, <2>3
<1> QED BY <1>7, <1>8

LEMMA FirstReassemble ==
  ASSUME IInv, FirstInv, Reassemble
  PROVE  FirstInv'
<1>1. TypeOK BY DEF IInv
<1>2. /\ to_decode' = Append(to_decode, Block(cur_id, blocks_data[cur_id]))
      /\ UNCHANGED <<first, pending, lossy>>
  BY ReassembleEffect
<1>3. Block(cur_id, blocks_data[cur_id]).epoch = Len(first) BY DEF Block
<1>4. PICK block : /\ to_decode' = Append(to_decode, block)
                   /\ block.epoch = Len(first)
  BY <1>2, <1>3
<1>5. to_decode \in Seq(Reassembled) BY <1>1 DEF TypeOK
<1>6. to_decode' # <<>> BY <1>4, <1>5
<1>7. to_decode = <<>> => to_decode'[1] = block BY <1>4
<1>8. ASSUME to_decode # <<>> PROVE to_decode'[1] = to_decode[1]
  <2>1. Len(to_decode) \in Nat /\ Len(to_decode) > 0 BY <1>5, <1>8
  <2> QED BY <1>4, <1>5, <2>1
<1> QED BY <1>2, <1>4, <1>6, <1>7, <1>8 DEF FirstInv, Sent

LEMMA FirstStep ==
  ASSUME TypeInv, SlotInv, FirstInv, [DecodeNext]_receiveVars
  PROVE  FirstInv'
<1>1. IInv /\ IdInv /\ TypeOK BY DEF TypeInv, IInv
<1>2. CASE ReblockStep
  <2>1. CASE SendBlock
    <3>1. Sent' = Sent + 1 /\ Sent \in Nat /\ UNCHANGED reblockVars
          /\ (~ lossy' => ~ lossy)
      BY <1>1, <2>1, SendBlockEffect
    <3> QED BY <3>1 DEF FirstInv, reblockVars
  <2> QED BY <1>1, <1>2, <2>1, FirstTimeout, FirstReceive, FirstReassemble
          DEF ReblockStep, DecodeTimeout
<1>3. CASE UNCHANGED <<pending, lossy, reset, to_decode, first>>
  BY <1>3 DEF FirstInv, Sent
<1>4. ASSUME NEW d \in Decoders, DecodeStep(d)
      PROVE  UNCHANGED <<pending, lossy, reset, to_decode, first>>
  BY <1>4, DecoderEffect DEF TypeInv
<1> QED BY <1>2, <1>3, <1>4 DEF DecodeNext, receiveVars, restOfReblock

(* The logs of the receiver only grow, and what was lost or has failed     *)
(* stays so.                                                               *)
LEMMA LogsGrow ==
  ASSUME TypeInv, [DecodeNext]_receiveVars
  PROVE  /\ ~ lossy' => ~ lossy
         /\ decode_faults' = 0 => decode_faults = 0
         /\ first # <<>> => first' # <<>> /\ first'[1] = first[1]
         /\ \/ UNCHANGED to_decode
            \/ /\ Len(to_decode') = Len(to_decode) + 1
               /\ \A i \in 1 .. Len(to_decode) : to_decode'[i] = to_decode[i]
<1>1. IInv /\ TypeOK /\ DecodeTypeOK BY DEF TypeInv, IInv
<1>2. CASE ReblockStep
  <2>1. [Next]_vars BY <1>2 DEF ReblockStep, DecodeTimeout, Next
  <2>2. ~ lossy' => ~ lossy
    BY <1>1, <1>2, ReassembleEffect
       DEF ReblockStep, SendBlock, DecodeTimeout, Timeout, ReceiveSome, Receive
  <2>3. UNCHANGED decode_faults BY <1>2 DEF ReblockStep, decodeVars
  <2>4. first # <<>> => first' # <<>> /\ first'[1] = first[1]
    <3>1. UNCHANGED first \/ \E s : first' = Append(first, s)
      BY <1>1, <1>2, ReassembleEffect
         DEF ReblockStep, SendBlock, reblockVars, DecodeTimeout, Timeout,
             ReceiveSome, Receive
    <3>2. first \in Seq(Nat \ {0}) BY <1>1 DEF TypeOK
    <3>3. ASSUME NEW s, first' = Append(first, s), first # <<>>
          PROVE  first' # <<>> /\ first'[1] = first[1]
      <4>1. Len(first) \in Nat /\ Len(first) > 0 BY <3>2, <3>3
      <4>2. Len(first') = Len(first) + 1 BY <3>2, <3>3
      <4> QED BY <3>2, <3>3, <4>1, <4>2
    <3> QED BY <3>1, <3>3
  <2> QED BY <1>1, <2>1, <2>2, <2>3, <2>4, HandedOverGrows
<1>3. CASE UNCHANGED receiveVars
  BY <1>3 DEF receiveVars, restOfReblock, decodeVars
<1>4. ASSUME NEW d \in Decoders, DecodeStep(d)
      PROVE  /\ UNCHANGED <<lossy, to_decode, first>>
             /\ decode_faults' = 0 => decode_faults = 0
  <2>1. decode_faults' = decode_faults \/ decode_faults' = decode_faults + 1
    BY <1>4 DEF DecodeStep, DecodeRecv, DecodeSend, DecodeFail, PassOn
  <2>2. decode_faults \in Nat BY <1>1, DecodeFacts
  <2> QED BY <1>1, <1>4, <2>1, <2>2, DecoderEffect
<1> QED BY <1>2, <1>3, <1>4 DEF DecodeNext
=============================================================================
