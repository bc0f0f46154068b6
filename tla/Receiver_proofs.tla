--------------------------- MODULE Receiver_proofs ---------------------------
(***************************************************************************)
(* Proofs about Receiver, for any traffic of less than a lap.  The two     *)
(* halves are proved in modules of their own, of which the lemmas about    *)
(* one step are used here: DP is Decode as D is, and XP is Dispatch as X   *)
(* is, except that next is told by what the decoders have sent.            *)
(***************************************************************************)
EXTENDS Receiver, FiniteSetTheorems, SequenceTheorems, TLAPS

(* The positions of the blocks of a transfer that the decoders have sent.  *)
SentOf(t) ==
  {Decoded(to_dispatch[i]).pos :
     i \in {j \in 1 .. Len(to_dispatch) :
              /\ to_dispatch[j] # None
              /\ Decoded(to_dispatch[j]).transfer = t}}

(* The position after the last of them.                                    *)
IsReached(t, n) ==
  /\ \A p \in SentOf(t) : p < n
  /\ n > 0 => n - 1 \in SentOf(t)

Reached ==
  [t \in DOMAIN Transfers |->
     CHOOSE n \in 0 .. Transfers[t].last + 1 : IsReached(t, n)]

DP == INSTANCE Decode_proofs

XP == INSTANCE Dispatch_proofs
  WITH run <- 1, next <- Reached, reported <- 0, damaged <- {}, MaxLost <- 0,
       for_dispatch <- Undispatched

(* Less than a lap has been sent.                                          *)
DecodeInv ==
  /\ DP!TypeInv
  /\ DP!LapInv
  /\ DP!Sent <= Len(Traffic)

ReachedInv ==
  \A t \in XP!T : \E n \in 0 .. Transfers[t].last + 1 : IsReached(t, n)

(* The blocks of a transfer that dispatch has received.                    *)
OwnBlocks(t) ==
  {b \in XP!Blocks :
     /\ b.transfer = t
     /\ \E i \in 1 .. dispatched :
          to_dispatch[i] # None /\ Decoded(to_dispatch[i]) = b}

(* What was written or is queued for a transfer comes from those, in their *)
(* order; the Abort of dispatch, which belongs to no transfer, aside.      *)
QueuedInv(t) ==
  \A i \in 1 .. Len(queue[t]) :
    \/ queue[t][i] = XP!AbortBlock(Transfers[t].client)
    \/ /\ queue[t][i] \in OwnBlocks(t)
       /\ \A j \in 1 .. i - 1 :
            queue[t][j].transfer = t => queue[t][j].pos < queue[t][i].pos
       /\ \A j \in 1 .. Len(written[t]) : written[t][j].pos < queue[t][i].pos

WrittenInv(t) ==
  \A i \in 1 .. Len(written[t]) : written[t][i] \in OwnBlocks(t)

DeliveryInv == \A t \in XP!T : QueuedInv(t) /\ WrittenInv(t)

ReceiverInv ==
  /\ DecodeInv
  /\ dispatched \in 0 .. Len(to_dispatch)
  /\ ReachedInv
  /\ XP!WorkersInv
  /\ XP!ServiceInv
  /\ DeliveryInv
-----------------------------------------------------------------------------
(* The first half: what Decode_proofs says of D.                           *)
LEMMA DecodeInits == Init => DP!DecodeInit
BY DEF Init, D!DecodeInit, D!Init, DP!DecodeInit, DP!Init, D!BlockId, DP!BlockId

LEMMA DecodeTypes == DP!TypeInv => D!DecodeTypeOK
BY DEF DP!TypeInv, DP!DecodeTypeOK, DP!TypeOK, D!DecodeTypeOK, D!TypeOK,
       D!BlockId, DP!BlockId, D!Packet, DP!Packet, D!Reassembled, DP!Reassembled

LEMMA DecodeStepsD ==
  ASSUME NEW d PROVE DecodeStep(d) => DP!DecodeStep(d)
BY DEF DecodeStep, D!DecodeStep, D!DecodeRecv, D!DecodeSend, D!DecodeFail,
       D!PassOn, DP!DecodeStep, DP!DecodeRecv, DP!DecodeSend, DP!DecodeFail,
       DP!PassOn, D!restOfReblock, DP!restOfReblock, D!WrappingAdd, DP!WrappingAdd

LEMMA ReblockSteps == ReblockStep => DP!ReblockStep
<1> USE DEF D!Sent, DP!Sent, D!reblockVars, DP!reblockVars, D!linkVars,
            DP!linkVars, D!BlockId, DP!BlockId, D!WrappingAdd, DP!WrappingAdd,
            D!WindowWidth, DP!WindowWidth, D!IdOf, DP!IdOf,
            D!Cardinality, DP!Cardinality, D!CurrentIsComplete,
            DP!CurrentIsComplete
<1>1. D!SendBlock => DP!SendBlock
  BY DEF D!SendBlock, DP!SendBlock, D!Enough, DP!Enough
<1>2. D!DecodeTimeout => DP!DecodeTimeout
  BY DEF D!DecodeTimeout, DP!DecodeTimeout, D!Timeout, DP!Timeout,
         D!DecodersWait, DP!DecodersWait, D!CurrentIsComplete,
         DP!CurrentIsComplete, D!Enough, DP!Enough, D!Error, DP!Error
<1>3. D!ReceiveSome => DP!ReceiveSome
  BY DEF D!ReceiveSome, DP!ReceiveSome, D!Receive, DP!Receive,
         D!CurrentIsComplete, DP!CurrentIsComplete, D!Count, DP!Count, D!Push, 
         DP!Push, D!OpenWindow, DP!OpenWindow, D!DispatchFrom, DP!DispatchFrom,
         D!Packets, DP!Packets
<1>4. D!Reassemble => DP!Reassemble
  BY DEF D!Reassemble, DP!Reassemble, D!CurrentIsComplete,
         DP!CurrentIsComplete, D!SlideWindow, DP!SlideWindow, D!Block, DP!Block,
         D!Error, DP!Error
<1> QED BY <1>1, <1>2, <1>3, <1>4
        DEF ReblockStep, DP!ReblockStep, decodeVars, DP!decodeVars
-----------------------------------------------------------------------------
(* The assumptions of the two halves, in their words.                      *)
LEMMA DecodeAssumptions ==
  /\ IdCount \in Nat /\ IdCount > 3
  /\ NbPackets \in Nat /\ MinPackets \in 1 .. NbPackets
  /\ MaxSkew \in Nat \ {0} /\ MaxBatch \in Nat \ {0}
  /\ DP!IsFiniteSet(Decoders) /\ DP!Cardinality(Decoders) \in 1 .. IdCount - 1
  /\ MaxDecodeFaults \in Nat /\ SlowDecoders \in BOOLEAN
  /\ None \notin DP!Reassembled
BY HalvesAssumption
   DEF D!Reassembled, DP!Reassembled, D!BlockId, DP!BlockId, D!Packet,
       DP!Packet, DP!IsFiniteSet, DP!Cardinality, IsFiniteSet, Cardinality

LEMMA DispatchAssumptions ==
  /\ Transfers \in Seq([client : Nat, run : Nat, last : Nat \ {0},
                         ends : {"end", "abort"}])
  /\ \A s, t \in DOMAIN Transfers :
       /\ Transfers[s].run = Transfers[t].run
       /\ Transfers[s].client = Transfers[t].client
       => s = t
  /\ XP!IsFiniteSet(Workers) /\ Workers # {}
  /\ AbortTimeout \in BOOLEAN
  /\ MaxFaults \in Nat /\ 0 \in Nat
  /\ None \notin XP!T /\ None \notin XP!Blocks /\ None \notin XP!Outcomes
BY HalvesAssumption
   DEF X!T, XP!T, X!Blocks, XP!Blocks, X!Block, XP!Block, X!Type, XP!Type,
       X!AbortBlock, XP!AbortBlock, X!ClientIds, XP!ClientIds, X!Outcomes,
       XP!Outcomes, XP!IsFiniteSet, IsFiniteSet

LEMMA DecodeInvInit == Init => DecodeInv
<1> SUFFICES ASSUME Init PROVE DecodeInv OBVIOUS
<1>1. DP!DecodeInit BY DecodeInits
<1>2. DP!TypeInv BY <1>1, DecodeAssumptions, DP!TypeInit
<1>3. DP!LapInv BY <1>1, DecodeAssumptions, DP!LapInit
<1>4. DP!Sent = 0 BY DEF Init, D!DecodeInit, D!Init, DP!Sent
<1>5. Len(Traffic) \in Nat BY TrafficAssumption
<1> QED BY <1>2, <1>3, <1>4, <1>5 DEF DecodeInv

LEMMA FirstHalfSteps == [Next]_vars => [DP!DecodeNext]_(DP!receiveVars)
<1> SUFFICES ASSUME [Next]_vars PROVE [DP!DecodeNext]_(DP!receiveVars)
  OBVIOUS
<1>1. CASE ReblockStep BY <1>1, ReblockSteps DEF DP!DecodeNext
<1>2. CASE \E d \in Decoders : DecodeStep(d)
  BY <1>2, DecodeStepsD DEF DP!DecodeNext
<1>3. CASE UNCHANGED receiveVars
  BY <1>3 DEF receiveVars, decodeVars, DP!receiveVars, DP!restOfReblock,
              DP!decodeVars
<1> QED BY <1>1, <1>2, <1>3 DEF Next, vars, DispatchStep, WorkerStep

(* No more than the traffic is sent.                                       *)
LEMMA DecodeInvStep ==
  ASSUME DecodeInv, [Next]_vars
  PROVE  DecodeInv'
<1>1. [DP!DecodeNext]_(DP!receiveVars) BY FirstHalfSteps
<1>2. /\ DP!TypeInv /\ DP!LapInv
      /\ DP!Sent \in Nat /\ DP!Sent <= Len(Traffic) /\ Len(Traffic) \in Nat
  <2>1. pending \in Seq(0 .. NbPackets)
    BY DEF DecodeInv, DP!TypeInv, DP!DecodeTypeOK, DP!TypeOK
  <2> QED BY <2>1, TrafficAssumption DEF DecodeInv, DP!Sent
<1>3. DP!Sent < IdCount BY <1>2, TrafficAssumption, HalvesAssumption
<1>4. DP!TypeInv' BY <1>1, <1>2, DecodeAssumptions, DP!TypeStep
<1>5. DP!LapInv' BY <1>1, <1>2, <1>3, DecodeAssumptions, DP!LapStep
<1>6. DP!Sent' <= Len(Traffic)
  <2>1. CASE D!Sent < Len(Traffic) /\ D!SendBlock
    <3> DEFINE n == DP!Sent
    <3>1. n \in Nat /\ n < Len(Traffic) BY <1>2, <2>1 DEF D!Sent, DP!Sent
    <3>2. Len(pending') = n + 1
      <4>1. \E f : pending' = [s \in 1 .. n + 1 |-> f[s]]
        BY <2>1 DEF D!SendBlock, D!Sent, DP!Sent
      <4> HIDE DEF n
      <4> QED BY <3>1, <4>1
    <3> QED BY <1>2, <3>1, <3>2 DEF DP!Sent
  <2>2. CASE D!DecodeTimeout \/ D!ReceiveSome
    <3> DEFINE n == DP!Sent
    <3>1. \E f : pending' = [s \in 1 .. n |-> f[s]]
      BY <2>2 DEF D!DecodeTimeout, D!Timeout, D!ReceiveSome, D!Receive, D!Sent,
                  DP!Sent
    <3>2. Len(pending') = n
      <4>1. n \in Nat BY <1>2
      <4> HIDE DEF n
      <4> QED BY <3>1, <4>1
    <3> QED BY <1>2, <3>2 DEF DP!Sent
  <2>3. CASE UNCHANGED pending BY <1>2, <2>3 DEF DP!Sent
  <2>4. \/ D!Sent < Len(Traffic) /\ D!SendBlock
        \/ D!DecodeTimeout \/ D!ReceiveSome
        \/ UNCHANGED pending
    BY DEF Next, vars, ReblockStep, DecodeStep, DispatchStep, WorkerStep,
           receiveVars, D!Reassemble, D!linkVars, D!DecodeStep, D!DecodeRecv,
           D!DecodeFail, D!DecodeSend, D!PassOn, D!restOfReblock
  <2> QED BY <2>1, <2>2, <2>3, <2>4
<1> QED BY <1>4, <1>5, <1>6 DEF DecodeInv

LEMMA TransferFacts ==
  /\ XP!T \subseteq Nat \ {0}
  /\ \A t \in XP!T : /\ Transfers[t].client \in XP!ClientIds
                     /\ Transfers[t].last \in Nat \ {0}
                     /\ Transfers[t].run = 1
BY DispatchAssumptions, TrafficAssumption, XP!TransferFacts DEF XP!T
-----------------------------------------------------------------------------
(* What the traffic is, and which blocks of it the decoders have sent.     *)
LEMMA TrafficFacts ==
  /\ Traffic \in Seq(XP!Blocks) /\ Len(Traffic) \in Nat
  /\ \A s \in 1 .. Len(Traffic) :
       \E t \in XP!T : \E pos \in 0 .. Transfers[t].last :
         /\ Traffic[s] = XP!Block(t, pos)
         /\ \A r \in 1 .. s - 1 :
              Traffic[r].transfer = t => Traffic[r].pos < pos
<1>1. X!Blocks = XP!Blocks
  BY DEF X!T, XP!T, X!Blocks, XP!Blocks, X!Block, XP!Block, X!Type, XP!Type,
         X!AbortBlock, XP!AbortBlock, X!ClientIds, XP!ClientIds
<1>2. \A t, pos : X!Block(t, pos) = XP!Block(t, pos)
  BY DEF X!Block, XP!Block, X!Type, XP!Type
<1> QED BY <1>1, <1>2, TrafficAssumption DEF XP!T

LEMMA BlockFacts ==
  /\ \A t \in XP!T : \A p \in 0 .. Transfers[t].last :
       /\ XP!Block(t, p) \in XP!Blocks /\ XP!Block(t, p) # None
       /\ XP!Block(t, p).transfer = t /\ XP!Block(t, p).pos = p
       /\ XP!Block(t, p).client = Transfers[t].client
       /\ XP!Block(t, p).type = "start" <=> p = 0
       /\ XP!Block(t, p).type \in {"start", "data", "end", "abort"}
  /\ \A c : /\ XP!AbortBlock(c).transfer = 0 /\ XP!AbortBlock(c).pos = 0
            /\ XP!AbortBlock(c).type = "abort"
  /\ \A c \in XP!ClientIds : XP!AbortBlock(c) \in XP!Blocks
<1>1. \A t \in XP!T : \A p \in 0 .. Transfers[t].last :
        /\ XP!Block(t, p) \in XP!Blocks
        /\ XP!Block(t, p).type \in {"start", "data", "end", "abort"}
        /\ XP!Block(t, p).type = "start" <=> p = 0
  BY DispatchAssumptions, XP!BlockFacts
<1>2. \A c \in XP!ClientIds : XP!AbortBlock(c) \in XP!Blocks
  BY DispatchAssumptions, XP!BlockFacts
<1> QED BY <1>1, <1>2, DispatchAssumptions DEF XP!Block, XP!AbortBlock

(* The blocks that decoders send are blocks of the traffic, further and    *)
(* further ahead in it.                                                    *)
Place(i) == to_dispatch[i].id + 1

LEMMA DecodedFacts ==
  ASSUME DecodeInv
  PROVE  /\ to_dispatch \in Seq(DP!Reassembled \cup {None})
         /\ Len(to_dispatch) \in Nat
         /\ \A i \in 1 .. Len(to_dispatch) : to_dispatch[i] # None =>
              /\ Place(i) \in 1 .. Len(Traffic)
              /\ Decoded(to_dispatch[i]) = Traffic[Place(i)]
              /\ Decoded(to_dispatch[i]) \in XP!Blocks
              /\ Decoded(to_dispatch[i]) # None
              /\ Decoded(to_dispatch[i]).transfer \in XP!T
              /\ \A j \in 1 .. i - 1 :
                   to_dispatch[j] # None => Place(j) < Place(i)
<1>1. /\ to_dispatch \in Seq(DP!Reassembled \cup {None})
      /\ Len(to_dispatch) \in Nat
      /\ cur_id \in Nat /\ block_to_dispatch \in Nat /\ DP!Sent \in Nat
      /\ \A m \in DP!Reassembled : m.id \in Nat
  <2>1. pending \in Seq(0 .. NbPackets)
    BY DEF DecodeInv, DP!TypeInv, DP!DecodeTypeOK, DP!TypeOK
  <2> QED BY <2>1, HalvesAssumption DEF DecodeInv, DP!TypeInv, DP!DecodeTypeOK, DP!TypeOK,
                      DP!BlockId, DP!Reassembled, DP!Sent
<1> SUFFICES ASSUME NEW i \in 1 .. Len(to_dispatch), to_dispatch[i] # None
             PROVE  /\ Place(i) \in 1 .. Len(Traffic)
                    /\ Decoded(to_dispatch[i]) = Traffic[Place(i)]
                    /\ Decoded(to_dispatch[i]) \in XP!Blocks
                    /\ Decoded(to_dispatch[i]) # None
                    /\ Decoded(to_dispatch[i]).transfer \in XP!T
                    /\ \A j \in 1 .. i - 1 :
                         to_dispatch[j] # None => Place(j) < Place(i)
  BY <1>1
<1>2. /\ DP!OfItsNumber(to_dispatch[i])
      /\ to_dispatch[i].id < block_to_dispatch
      /\ \A j \in 1 .. i - 1 :
           to_dispatch[j] # None => to_dispatch[j].id < to_dispatch[i].id
      /\ block_to_dispatch <= cur_id /\ cur_id <= DP!Sent
      /\ DP!Sent <= Len(Traffic)
  BY DEF DecodeInv, DP!LapInv, DP!DispatchedBehind
<1>3. to_dispatch[i].id \in Nat BY <1>1
<1>4. Place(i) \in 1 .. Len(Traffic)
  BY <1>1, <1>2, <1>3, TrafficFacts DEF Place
<1>5. Decoded(to_dispatch[i]) = Traffic[Place(i)]
  BY <1>2 DEF DP!OfItsNumber, Decoded, Place
<1>6. /\ Traffic[Place(i)] \in XP!Blocks /\ Traffic[Place(i)] # None
      /\ Traffic[Place(i)].transfer \in XP!T
  BY <1>4, TrafficFacts, BlockFacts
<1>7. \A j \in 1 .. i - 1 : to_dispatch[j] # None => Place(j) < Place(i)
  <2> SUFFICES ASSUME NEW j \in 1 .. i - 1, to_dispatch[j] # None
               PROVE  Place(j) < Place(i)
    OBVIOUS
  <2>1. j \in 1 .. Len(to_dispatch) BY <1>1
  <2>2. to_dispatch[j].id \in Nat BY <1>1, <2>1
  <2> QED BY <1>2, <1>3, <2>2 DEF Place
<1> QED BY <1>4, <1>5, <1>6, <1>7

(* Of two blocks of a transfer, that which was sent first comes before.    *)
SentInOrder ==
  \A i \in 1 .. Len(to_dispatch) : to_dispatch[i] # None =>
    LET t == Decoded(to_dispatch[i]).transfer
    IN /\ t \in XP!T
       /\ \E pos \in 0 .. Transfers[t].last :
            Decoded(to_dispatch[i]) = XP!Block(t, pos)
       /\ \A j \in 1 .. i - 1 :
            to_dispatch[j] # None /\ Decoded(to_dispatch[j]).transfer = t
              => Decoded(to_dispatch[j]).pos < Decoded(to_dispatch[i]).pos

LEMMA DecodedInOrder == DecodeInv => SentInOrder
<1> SUFFICES ASSUME DecodeInv, NEW i \in 1 .. Len(to_dispatch),
                    to_dispatch[i] # None,
                    NEW t, Decoded(to_dispatch[i]).transfer = t
             PROVE  /\ t \in XP!T
                    /\ \E pos \in 0 .. Transfers[t].last :
                         Decoded(to_dispatch[i]) = XP!Block(t, pos)
                    /\ \A j \in 1 .. i - 1 :
                         to_dispatch[j] # None
                           /\ Decoded(to_dispatch[j]).transfer = t
                         => Decoded(to_dispatch[j]).pos
                              < Decoded(to_dispatch[i]).pos
  BY DEF SentInOrder
<1>1. /\ Place(i) \in 1 .. Len(Traffic)
      /\ Decoded(to_dispatch[i]) = Traffic[Place(i)]
  BY DecodedFacts
<1>0. PICK u \in XP!T : \E pos \in 0 .. Transfers[u].last :
        /\ Traffic[Place(i)] = XP!Block(u, pos)
        /\ \A r \in 1 .. Place(i) - 1 :
             Traffic[r].transfer = u => Traffic[r].pos < pos
  BY <1>1, TrafficFacts
<1>2. PICK pos \in 0 .. Transfers[u].last :
        /\ Traffic[Place(i)] = XP!Block(u, pos)
        /\ \A r \in 1 .. Place(i) - 1 :
             Traffic[r].transfer = u => Traffic[r].pos < pos
  BY <1>0
<1>3. u = t /\ Decoded(to_dispatch[i]).pos = pos BY <1>1, <1>2, BlockFacts
<1>4. ASSUME NEW j \in 1 .. i - 1, to_dispatch[j] # None,
             Decoded(to_dispatch[j]).transfer = t
      PROVE  Decoded(to_dispatch[j]).pos < pos
  <2>1. j \in 1 .. Len(to_dispatch) BY DecodedFacts
  <2>2. /\ Place(j) \in 1 .. Len(Traffic) /\ Place(j) < Place(i)
        /\ Decoded(to_dispatch[j]) = Traffic[Place(j)]
    BY <1>4, <2>1, DecodedFacts
  <2>3. Place(j) \in 1 .. Place(i) - 1 BY <1>1, <2>2
  <2> QED BY <1>2, <1>3, <1>4, <2>2, <2>3
<1> QED BY <1>1, <1>2, <1>3, <1>4
-----------------------------------------------------------------------------
(* What the decoders have sent of a transfer, when they send one more.     *)
LEMMA SentOfType ==
  ASSUME DecodeInv
  PROVE  \A t : SentOf(t) \subseteq Nat
<1> SUFFICES ASSUME NEW t, NEW i \in 1 .. Len(to_dispatch),
                    to_dispatch[i] # None, Decoded(to_dispatch[i]).transfer = t
             PROVE  Decoded(to_dispatch[i]).pos \in Nat
  BY DEF SentOf
<1>1. PICK pos \in 0 .. Transfers[t].last :
        t \in XP!T /\ Decoded(to_dispatch[i]) = XP!Block(t, pos)
  BY DecodedInOrder DEF SentInOrder
<1> QED BY <1>1, BlockFacts, TransferFacts

ReachedIsOne ==
  \A t \in XP!T : \A n \in 0 .. Transfers[t].last + 1 :
    IsReached(t, n) => Reached[t] = n

LEMMA ReachedIs == DecodeInv => ReachedIsOne
<1> SUFFICES ASSUME DecodeInv, NEW t \in XP!T,
                    NEW n \in 0 .. Transfers[t].last + 1, IsReached(t, n)
             PROVE  Reached[t] = n
  BY DEF ReachedIsOne
<1> DEFINE Places == 0 .. Transfers[t].last + 1
<1>1. SentOf(t) \subseteq Nat /\ Transfers[t].last \in Nat
  BY SentOfType, TransferFacts
<1>2. \A m \in Places : IsReached(t, m) => m = n
  BY <1>1 DEF IsReached
<1>3. (CHOOSE m \in Places : IsReached(t, m)) = n
  <2> HIDE DEF Places
  <2>1. n \in Places BY DEF Places
  <2> QED BY <1>2, <2>1
<1>4. t \in DOMAIN Transfers BY DEF XP!T
<1> QED BY <1>3, <1>4 DEF Reached

LEMMA ReachedUnchanged ==
  ASSUME UNCHANGED to_dispatch
  PROVE  Reached' = Reached /\ (ReachedInv => ReachedInv')
BY DEF Reached, ReachedInv, IsReached, SentOf

LEMMA SentOfGrows ==
  ASSUME DecodeInv, DecodeInv', NEW m, to_dispatch' = Append(to_dispatch, m)
  PROVE  /\ \A t : m = None => SentOf(t)' = SentOf(t)
         /\ \A t : m # None => SentOf(t)' = SentOf(t) \cup
              (IF Decoded(m).transfer = t THEN {Decoded(m).pos} ELSE {})
<1> DEFINE n == Len(to_dispatch)
<1>1. /\ n \in Nat /\ Len(to_dispatch') = n + 1 /\ to_dispatch'[n + 1] = m
      /\ \A i \in 1 .. n : to_dispatch'[i] = to_dispatch[i]
  BY DecodedFacts
<1> SUFFICES ASSUME NEW t
             PROVE  SentOf(t)' = SentOf(t) \cup
                      (IF m # None /\ Decoded(m).transfer = t
                       THEN {Decoded(m).pos} ELSE {})
  OBVIOUS
<1>2. \A p : p \in SentOf(t) <=>
        \E i \in 1 .. n : /\ to_dispatch[i] # None
                          /\ Decoded(to_dispatch[i]).transfer = t
                          /\ p = Decoded(to_dispatch[i]).pos
  BY DEF SentOf
<1>3. \A p : p \in SentOf(t)' <=>
        \E i \in 1 .. n + 1 : /\ to_dispatch'[i] # None
                              /\ Decoded(to_dispatch'[i]).transfer = t
                              /\ p = Decoded(to_dispatch'[i]).pos
  BY <1>1 DEF SentOf, Decoded
<1>4. \A i : i \in 1 .. n + 1 <=> i \in 1 .. n \/ i = n + 1 BY <1>1
<1> HIDE DEF n
<1>5. \A p : p \in SentOf(t)' <=>
        p \in SentOf(t) \/ (m # None /\ Decoded(m).transfer = t
                              /\ p = Decoded(m).pos)
  BY <1>1, <1>2, <1>3, <1>4
<1> QED BY <1>5

LEMMA ReachedGrows ==
  ASSUME DecodeInv, DecodeInv', ReachedInv, NEW m,
         to_dispatch' = Append(to_dispatch, m)
  PROVE  /\ ReachedInv'
         /\ m = None => Reached' = Reached
         /\ m # None =>
              \E t \in XP!T : \E p \in 0 .. Transfers[t].last :
                /\ Decoded(m) = XP!Block(t, p)
                /\ Reached[t] <= p
                /\ Reached' = [Reached EXCEPT ![t] = p + 1]
                /\ \A q \in SentOf(t) : q < p
<1> DEFINE n == Len(to_dispatch)
<1>1. /\ n \in Nat /\ Len(to_dispatch') = n + 1 /\ to_dispatch'[n + 1] = m
      /\ \A i \in 1 .. n : to_dispatch'[i] = to_dispatch[i]
  BY DecodedFacts
<1>2. CASE m = None
  <2>1. \A t, k : IsReached(t, k)' <=> IsReached(t, k)
    BY <1>2, SentOfGrows DEF IsReached
  <2> QED BY <1>2, <2>1 DEF Reached, ReachedInv, XP!T
<1>3. CASE m # None
  <2> DEFINE t == Decoded(m).transfer
  <2>1. PICK p \in 0 .. Transfers[t].last :
          /\ t \in XP!T
          /\ Decoded(m) = XP!Block(t, p)
          /\ \A j \in 1 .. n :
               to_dispatch[j] # None /\ Decoded(to_dispatch[j]).transfer = t
                 => Decoded(to_dispatch[j]).pos < Decoded(m).pos
    <3>1. SentInOrder' BY DecodedInOrder, PTL
    <3>2. n + 1 \in 1 .. Len(to_dispatch') BY <1>1
    <3>3. ASSUME NEW i \in 1 .. Len(to_dispatch'), to_dispatch'[i] # None
          PROVE  LET u == Decoded(to_dispatch'[i]).transfer
                 IN /\ u \in XP!T
                    /\ \E pos \in 0 .. Transfers[u].last :
                         Decoded(to_dispatch'[i]) = XP!Block(u, pos)
                    /\ \A j \in 1 .. i - 1 :
                         to_dispatch'[j] # None
                           /\ Decoded(to_dispatch'[j]).transfer = u
                         => Decoded(to_dispatch'[j]).pos
                              < Decoded(to_dispatch'[i]).pos
      BY <3>1, <3>3 DEF SentInOrder, Decoded, XP!T, XP!Block, XP!Type
    <3>4. n \in Nat /\ n + 1 - 1 = n BY <1>1
    <3> HIDE DEF n
    <3> QED BY <1>1, <1>3, <3>2, <3>3, <3>4
  <2>2. Decoded(m).pos = p /\ p \in Nat /\ Transfers[t].last \in Nat
    BY <2>1, BlockFacts, TransferFacts DEF XP!T
  <2>3. \A q \in SentOf(t) : q < p BY <2>1, <2>2 DEF SentOf
  <2>4. SentOf(t)' = SentOf(t) \cup {p}
    BY <1>3, <2>2, SentOfGrows
  <2>5. \A u : u # t => SentOf(u)' = SentOf(u)
    BY <1>3, SentOfGrows
  <2>6. p + 1 \in 0 .. Transfers[t].last + 1 /\ IsReached(t, p + 1)'
    <3>1. SentOf(t) \subseteq Nat BY SentOfType
    <3> QED BY <2>2, <2>3, <2>4, <3>1 DEF IsReached
  <2>7. Reached'[t] = p + 1
    <3>1. ReachedIsOne' BY ReachedIs, PTL
    <3> QED BY <2>1, <2>6, <3>1 DEF ReachedIsOne, XP!T
  <2>8. \A u, k : u # t => (IsReached(u, k)' <=> IsReached(u, k))
    BY <2>5 DEF IsReached
  <2>9. ReachedInv' BY <2>6, <2>8 DEF ReachedInv, XP!T
  <2>10. Reached' = [Reached EXCEPT ![t] = p + 1]
    <3>1. \A u \in DOMAIN Transfers : u # t => Reached'[u] = Reached[u]
      BY <2>8 DEF Reached
    <3>2. /\ Reached = [u \in DOMAIN Transfers |-> Reached[u]]
          /\ Reached' = [u \in DOMAIN Transfers |-> Reached'[u]]
      BY DEF Reached
    <3> HIDE DEF t
    <3> QED BY <2>7, <3>1, <3>2
  <2>11. Reached[t] <= p
    <3>1. PICK k \in 0 .. Transfers[t].last + 1 : IsReached(t, k)
      BY <2>1 DEF ReachedInv
    <3>2. Reached[t] = k BY <2>1, <3>1, ReachedIs DEF ReachedIsOne
    <3>3. k > 0 => k - 1 < p BY <2>3, <3>1 DEF IsReached
    <3> QED BY <2>2, <3>1, <3>2, <3>3
  <2> QED BY <1>3, <2>1, <2>3, <2>9, <2>10, <2>11
<1> QED BY <1>2, <1>3
-----------------------------------------------------------------------------
(* The channel between the halves.                                         *)
LEMMA UndispatchedFacts ==
  ASSUME DecodeInv, dispatched \in 0 .. Len(to_dispatch)
  PROVE  /\ Undispatched \in Seq(XP!Blocks \cup {None})
         /\ Len(Undispatched) = Len(to_dispatch) - dispatched
         /\ Len(Undispatched) \in Nat
         /\ \A i \in 1 .. Len(Undispatched) :
              /\ dispatched + i \in 1 .. Len(to_dispatch)
              /\ Undispatched[i] = Decoded(to_dispatch[dispatched + i])
              /\ Undispatched[i] # None <=> to_dispatch[dispatched + i] # None
<1> DEFINE n == Len(to_dispatch) - dispatched
<1>1. n \in Nat /\ Len(to_dispatch) \in Nat /\ dispatched \in Nat
  BY DecodedFacts
<1>2. \A i \in 1 .. n : dispatched + i \in 1 .. Len(to_dispatch)
  BY <1>1
<1>3. \A i \in 1 .. n :
        /\ Decoded(to_dispatch[dispatched + i]) \in XP!Blocks \cup {None}
        /\ Decoded(to_dispatch[dispatched + i]) # None
             <=> to_dispatch[dispatched + i] # None
  BY <1>2, DecodedFacts DEF Decoded
<1> HIDE DEF n
<1>4. Undispatched = [i \in 1 .. n |-> Decoded(to_dispatch[dispatched + i])]
  BY DEF Undispatched, n
<1>5. Len(Undispatched) = n /\ Undispatched \in Seq(XP!Blocks \cup {None})
  <2> DEFINE S == XP!Blocks \cup {None}
             u == Undispatched
  <2>1. \A i \in 1 .. n : Decoded(to_dispatch[dispatched + i]) \in S BY <1>3
  <2> HIDE DEF S
  <2>2. u \in [1 .. n -> S] BY <1>4, <2>1
  <2> HIDE DEF u
  <2>3. u \in Seq(S) /\ Len(u) = n BY <1>1, <2>2
  <2> QED BY <2>3 DEF u, S
<1>6. n = Len(to_dispatch) - dispatched BY DEF n
<1> QED BY <1>1, <1>2, <1>3, <1>4, <1>5, <1>6

LEMMA UndispatchedGrows ==
  ASSUME DecodeInv, dispatched \in 0 .. Len(to_dispatch), UNCHANGED dispatched,
         NEW m, to_dispatch' = Append(to_dispatch, m)
  PROVE  Undispatched' = Append(Undispatched, Decoded(m))
<1> DEFINE n == Len(to_dispatch) - dispatched
<1>1. /\ n \in Nat /\ Len(to_dispatch) \in Nat /\ dispatched \in Nat
      /\ Len(to_dispatch') - dispatched = n + 1
      /\ \A i \in 1 .. n : dispatched + i \in 1 .. Len(to_dispatch)
      /\ \A i \in 1 .. Len(to_dispatch) : to_dispatch'[i] = to_dispatch[i]
      /\ to_dispatch'[dispatched + (n + 1)] = m
  BY DecodedFacts
<1>2. Undispatched' =
        [i \in 1 .. n + 1 |-> Decoded(to_dispatch'[dispatched + i])]
  <2>1. Undispatched' =
          [i \in 1 .. Len(to_dispatch') - dispatched |->
             Decoded(to_dispatch'[dispatched + i])]
    BY DEF Undispatched, Decoded
  <2> HIDE DEF n
  <2> QED BY <1>1, <2>1
<1>3. Len(Undispatched) = n /\ Undispatched \in Seq(XP!Blocks \cup {None})
      /\ \A i \in 1 .. n : Undispatched[i] = Decoded(to_dispatch[dispatched + i])
  BY UndispatchedFacts
<1> HIDE DEF n
<1>4. Append(Undispatched, Decoded(m))
        = [i \in 1 .. n + 1 |-> IF i = n + 1 THEN Decoded(m) ELSE Undispatched[i]]
  <2> DEFINE S == XP!Blocks \cup {None}
             u == Undispatched
             b == Decoded(m)
  <2> DEFINE longer == [i \in 1 .. n + 1 |-> IF i = n + 1 THEN b ELSE u[i]]
  <2>1. u \in Seq(S) /\ Len(u) = n /\ n \in Nat BY <1>1, <1>3
  <2> HIDE DEF S, u, b
  <2>2. longer \in [1 .. n + 1 -> S \cup {b}] BY <2>1
  <2>3. longer \in Seq(S \cup {b}) /\ Len(longer) = n + 1
    <3> HIDE DEF longer
    <3> QED BY <2>1, <2>2
  <2>4. Append(u, b) \in Seq(S \cup {b}) /\ Len(Append(u, b)) = n + 1
    BY <2>1
  <2>5. \A i \in 1 .. n + 1 : Append(u, b)[i] = longer[i]
    BY <2>1
  <2>6. Append(u, b) = longer
    <3> HIDE DEF longer
    <3> QED BY <2>3, <2>4, <2>5, SeqEqual
  <2> QED BY <2>6 DEF u, b
<1>5. \A i \in 1 .. n + 1 :
        Decoded(to_dispatch'[dispatched + i])
          = IF i = n + 1 THEN Decoded(m) ELSE Undispatched[i]
  <2> SUFFICES ASSUME NEW i \in 1 .. n + 1
               PROVE  Decoded(to_dispatch'[dispatched + i])
                        = IF i = n + 1 THEN Decoded(m) ELSE Undispatched[i]
    OBVIOUS
  <2>1. CASE i = n + 1 BY <1>1, <2>1
  <2>2. CASE i # n + 1
    <3>1. i \in 1 .. n BY <1>1, <2>2
    <3>2. to_dispatch'[dispatched + i] = to_dispatch[dispatched + i]
      BY <1>1, <3>1
    <3> QED BY <1>3, <2>2, <3>1, <3>2
  <2> QED BY <2>1, <2>2
<1> QED BY <1>2, <1>4, <1>5

LEMMA UndispatchedShrinks ==
  ASSUME DecodeInv, dispatched \in 0 .. Len(to_dispatch),
         dispatched < Len(to_dispatch), dispatched' = dispatched + 1,
         UNCHANGED to_dispatch
  PROVE  /\ Undispatched # <<>>
         /\ Undispatched' = Tail(Undispatched)
         /\ Head(Undispatched) = Decoded(to_dispatch[dispatched + 1])
<1> DEFINE n == Len(to_dispatch) - dispatched
<1>1. /\ n \in Nat \ {0} /\ dispatched \in Nat
      /\ Len(to_dispatch') - dispatched' = n - 1
  BY DecodedFacts
<1>2. Undispatched' =
        [i \in 1 .. n - 1 |-> Decoded(to_dispatch[dispatched + 1 + i])]
  <2>1. Undispatched' =
          [i \in 1 .. Len(to_dispatch') - dispatched' |->
             Decoded(to_dispatch'[dispatched' + i])]
    BY DEF Undispatched, Decoded
  <2> HIDE DEF n
  <2> QED BY <1>1, <2>1
<1>3. Len(Undispatched) = n /\ Undispatched \in Seq(XP!Blocks \cup {None})
      /\ \A i \in 1 .. n : Undispatched[i] = Decoded(to_dispatch[dispatched + i])
  BY UndispatchedFacts
<1> HIDE DEF n
<1>4. Tail(Undispatched) = [i \in 1 .. n - 1 |-> Undispatched[i + 1]]
  <2> DEFINE S == XP!Blocks \cup {None}
             u == Undispatched
  <2> DEFINE shorter == [i \in 1 .. n - 1 |-> u[i + 1]]
  <2>1. u \in Seq(S) /\ Len(u) = n /\ n \in Nat \ {0} BY <1>1, <1>3
  <2> HIDE DEF S, u
  <2>2. shorter \in [1 .. n - 1 -> S] BY <2>1
  <2>3. shorter \in Seq(S) /\ Len(shorter) = n - 1
    <3> HIDE DEF shorter
    <3> QED BY <2>1, <2>2
  <2>4. Tail(u) \in Seq(S) /\ Len(Tail(u)) = n - 1 BY <2>1
  <2>5. \A i \in 1 .. n - 1 : Tail(u)[i] = shorter[i] BY <2>1
  <2>6. Tail(u) = shorter
    <3> HIDE DEF shorter
    <3> QED BY <2>3, <2>4, <2>5, SeqEqual
  <2> QED BY <2>6 DEF u
<1>5. \A i \in 1 .. n - 1 : Undispatched[i + 1] = Decoded(to_dispatch[dispatched + 1 + i])
  <2> SUFFICES ASSUME NEW i \in 1 .. n - 1
               PROVE  Undispatched[i + 1] = Decoded(to_dispatch[dispatched + 1 + i])
    OBVIOUS
  <2>1. i + 1 \in 1 .. n /\ dispatched + (i + 1) = dispatched + 1 + i BY <1>1
  <2>2. Undispatched[i + 1] = Decoded(to_dispatch[dispatched + (i + 1)])
    BY <1>3, <2>1
  <2> QED BY <2>1, <2>2
<1> QED BY <1>1, <1>2, <1>3, <1>4, <1>5

LEMMA ReachedType ==
  DecodeInv /\ ReachedInv =>
    /\ Reached \in [XP!T -> Nat]
    /\ \A t \in XP!T : Reached[t] <= Transfers[t].last + 1
<1> SUFFICES ASSUME DecodeInv, ReachedInv, NEW t \in XP!T
             PROVE  Reached[t] \in Nat /\ Reached[t] <= Transfers[t].last + 1
  BY DEF Reached, XP!T
<1>1. PICK k \in 0 .. Transfers[t].last + 1 : IsReached(t, k)
  BY DEF ReachedInv
<1>2. Reached[t] = k BY <1>1, ReachedIs DEF ReachedIsOne
<1> QED BY <1>1, <1>2, TransferFacts
-----------------------------------------------------------------------------
(* A decoder sends something: to the second half, a block of a transfer    *)
(* comes, or a None.                                                       *)
LEMMA TypeGrows ==
  ASSUME ReceiverInv, DecodeInv', NEW m, to_dispatch' = Append(to_dispatch, m),
         UNCHANGED clientSide
  PROVE  XP!WorkersInv'
<1> USE DEF ReceiverInv
<1>1. ReachedInv' BY ReachedGrows
<1>2. (DecodeInv /\ ReachedInv =>
         /\ Reached \in [XP!T -> Nat]
         /\ \A t \in XP!T : Reached[t] <= Transfers[t].last + 1)'
  BY ReachedType, PTL
<1>3. /\ Reached' \in [XP!T -> Nat]
      /\ \A t \in XP!T : Reached'[t] <= Transfers[t].last + 1
  BY <1>1, <1>2 DEF XP!T
<1>4. Undispatched' \in Seq(XP!Blocks \cup {None})
  <2>1. /\ Len(to_dispatch') = Len(to_dispatch) + 1
        /\ Len(to_dispatch) \in Nat
        /\ to_dispatch'[Len(to_dispatch) + 1] = m
    BY DecodedFacts
  <2>2. Decoded(m) \in XP!Blocks \cup {None}
    <3>1. m # None => Decoded(m) \in XP!Blocks
      BY ReachedGrows, BlockFacts
    <3> QED BY <3>1 DEF Decoded
  <2>3. Undispatched' = Append(Undispatched, Decoded(m))
    BY UndispatchedGrows DEF clientSide
  <2>4. Undispatched \in Seq(XP!Blocks \cup {None}) BY UndispatchedFacts
  <2> QED BY <2>2, <2>3, <2>4
<1>5. XP!TypeOK'
  BY <1>3, <1>4 DEF clientSide, XP!WorkersInv, XP!TypeOK
<1>6. XP!PermitInv' /\ XP!WorkerInv'
  BY DEF clientSide, XP!WorkersInv, XP!PermitInv, XP!Holders, XP!WorkerInv
<1> QED BY <1>5, <1>6 DEF XP!WorkersInv
LEMMA ServiceGrows ==
  ASSUME ReceiverInv, DecodeInv', NEW m, to_dispatch' = Append(to_dispatch, m),
         UNCHANGED clientSide
  PROVE  XP!ServiceInv'
<1> USE DEF ReceiverInv
<1> DEFINE n == Len(Undispatched)
           S == XP!Blocks \cup {None}
           U == Undispatched
           V == Undispatched'
<1>1. /\ U \in Seq(S) /\ n \in Nat
      /\ V = Append(U, Decoded(m))
      /\ m = None <=> Decoded(m) = None
      /\ Decoded(m) \in S
  <2>1. m # None => Decoded(m) \in XP!Blocks /\ Decoded(m) # None
    BY ReachedGrows, BlockFacts
  <2>2. m = None => Decoded(m) = None BY DEF Decoded
  <2> QED BY <2>1, <2>2, UndispatchedFacts, UndispatchedGrows DEF clientSide
<1>2. /\ Len(V) = n + 1 /\ V[n + 1] = Decoded(m)
      /\ \A i \in 1 .. n : V[i] = U[i]
      /\ XP!ToSet(V) = XP!ToSet(U) \cup {Decoded(m)}
  <2> HIDE DEF U, V
  <2>1. /\ Len(V) = Len(U) + 1 /\ V[Len(U) + 1] = Decoded(m)
        /\ \A i \in 1 .. Len(U) : V[i] = U[i]
    BY <1>1
  <2> HIDE DEF S
  <2>2. XP!ToSet(V) = XP!ToSet(U) \cup {Decoded(m)}
    BY <1>1, DispatchAssumptions, XP!AppendSet
  <2> QED BY <2>1, <2>2 DEF U
<1>3. \A t \in XP!T :
        /\ Reached[t] \in Nat /\ Reached'[t] \in Nat
        /\ Reached[t] <= Reached'[t]
        /\ Reached'[t] = 0 => Reached[t] = 0
  <2>1. Reached \in [XP!T -> Nat] BY ReachedType
  <2>2. CASE m = None BY <2>1, <2>2, ReachedGrows
  <2>3. CASE m # None
    <3>1. PICK t \in XP!T : \E p \in 0 .. Transfers[t].last :
            Reached[t] <= p /\ Reached' = [Reached EXCEPT ![t] = p + 1]
      BY <2>3, ReachedGrows
    <3> QED BY <2>1, <3>1, TransferFacts
  <2> QED BY <2>2, <2>3
<1>4. m # None =>
        \E t \in XP!T : \E p \in 0 .. Transfers[t].last :
          /\ Decoded(m) = XP!Block(t, p)
          /\ Reached[t] <= p /\ Reached'[t] = p + 1
          /\ \A q \in SentOf(t) : q < p
  <2>1. Reached \in [XP!T -> Nat] BY ReachedType
  <2> QED BY <2>1, ReachedGrows
<1>5. \A i \in 1 .. n : U[i] # None => U[i].pos \in SentOf(U[i].transfer)
  BY UndispatchedFacts DEF SentOf
<1>6. XP!LinkInv'
  <2>1. ASSUME NEW i \in 1 .. n + 1, V[i] # None
        PROVE  \E t \in XP!T : \E p \in 0 .. Transfers[t].last :
                 V[i] = XP!Block(t, p) /\ p < Reached'[t]
    <3>1. CASE i = n + 1 BY <1>1, <1>2, <1>4, <2>1, <3>1, TransferFacts
    <3>2. CASE i # n + 1
      <4>1. i \in 1 .. n /\ V[i] = U[i] BY <1>1, <1>2, <3>2
      <4>2. PICK t \in XP!T : \E p \in 0 .. Transfers[t].last :
              U[i] = XP!Block(t, p) /\ p < Reached[t]
        BY <2>1, <4>1 DEF XP!ServiceInv, XP!LinkInv
      <4>3. Transfers[t].last \in Nat BY TransferFacts
      <4> QED BY <1>3, <4>1, <4>2, <4>3
    <3> QED BY <3>1, <3>2
  <2>2. ASSUME NEW i \in 1 .. n + 1, NEW j \in 1 .. n + 1, i < j,
               V[i] # None, V[j] # None
        PROVE  /\ Transfers[V[i].transfer].run <= Transfers[V[j].transfer].run
               /\ V[i].transfer = V[j].transfer => V[i].pos < V[j].pos
    <3>1. /\ V[i].transfer \in XP!T /\ V[j].transfer \in XP!T
      BY <2>1, <2>2, BlockFacts
    <3>2. Transfers[V[i].transfer].run = 1 /\ Transfers[V[j].transfer].run = 1
      BY <3>1, TransferFacts
    <3>3. i \in 1 .. n /\ V[i] = U[i] BY <1>1, <1>2, <2>2
    <3>4. CASE j = n + 1
      <4>1. m # None /\ V[j] = Decoded(m) BY <1>1, <1>2, <2>2, <3>4
      <4>2. PICK t \in XP!T : \E p \in 0 .. Transfers[t].last :
              Decoded(m) = XP!Block(t, p) /\ \A q \in SentOf(t) : q < p
        BY <1>4, <4>1
      <4>3. \A q \in SentOf(t) : q < V[j].pos /\ V[j].transfer = t
        BY <4>1, <4>2, BlockFacts
      <4>4. U[i].pos \in SentOf(U[i].transfer) BY <1>5, <2>2, <3>3
      <4>5. V[j].transfer = t BY <4>1, <4>2, BlockFacts
      <4> QED BY <3>2, <3>3, <4>3, <4>4, <4>5
    <3>5. CASE j # n + 1
      <4>1. j \in 1 .. n /\ V[j] = U[j] BY <1>1, <1>2, <3>5
      <4>2. U[i].transfer = U[j].transfer => U[i].pos < U[j].pos
        BY <2>2, <3>3, <4>1 DEF XP!ServiceInv, XP!LinkInv
      <4> QED BY <3>2, <3>3, <4>1, <4>2
    <3> QED BY <3>4, <3>5
  <2>3. \A t \in XP!T : Transfers[t].run <= 1 BY TransferFacts
  <2> HIDE DEF n, U
  <2> QED BY <1>2, <2>1, <2>2, <2>3 DEF XP!LinkInv, XP!T, XP!Block, XP!Type
<1>7. XP!FreshInv'
  <2> SUFFICES ASSUME NEW t \in XP!T,
                      Reached'[t] = 0 \/ XP!Block(t, 0) \in XP!ToSet(V)
               PROVE  XP!Untouched(t)'
    BY DEF XP!FreshInv, XP!T, XP!Block, XP!Type, XP!ToSet
  <2>1. Reached[t] = 0 \/ XP!Block(t, 0) \in XP!ToSet(U)
    <3>1. CASE Reached'[t] = 0 BY <1>3, <3>1
    <3>2. CASE XP!Block(t, 0) = Decoded(m)
      <4>1. 0 \in 0 .. Transfers[t].last BY TransferFacts
      <4>2. m # None BY <1>1, <3>2, <4>1, BlockFacts
      <4>3. PICK u \in XP!T : \E p \in 0 .. Transfers[u].last :
              Decoded(m) = XP!Block(u, p) /\ Reached[u] <= p
        BY <1>4, <4>2
      <4>4. u = t /\ Reached[t] <= 0 BY <3>2, <4>1, <4>3, BlockFacts
      <4> QED BY <1>3, <4>4
    <3> QED BY <1>2, <3>1, <3>2
  <2>2. XP!Untouched(t) BY <2>1 DEF XP!ServiceInv, XP!FreshInv
  <2> QED BY <2>2 DEF clientSide, XP!Untouched, XP!ReceiverAlive
<1>8. XP!ServedInv'
  BY DEF clientSide, XP!ServiceInv, XP!ServedInv
<1>9. XP!ActiveInv'
  <2> SUFFICES ASSUME NEW c \in XP!ClientIds, NEW t \in XP!T,
                      active_transfers[c] = t
               PROVE  Transfers[t].client = c /\ XP!Attended(t)'
    BY DEF clientSide, XP!ActiveInv, XP!T, XP!ClientIds
  <2>1. Transfers[t].client = c /\ XP!Attended(t)
    BY DEF XP!ServiceInv, XP!ActiveInv
  <2>2. ASSUME NEW i \in 1 .. n + 1, V[i] # None
        PROVE  V[i].transfer \in XP!T
    <3>1. CASE i = n + 1 BY <1>1, <1>2, <1>4, <2>2, <3>1, BlockFacts
    <3>2. CASE i # n + 1
      <4>1. i \in 1 .. n /\ V[i] = U[i] BY <1>1, <1>2, <3>2
      <4> QED BY <2>2, <4>1, UndispatchedFacts, DecodedFacts
    <3> QED BY <3>1, <3>2
  <2>3. \A i \in 1 .. n + 1 : V[i] # None =>
          Transfers[t].run <= Transfers[V[i].transfer].run
    <3>1. Transfers[t].run = 1 BY TransferFacts
    <3> HIDE DEF n, V
    <3> QED BY <2>2, <3>1, TransferFacts
  <2> HIDE DEF n, U
  <2> QED BY <1>2, <2>1, <2>3 DEF clientSide, XP!Attended, XP!ReceiverAlive
<1> QED BY <1>6, <1>7, <1>8, <1>9 DEF XP!ServiceInv
-----------------------------------------------------------------------------
(* The steps of the second half are those of Dispatch.                     *)
LEMMA DispatchSteps ==
  DispatchStep => XP!DispatchStep
<1> USE DEF X!linkVars, XP!linkVars, X!dispatchVars, XP!dispatchVars,
            X!clientVars, XP!clientVars, X!T, XP!T, X!ClientIds, XP!ClientIds,
            X!ReceiverAlive, XP!ReceiverAlive, X!AbortBlock, XP!AbortBlock,
            X!ToSet, XP!ToSet
<1> SUFFICES ASSUME DispatchStep PROVE XP!DispatchStep OBVIOUS
<1>1. Reached' = Reached
  BY ReachedUnchanged DEF DispatchStep, receiveVars, decodeVars
<1>2. X!SynchronizationLost => XP!SynchronizationLost
  BY <1>1 DEF X!SynchronizationLost, XP!SynchronizationLost
<1>3. X!StartTransfer => XP!StartTransfer
  BY <1>1 DEF X!StartTransfer, XP!StartTransfer
<1>4. X!ForwardBlock => XP!ForwardBlock
  BY <1>1 DEF X!ForwardBlock, XP!ForwardBlock, X!EndTransfer, XP!EndTransfer
<1> QED BY <1>2, <1>3, <1>4 DEF DispatchStep, X!DispatchStep, XP!DispatchStep

LEMMA WorkerSteps ==
  ASSUME NEW w, WorkerStep(w)
  PROVE  XP!WorkerStep(w)
<1> USE DEF X!linkVars, XP!linkVars, X!dispatchVars, XP!dispatchVars, X!T,
            XP!T, X!ClientIds, XP!ClientIds, X!Idle, XP!Idle, X!Ends, XP!Ends,
            X!HasPayload, XP!HasPayload, X!OutcomeOf, XP!OutcomeOf,
            X!SenderAlive, XP!SenderAlive
<1>1. Reached' = Reached
  BY ReachedUnchanged DEF WorkerStep, receiveVars, decodeVars
<1>2. X!ClientsRecv(w) => XP!ClientsRecv(w)
  BY <1>1 DEF X!ClientsRecv, XP!ClientsRecv
<1>3. X!ClientsWait(w) => XP!ClientsWait(w)
  BY <1>1 DEF X!ClientsWait, XP!ClientsWait
<1>4. X!ClientNew(w) => XP!ClientNew(w)
  BY <1>1 DEF X!ClientNew, XP!ClientNew
<1>5. X!ClientNewFail(w) => XP!ClientNewFail(w)
  BY <1>1 DEF X!ClientNewFail, XP!ClientNewFail
<1>6. X!ClientRecv(w) => XP!ClientRecv(w)
  BY <1>1 DEF X!ClientRecv, XP!ClientRecv
<1>7. X!ClientWriteFail(w) => XP!ClientWriteFail(w)
  BY <1>1 DEF X!ClientWriteFail, XP!ClientWriteFail
<1>8. X!ClientGivesUp(w) => XP!ClientGivesUp(w)
  BY <1>1 DEF X!ClientGivesUp, XP!ClientGivesUp
<1>9. X!ClientsSignal(w) => XP!ClientsSignal(w)
  BY <1>1 DEF X!ClientsSignal, XP!ClientsSignal
<1> QED BY <1>2, <1>3, <1>4, <1>5, <1>6, <1>7, <1>8, <1>9
        DEF WorkerStep, X!WorkerStep, XP!WorkerStep

LEMMA ServiceKept ==
  ASSUME ReceiverInv, DispatchStep \/ \E w \in Workers : WorkerStep(w)
  PROVE  XP!WorkersInv' /\ XP!ServiceInv'
<1>1. [XP!Next]_(XP!vars) BY DispatchSteps, WorkerSteps DEF XP!Next
<1>2. XP!WorkersInv /\ XP!ServiceInv BY DEF ReceiverInv
<1> QED BY <1>1, <1>2, DispatchAssumptions, XP!WorkersInvNext, XP!ServiceNext
-----------------------------------------------------------------------------
(* What is queued and written is of the right transfer, in order.          *)
LEMMA OwnBlocksFacts ==
  ASSUME DecodeInv, dispatched \in 0 .. Len(to_dispatch), NEW t \in XP!T
  PROVE  \A b \in OwnBlocks(t) :
           /\ b \in XP!Blocks /\ b.transfer = t /\ b.pos \in Nat
           /\ b \in ToSet(Traffic)
<1> SUFFICES ASSUME NEW i \in 1 .. dispatched, to_dispatch[i] # None,
                    Decoded(to_dispatch[i]).transfer = t
             PROVE  /\ Decoded(to_dispatch[i]).pos \in Nat
                    /\ Decoded(to_dispatch[i]) \in ToSet(Traffic)
  BY DEF OwnBlocks
<1>1. i \in 1 .. Len(to_dispatch) BY DecodedFacts
<1>2. /\ Place(i) \in 1 .. Len(Traffic)
      /\ Decoded(to_dispatch[i]) = Traffic[Place(i)]
  BY <1>1, DecodedFacts
<1>3. Decoded(to_dispatch[i]) \in ToSet(Traffic)
  BY <1>2, TrafficFacts DEF ToSet
<1>4. Decoded(to_dispatch[i]).pos \in SentOf(t) BY <1>1 DEF SentOf
<1> QED BY <1>3, <1>4, SentOfType

(* What dispatch receives next of a transfer comes after what it has got.  *)
LEMMA NextIsAhead ==
  ASSUME DecodeInv, dispatched \in 0 .. Len(to_dispatch),
         dispatched < Len(to_dispatch), to_dispatch[dispatched + 1] # None,
         NEW t, t = Decoded(to_dispatch[dispatched + 1]).transfer
  PROVE  \A b \in OwnBlocks(t) :
           b.pos < Decoded(to_dispatch[dispatched + 1]).pos
<1> SUFFICES ASSUME NEW j \in 1 .. dispatched, to_dispatch[j] # None,
                    Decoded(to_dispatch[j]).transfer = t
             PROVE  Decoded(to_dispatch[j]).pos
                      < Decoded(to_dispatch[dispatched + 1]).pos
  BY DEF OwnBlocks
<1>1. /\ dispatched + 1 \in 1 .. Len(to_dispatch)
      /\ j \in 1 .. (dispatched + 1) - 1
  BY DecodedFacts
<1> QED BY <1>1, DecodedInOrder DEF SentInOrder

LEMMA OwnBlocksGrow ==
  ASSUME DecodeInv, dispatched \in 0 .. Len(to_dispatch), NEW t,
         \/ UNCHANGED <<to_dispatch, dispatched>>
         \/ UNCHANGED dispatched /\ \E m : to_dispatch' = Append(to_dispatch, m)
         \/ UNCHANGED to_dispatch /\ dispatched' = dispatched + 1
  PROVE  OwnBlocks(t) \subseteq OwnBlocks(t)'
<1>0. XP!Blocks' = XP!Blocks
  BY DEF XP!Blocks, XP!Block, XP!Type, XP!AbortBlock, XP!T, XP!ClientIds
<1> SUFFICES ASSUME NEW b \in XP!Blocks, b.transfer = t,
                    NEW i \in 1 .. dispatched, to_dispatch[i] # None,
                    Decoded(to_dispatch[i]) = b
             PROVE  /\ i \in 1 .. dispatched'
                    /\ to_dispatch'[i] # None /\ Decoded(to_dispatch'[i]) = b
  BY <1>0 DEF OwnBlocks, Decoded
<1>1. i \in 1 .. Len(to_dispatch) /\ Len(to_dispatch) \in Nat BY DecodedFacts
<1>2. to_dispatch'[i] = to_dispatch[i]
  <2>1. to_dispatch \in Seq(DP!Reassembled \cup {None}) BY DecodedFacts
  <2>2. ASSUME NEW m, to_dispatch' = Append(to_dispatch, m)
        PROVE  to_dispatch'[i] = to_dispatch[i]
    BY <1>1, <2>1, <2>2
  <2> QED BY <2>2
<1>3. i \in 1 .. dispatched' BY <1>1
<1> QED BY <1>2, <1>3

LEMMA DeliveryKept ==
  ASSUME NEW t \in XP!T, OwnBlocks(t) \subseteq OwnBlocks(t)',
         queue'[t] = queue[t], written'[t] = written[t],
         QueuedInv(t), WrittenInv(t)
  PROVE  QueuedInv(t)' /\ WrittenInv(t)'
BY DEF QueuedInv, WrittenInv, XP!AbortBlock

LEMMA DeliveryInit == Init => DeliveryInv
BY DEF Init, X!Init, X!T, XP!T, DeliveryInv, QueuedInv, WrittenInv

LEMMA DeliveryGrows ==
  ASSUME ReceiverInv, NEW m, to_dispatch' = Append(to_dispatch, m),
         UNCHANGED clientSide
  PROVE  DeliveryInv'
<1> SUFFICES ASSUME NEW t \in XP!T PROVE QueuedInv(t)' /\ WrittenInv(t)'
  BY DEF DeliveryInv, XP!T
<1>1. OwnBlocks(t) \subseteq OwnBlocks(t)'
  BY OwnBlocksGrow DEF ReceiverInv, clientSide
<1>2. QueuedInv(t) /\ WrittenInv(t) BY DEF ReceiverInv, DeliveryInv
<1> QED BY <1>1, <1>2, DeliveryKept DEF clientSide

LEMMA OwnBlocksGet ==
  ASSUME NEW b \in XP!Blocks, NEW i \in 1 .. dispatched',
         to_dispatch'[i] # None, Decoded(to_dispatch'[i]) = b
  PROVE  b \in OwnBlocks(b.transfer)'
<1>1. XP!Blocks' = XP!Blocks
  BY DEF XP!Blocks, XP!Block, XP!Type, XP!AbortBlock, XP!T, XP!ClientIds
<1>2. b \in {c \in XP!Blocks' :
              /\ c.transfer = b.transfer
              /\ \E j \in 1 .. dispatched' :
                   to_dispatch'[j] # None /\ Decoded(to_dispatch'[j]) = c}
  BY <1>1
<1> QED BY <1>2 DEF OwnBlocks, Decoded

(* One more block is queued, or a queue is opened with it.                 *)
LEMMA QueuedAppend ==
  ASSUME DecodeInv, dispatched \in 0 .. Len(to_dispatch),
         XP!TypeOK, NEW t \in XP!T, OwnBlocks(t) \subseteq OwnBlocks(t)',
         QueuedInv(t), WrittenInv(t), written'[t] = written[t],
         NEW b \in XP!Blocks,
         queue'[t] = Append(queue[t], b) \/ queue'[t] = <<b>>,
         \/ b = XP!AbortBlock(Transfers[t].client)
         \/ b \in OwnBlocks(t)' /\ \A a \in OwnBlocks(t) : a.pos < b.pos
  PROVE  QueuedInv(t)' /\ WrittenInv(t)'
<1>1. WrittenInv(t)' BY DEF WrittenInv
<1>2. queue[t] \in Seq(XP!Blocks) BY DEF XP!TypeOK
<1>3. \A i \in 1 .. Len(queue[t]) :
        queue[t][i].transfer = t => queue[t][i] \in OwnBlocks(t)
  <2>1. t # 0 BY TransferFacts
  <2> QED BY <2>1, BlockFacts DEF QueuedInv
<1>4. \A j \in 1 .. Len(written[t]) : written[t][j] \in OwnBlocks(t)
  BY DEF WrittenInv
<1>5. \/ b = XP!AbortBlock(Transfers[t].client)
      \/ /\ b \in OwnBlocks(t)'
         /\ \A j \in 1 .. Len(queue[t]) :
              queue[t][j].transfer = t => queue[t][j].pos < b.pos
         /\ \A j \in 1 .. Len(written[t]) : written[t][j].pos < b.pos
  BY <1>3, <1>4
<1>6. CASE queue'[t] = Append(queue[t], b)
  <2> DEFINE q == queue'[t]
             Fits(i) ==
               \/ q[i] = XP!AbortBlock(Transfers[t].client)
               \/ /\ q[i] \in OwnBlocks(t)'
                  /\ \A j \in 1 .. i - 1 :
                       q[j].transfer = t => q[j].pos < q[i].pos
                  /\ \A j \in 1 .. Len(written[t]) : written[t][j].pos < q[i].pos
  <2>0. Len(q) = Len(queue[t]) + 1 BY <1>2, <1>6
  <2> SUFFICES ASSUME NEW i \in 1 .. Len(queue[t]) + 1
               PROVE  Fits(i)
    BY <1>1, <2>0 DEF QueuedInv, XP!AbortBlock
  <2>1. /\ \A j \in 1 .. Len(queue[t]) : queue'[t][j] = queue[t][j]
        /\ queue'[t][Len(queue[t]) + 1] = b /\ Len(queue[t]) \in Nat
    BY <1>2, <1>6
  <2>2. CASE i = Len(queue[t]) + 1
    <3>1. \A j \in 1 .. i - 1 : j \in 1 .. Len(queue[t]) BY <2>1, <2>2
    <3> QED BY <1>5, <2>1, <2>2, <3>1
  <2>3. CASE i # Len(queue[t]) + 1
    <3>1. /\ i \in 1 .. Len(queue[t])
          /\ \A j \in 1 .. i - 1 : j \in 1 .. Len(queue[t])
      BY <2>1, <2>3
    <3> QED BY <2>1, <3>1 DEF QueuedInv
  <2> QED BY <2>2, <2>3
<1>7. CASE queue'[t] = <<b>>
  <2>1. Len(queue'[t]) = 1 /\ queue'[t][1] = b BY <1>7
  <2> QED BY <1>1, <1>5, <2>1 DEF QueuedInv, XP!AbortBlock
<1> QED BY <1>6, <1>7

LEMMA DeliveryDispatch ==
  ASSUME ReceiverInv, DispatchStep
  PROVE  DeliveryInv'
<1> SUFFICES ASSUME NEW t \in XP!T PROVE QueuedInv(t)' /\ WrittenInv(t)'
  BY DEF DeliveryInv, XP!T
<1>0. PICK block : block = Decoded(to_dispatch[dispatched + 1]) OBVIOUS
<1>1. /\ DecodeInv /\ dispatched \in 0 .. Len(to_dispatch)
      /\ dispatched < Len(to_dispatch) /\ dispatched' = dispatched + 1
      /\ UNCHANGED to_dispatch /\ XP!DispatchStep /\ XP!TypeOK
      /\ QueuedInv(t) /\ WrittenInv(t)
  BY DispatchSteps DEF DispatchStep, receiveVars, decodeVars, ReceiverInv,
                       DeliveryInv, XP!WorkersInv
<1>2. OwnBlocks(t) \subseteq OwnBlocks(t)' BY <1>1, OwnBlocksGrow
<1>3. Head(Undispatched) = block BY <1>0, <1>1, UndispatchedShrinks
<1>4. UNCHANGED written
  BY <1>1 DEF XP!DispatchStep, XP!SynchronizationLost, XP!StartTransfer,
              XP!ForwardBlock, XP!clientVars
<1>5. block # None =>
        /\ block \in XP!Blocks /\ block.transfer \in XP!T
        /\ block \in OwnBlocks(block.transfer)'
        /\ \A a \in OwnBlocks(block.transfer) : a.pos < block.pos
        /\ block.client = Transfers[block.transfer].client
  <2> SUFFICES ASSUME block # None
               PROVE  /\ block \in XP!Blocks /\ block.transfer \in XP!T
                      /\ block \in OwnBlocks(block.transfer)'
                      /\ \A a \in OwnBlocks(block.transfer) : a.pos < block.pos
                      /\ block.client = Transfers[block.transfer].client
    OBVIOUS
  <2>1. to_dispatch[dispatched + 1] # None BY <1>0 DEF Decoded
  <2>2. /\ dispatched + 1 \in 1 .. Len(to_dispatch)
        /\ dispatched + 1 \in 1 .. dispatched'
    BY <1>1, DecodedFacts
  <2>3. block \in XP!Blocks /\ block.transfer \in XP!T
    BY <1>0, <1>1, <2>1, <2>2, DecodedFacts
  <2>4. block.client = Transfers[block.transfer].client
    <3>1. \E pos \in 0 .. Transfers[block.transfer].last :
            block = XP!Block(block.transfer, pos)
      BY <1>0, <1>1, <2>1, <2>2, DecodedInOrder DEF SentInOrder
    <3> QED BY <2>3, <3>1, BlockFacts
  <2>5. \A a \in OwnBlocks(block.transfer) : a.pos < block.pos
    BY <1>0, <1>1, <2>1, NextIsAhead
  <2>6. block \in OwnBlocks(block.transfer)'
    <3>1. PICK i \in 1 .. dispatched' :
            to_dispatch'[i] # None /\ Decoded(to_dispatch'[i]) = block
      BY <1>0, <1>1, <2>1, <2>2
    <3> QED BY <2>3, <3>1, OwnBlocksGet
  <2> QED BY <2>3, <2>4, <2>5, <2>6
<1>6. CASE queue'[t] = queue[t] BY <1>1, <1>2, <1>4, <1>6, DeliveryKept
<1>7. CASE XP!SynchronizationLost
  <2>1. CASE queue'[t] = Append(queue[t], XP!AbortBlock(Transfers[t].client))
    <3>1. XP!AbortBlock(Transfers[t].client) \in XP!Blocks
      BY BlockFacts, TransferFacts
    <3> QED BY <1>1, <1>2, <1>4, <2>1, <3>1, QueuedAppend
  <2> QED BY <1>6, <1>7, <2>1 DEF XP!SynchronizationLost
<1>8. CASE XP!StartTransfer
  <2>1. CASE t = block.transfer
    <3>1. queue'[t] = <<block>> /\ block # None
      BY <1>1, <1>3, <1>8, <2>1 DEF XP!TypeOK, XP!StartTransfer
    <3> QED BY <1>1, <1>2, <1>4, <1>5, <2>1, <3>1, QueuedAppend
  <2>2. CASE t # block.transfer
    <3>1. queue'[t] = queue[t]
      BY <1>1, <1>3, <1>8, <2>2 DEF XP!TypeOK, XP!StartTransfer
    <3> QED BY <1>6, <3>1
  <2> QED BY <2>1, <2>2
<1>9. CASE XP!ForwardBlock
  <2>1. CASE queue'[t] = Append(queue[t], block) /\ block # None
             /\ active_transfers[block.client] = t
    <3>1. Transfers[t].client = block.client
      <4>1. block.client \in XP!ClientIds BY <1>5, <2>1, TransferFacts
      <4> QED BY <2>1, <4>1 DEF ReceiverInv, XP!ServiceInv, XP!ActiveInv
    <3>2. block.transfer = t
      BY <1>5, <2>1, <3>1, HalvesAssumption DEF XP!T
    <3> QED BY <1>1, <1>2, <1>4, <1>5, <2>1, <3>2, QueuedAppend
  <2>2. queue'[t] = queue[t] \/ (queue'[t] = Append(queue[t], block)
          /\ block # None /\ active_transfers[block.client] = t)
    BY <1>1, <1>3, <1>9 DEF XP!TypeOK, XP!ForwardBlock
  <2> QED BY <1>6, <2>1, <2>2
<1> QED BY <1>1, <1>7, <1>8, <1>9 DEF XP!DispatchStep

(* The worker of a transfer takes a block, and maybe writes it.            *)
LEMMA PayloadIsOwn ==
  ASSUME NEW t \in XP!T, QueuedInv(t), XP!TypeOK,
         queue[t] # <<>>, XP!HasPayload(Head(queue[t]))
  PROVE  /\ Head(queue[t]) \in OwnBlocks(t)
         /\ \A j \in 1 .. Len(written[t]) :
              written[t][j].pos < Head(queue[t]).pos
<1>1. queue[t] \in Seq(XP!Blocks) BY DEF XP!TypeOK
<1>2. 1 \in 1 .. Len(queue[t]) /\ Head(queue[t]) = queue[t][1] BY <1>1
<1>3. queue[t][1] # XP!AbortBlock(Transfers[t].client)
  BY <1>2, BlockFacts DEF XP!HasPayload
<1> QED BY <1>2, <1>3 DEF QueuedInv

LEMMA QueuedTail ==
  ASSUME XP!TypeOK, NEW t \in XP!T, OwnBlocks(t) \subseteq OwnBlocks(t)',
         QueuedInv(t), WrittenInv(t),
         queue[t] # <<>>, queue'[t] = Tail(queue[t]),
         \/ written'[t] = written[t]
         \/ /\ written'[t] = Append(written[t], Head(queue[t]))
            /\ XP!HasPayload(Head(queue[t]))
  PROVE  QueuedInv(t)' /\ WrittenInv(t)'
<1>1. queue[t] \in Seq(XP!Blocks) /\ written[t] \in Seq(XP!Blocks)
  BY DEF XP!TypeOK
<1>2. /\ Len(queue[t]) \in Nat \ {0} /\ Len(queue'[t]) = Len(queue[t]) - 1
      /\ Head(queue[t]) = queue[t][1]
      /\ \A i \in 1 .. Len(queue'[t]) : queue'[t][i] = queue[t][i + 1]
  BY <1>1
<1>3. /\ Len(written[t]) \in Nat
      /\ \A j \in 1 .. Len(written'[t]) :
           \/ j \in 1 .. Len(written[t]) /\ written'[t][j] = written[t][j]
           \/ /\ written'[t][j] = queue[t][1]
              /\ queue[t][1] \in OwnBlocks(t)
  BY <1>1, <1>2, PayloadIsOwn
<1>4. WrittenInv(t)' BY <1>3 DEF WrittenInv
<1>5. ASSUME NEW i \in 1 .. Len(queue'[t])
      PROVE  \/ queue'[t][i] = XP!AbortBlock(Transfers[t].client)
             \/ /\ queue'[t][i] \in OwnBlocks(t)'
                /\ \A j \in 1 .. i - 1 :
                     queue'[t][j].transfer = t
                       => queue'[t][j].pos < queue'[t][i].pos
                /\ \A j \in 1 .. Len(written'[t]) :
                     written'[t][j].pos < queue'[t][i].pos
  <2>1. /\ i + 1 \in 1 .. Len(queue[t]) /\ 1 \in 1 .. (i + 1) - 1
        /\ queue'[t][i] = queue[t][i + 1]
        /\ \A j \in 1 .. i - 1 :
             /\ j + 1 \in 1 .. (i + 1) - 1 /\ j \in 1 .. Len(queue'[t])
             /\ queue'[t][j] = queue[t][j + 1]
    BY <1>2
  <2>2. CASE queue[t][i + 1] = XP!AbortBlock(Transfers[t].client)
    BY <2>1, <2>2
  <2>3. CASE queue[t][i + 1] # XP!AbortBlock(Transfers[t].client)
    <3>1. /\ queue[t][i + 1] \in OwnBlocks(t)
          /\ \A j \in 1 .. (i + 1) - 1 :
               queue[t][j].transfer = t => queue[t][j].pos < queue[t][i + 1].pos
          /\ \A j \in 1 .. Len(written[t]) :
               written[t][j].pos < queue[t][i + 1].pos
      BY <2>1, <2>3 DEF QueuedInv
    <3>2. queue[t][1] \in OwnBlocks(t) => queue[t][1].pos < queue[t][i + 1].pos
      BY <2>1, <3>1 DEF OwnBlocks
    <3> QED BY <1>3, <2>1, <3>1, <3>2
  <2> QED BY <2>2, <2>3
<1> QED BY <1>4, <1>5 DEF QueuedInv, XP!AbortBlock

LEMMA DeliveryWorker ==
  ASSUME ReceiverInv, NEW w \in Workers, WorkerStep(w)
  PROVE  DeliveryInv'
<1> SUFFICES ASSUME NEW t \in XP!T PROVE QueuedInv(t)' /\ WrittenInv(t)'
  BY DEF DeliveryInv, XP!T
<1>1. /\ DecodeInv /\ dispatched \in 0 .. Len(to_dispatch)
      /\ UNCHANGED <<to_dispatch, dispatched>>
      /\ XP!WorkerStep(w) /\ XP!TypeOK
      /\ QueuedInv(t) /\ WrittenInv(t)
  BY WorkerSteps DEF WorkerStep, receiveVars, decodeVars, ReceiverInv,
                     DeliveryInv, XP!WorkersInv
<1>2. OwnBlocks(t) \subseteq OwnBlocks(t)' BY <1>1, OwnBlocksGrow
<1>3. CASE queue'[t] = queue[t] /\ written'[t] = written[t]
  BY <1>1, <1>2, <1>3, DeliveryKept
<1>4. CASE XP!ClientRecv(w) \/ XP!ClientWriteFail(w)
  <2>1. CASE worker[w].transfer = t
    <3>1. /\ queue[t] # <<>> /\ queue'[t] = Tail(queue[t])
          /\ \/ written'[t] = written[t]
             \/ /\ written'[t] = Append(written[t], Head(queue[t]))
                /\ XP!HasPayload(Head(queue[t]))
      BY <1>1, <1>4, <2>1 DEF XP!TypeOK, XP!ClientRecv, XP!ClientWriteFail
    <3> QED BY <1>1, <1>2, <3>1, QueuedTail
  <2>2. CASE worker[w].transfer # t
    BY <1>1, <1>3, <1>4, <2>2 DEF XP!TypeOK, XP!ClientRecv, XP!ClientWriteFail
  <2> QED BY <2>1, <2>2
<1>5. CASE XP!ClientsSignal(w)
  <2>1. CASE worker[w].transfer = t
    <3>1. queue'[t] = <<>> /\ written'[t] = written[t]
      BY <1>1, <1>5, <2>1 DEF XP!TypeOK, XP!ClientsSignal
    <3> QED BY <1>1, <1>2, <3>1 DEF QueuedInv, WrittenInv
  <2>2. CASE worker[w].transfer # t
    BY <1>1, <1>3, <1>5, <2>2 DEF XP!TypeOK, XP!ClientsSignal
  <2> QED BY <2>1, <2>2
<1>6. CASE XP!ClientsRecv(w) \/ XP!ClientsWait(w) \/ XP!ClientNew(w)
             \/ XP!ClientNewFail(w) \/ XP!ClientGivesUp(w)
  BY <1>3, <1>6 DEF XP!ClientsRecv, XP!ClientsWait, XP!ClientNew,
                    XP!ClientNewFail, XP!ClientGivesUp
<1> QED BY <1>1, <1>4, <1>5, <1>6 DEF XP!WorkerStep
-----------------------------------------------------------------------------
(* The invariant of the two halves together.                               *)
LEMMA DispatchInits == Init => XP!Init
<1> SUFFICES ASSUME Init PROVE XP!Init OBVIOUS
<1>1. DecodeInv BY DecodeInvInit
<1>2. to_dispatch = <<>> /\ dispatched = 0 BY DEF Init, D!DecodeInit
<1>3. \A t : SentOf(t) = {} BY <1>2 DEF SentOf
<1>4. \A t \in XP!T : 0 \in 0 .. Transfers[t].last + 1 /\ IsReached(t, 0)
  BY <1>3, TransferFacts DEF IsReached
<1>5. ReachedInv BY <1>4 DEF ReachedInv
<1>6. Reached = [t \in XP!T |-> 0]
  <2>1. \A t \in XP!T : Reached[t] = 0
    BY <1>1, <1>4, ReachedIs DEF ReachedIsOne
  <2>2. Reached \in [XP!T -> Nat] BY <1>1, <1>5, ReachedType
  <2> QED BY <2>1, <2>2
<1>7. Undispatched = <<>>
  <2>1. Len(Undispatched) = 0 /\ Undispatched \in Seq(XP!Blocks \cup {None})
    BY <1>1, <1>2, UndispatchedFacts
  <2> QED BY <2>1
<1> QED BY <1>6, <1>7 DEF Init, X!Init, XP!Init, X!T, XP!T, X!ClientIds,
                    XP!ClientIds, X!Idle, XP!Idle, X!Cardinality, XP!Cardinality

LEMMA ReceiverInit == Init => ReceiverInv
<1> SUFFICES ASSUME Init PROVE ReceiverInv OBVIOUS
<1>1. DecodeInv BY DecodeInvInit
<1>2. to_dispatch = <<>> /\ dispatched = 0 BY DEF Init, D!DecodeInit
<1>3. \A t : SentOf(t) = {} BY <1>2 DEF SentOf
<1>4. \A t \in XP!T : 0 \in 0 .. Transfers[t].last + 1 /\ IsReached(t, 0)
  BY <1>3, TransferFacts DEF IsReached
<1>5. ReachedInv BY <1>4 DEF ReachedInv
<1>6. XP!Init BY DispatchInits
<1>7. XP!WorkersInv BY <1>6, DispatchAssumptions, XP!WorkersInvInit
<1>8. XP!ServiceInv
  BY <1>6, DispatchAssumptions, XP!LinkInit, XP!ServiceInit DEF XP!ServiceInv
<1> QED BY <1>1, <1>2, <1>5, <1>7, <1>8, DeliveryInit DEF ReceiverInv

(* What a step of the first half does to the second one.                   *)
LEMMA FirstHalfEffect ==
  ASSUME ReblockStep \/ \E d \in Decoders : DecodeStep(d)
  PROVE  /\ UNCHANGED clientSide
         /\ \/ UNCHANGED to_dispatch
            \/ \E m : to_dispatch' = Append(to_dispatch, m)
BY DEF ReblockStep, DecodeStep, decodeVars, D!DecodeStep, D!DecodeRecv,
       D!DecodeFail, D!DecodeSend, D!PassOn

LEMMA NothingComes ==
  ASSUME ReceiverInv, UNCHANGED <<to_dispatch, clientSide>>
  PROVE  XP!WorkersInv' /\ XP!ServiceInv' /\ DeliveryInv'
<1>1. Undispatched' = Undispatched
  BY DEF Undispatched, Decoded, clientSide
<1>2. Reached' = Reached BY ReachedUnchanged
<1>3. UNCHANGED XP!vars
  BY <1>1, <1>2 DEF clientSide, XP!vars, XP!linkVars, XP!dispatchVars,
                    XP!clientVars
<1>4. XP!WorkersInv' /\ XP!ServiceInv'
  BY <1>3, DispatchAssumptions, XP!WorkersInvNext, XP!ServiceNext
     DEF ReceiverInv
<1>5. DeliveryInv'
  <2> SUFFICES ASSUME NEW t \in XP!T PROVE QueuedInv(t)' /\ WrittenInv(t)'
    BY DEF DeliveryInv, XP!T
  <2>1. OwnBlocks(t) \subseteq OwnBlocks(t)'
    BY OwnBlocksGrow DEF ReceiverInv, clientSide
  <2> QED BY <2>1, DeliveryKept DEF clientSide, ReceiverInv, DeliveryInv
<1> QED BY <1>4, <1>5

LEMMA ReceiverStep == ReceiverInv /\ [Next]_vars => ReceiverInv'
<1> SUFFICES ASSUME ReceiverInv, [Next]_vars PROVE ReceiverInv' OBVIOUS
<1>1. /\ DecodeInv /\ dispatched \in 0 .. Len(to_dispatch) /\ ReachedInv
      /\ Len(to_dispatch) \in Nat
  BY DecodedFacts DEF ReceiverInv
<1>2. DecodeInv' BY <1>1, DecodeInvStep
<1>3. CASE UNCHANGED <<to_dispatch, clientSide>>
  BY <1>1, <1>2, <1>3, NothingComes, ReachedUnchanged
     DEF ReceiverInv, clientSide
<1>4. CASE ReblockStep \/ \E d \in Decoders : DecodeStep(d)
  <2>1. UNCHANGED clientSide /\ UNCHANGED dispatched
    BY <1>4, FirstHalfEffect DEF clientSide
  <2>2. ASSUME NEW m, to_dispatch' = Append(to_dispatch, m)
        PROVE  ReceiverInv'
    <3>1. ReachedInv' BY <1>1, <1>2, <2>2, ReachedGrows
    <3>2. XP!WorkersInv' /\ XP!ServiceInv'
      BY <1>2, <2>1, <2>2, TypeGrows, ServiceGrows
    <3>3. DeliveryInv' BY <2>1, <2>2, DeliveryGrows
    <3>4. dispatched' \in 0 .. Len(to_dispatch')
      <4>1. Len(to_dispatch') = Len(to_dispatch) + 1 BY <1>1, <2>2, DecodedFacts
      <4> QED BY <1>1, <2>1, <4>1
    <3> QED BY <1>2, <3>1, <3>2, <3>3, <3>4 DEF ReceiverInv
  <2> QED BY <1>3, <1>4, <2>1, <2>2, FirstHalfEffect
<1>5. CASE DispatchStep \/ \E w \in Workers : WorkerStep(w)
  <2>1. /\ UNCHANGED to_dispatch
        /\ \/ UNCHANGED dispatched
           \/ dispatched < Len(to_dispatch) /\ dispatched' = dispatched + 1
    BY <1>5 DEF DispatchStep, WorkerStep, receiveVars, decodeVars
  <2>2. dispatched' \in 0 .. Len(to_dispatch') BY <1>1, <2>1
  <2>3. ReachedInv' BY <1>1, <2>1, ReachedUnchanged
  <2>4. XP!WorkersInv' /\ XP!ServiceInv' BY <1>5, ServiceKept
  <2>5. DeliveryInv' BY <1>5, DeliveryDispatch, DeliveryWorker
  <2> QED BY <1>2, <2>2, <2>3, <2>4, <2>5 DEF ReceiverInv
<1> QED BY <1>3, <1>4, <1>5 DEF Next, vars, receiveVars, decodeVars

(* What the workers of Receiver::start keep true together: which blocks    *)
(* the decoders hold, what is in the channel between the halves, which     *)
(* worker serves which transfer, and what was written (receive/mod.rs).    *)
THEOREM ReceiverCorrect == Spec => []ReceiverInv
BY ReceiverInit, ReceiverStep, PTL DEF Spec

(* Every variable of either half keeps its type, and dispatch never gets   *)
(* ahead of the decoders; there are never more permits than workers        *)
(* (receive/mod.rs, Receiver::start).                                      *)
THEOREM TypeCorrect == Spec => []TypeOK
<1>1. ReceiverInv => TypeOK
  <2> SUFFICES ASSUME ReceiverInv PROVE TypeOK OBVIOUS
  <2>1. D!DecodeTypeOK BY DecodeTypes DEF ReceiverInv, DecodeInv
  <2>2. X!TypeOK
    <3>1. XP!TypeOK BY DEF ReceiverInv, XP!WorkersInv
    <3>2. X!T = XP!T /\ X!ClientIds = XP!ClientIds /\ X!Runs = XP!Runs
      BY DEF X!T, XP!T, X!ClientIds, XP!ClientIds, X!Runs, XP!Runs
    <3>3. X!Blocks = XP!Blocks /\ X!Outcomes = XP!Outcomes
      BY DEF X!T, XP!T, X!Blocks, XP!Blocks, X!Block, XP!Block, X!Type, XP!Type,
             X!AbortBlock, XP!AbortBlock, X!ClientIds, XP!ClientIds,
             X!Outcomes, XP!Outcomes
    <3>4. X!Cardinality(Workers) = XP!Cardinality(Workers)
      BY DEF X!Cardinality, XP!Cardinality
    <3>5. LET next == [t \in DOMAIN Transfers |-> 0]
          IN /\ next \in [XP!T -> Nat]
             /\ \A t \in XP!T : next[t] <= Transfers[t].last + 1
      BY TransferFacts DEF XP!T
    <3> QED BY <3>1, <3>2, <3>3, <3>4, <3>5 DEF X!TypeOK, XP!TypeOK
  <2> QED BY <2>1, <2>2 DEF ReceiverInv, TypeOK
<1> QED BY <1>1, ReceiverCorrect, PTL
-----------------------------------------------------------------------------
(* The promise of module Delivery, step by step.                           *)
LEMMA PromiseInit == Init => Promise!Init
BY DEF Init, X!Init, X!T, Promise!Init

(* A worker gives up, or is told that the transfer is aborted.             *)
LEMMA WorkerGivesUp ==
  ASSUME ReceiverInv, NEW w \in Workers, worker[w].pc \in {"new", "run"},
         NEW how \in {"aborted", "failed"},
         outcome' = [outcome EXCEPT ![worker[w].transfer] = how],
         UNCHANGED written
  PROVE  Promise!Next
<1> DEFINE t == worker[w].transfer
<1>1. t \in DOMAIN Transfers
  BY DEF ReceiverInv, XP!WorkersInv, XP!WorkerInv, XP!T
<1>2. outcome[t] = None
  BY DEF ReceiverInv, XP!ServiceInv, XP!ServedInv
<1> QED BY <1>1, <1>2 DEF Promise!Next, Promise!GiveUp

LEMMA PromiseRecv ==
  ASSUME ReceiverInv, NEW w \in Workers, XP!ClientRecv(w)
  PROVE  [Promise!Next]_<<written, outcome>>
<1> DEFINE t == worker[w].transfer
           block == Head(queue[t])
<1>1. /\ t \in XP!T /\ outcome[t] = None
      /\ XP!TypeOK /\ QueuedInv(t) /\ WrittenInv(t)
      /\ DecodeInv /\ dispatched \in 0 .. Len(to_dispatch)
  BY DEF ReceiverInv, XP!WorkersInv, XP!WorkerInv, XP!ServiceInv,
         XP!ServedInv, XP!ClientRecv, DeliveryInv
<1>2. /\ worker[w].pc = "run" /\ queue[t] # <<>>
      /\ written' = IF XP!HasPayload(block)
                    THEN [written EXCEPT ![t] = Append(written[t], block)]
                    ELSE written
      /\ IF block.type \in {"abort", "end"}
         THEN outcome' = [outcome EXCEPT ![t] = XP!OutcomeOf(block)]
         ELSE UNCHANGED outcome
  BY DEF XP!ClientRecv, XP!Ends
<1>3. CASE XP!HasPayload(block)
  <2>1. /\ block \in OwnBlocks(t)
        /\ \A j \in 1 .. Len(written[t]) : written[t][j].pos < block.pos
    BY <1>1, <1>2, <1>3, PayloadIsOwn
  <2>2. block \in ToSet(Traffic) /\ block.transfer = t
    BY <1>1, <2>1, OwnBlocksFacts
  <2>3. DOMAIN written[t] = 1 .. Len(written[t])
    BY <1>1 DEF XP!TypeOK
  <2>4. Promise!IsNext(t, block) BY <2>1, <2>2, <2>3 DEF Promise!IsNext
  <2>5. outcome' = IF block.type = "end"
                   THEN [outcome EXCEPT ![t] = "finished"] ELSE outcome
    BY <1>2, <1>3 DEF XP!HasPayload, XP!OutcomeOf
  <2>6. Promise!Deliver(t, block)
    <3> HIDE DEF t, block
    <3> QED BY <1>1, <1>2, <1>3, <2>4, <2>5 DEF Promise!Deliver
  <2> QED BY <1>1, <2>2, <2>6 DEF Promise!Next, XP!T
<1>4. CASE ~ XP!HasPayload(block)
  <2>1. CASE block.type \in {"abort", "end"}
    <3>1. XP!OutcomeOf(block) = "aborted"
      BY <1>4, <2>1 DEF XP!HasPayload, XP!OutcomeOf
    <3> QED BY <1>2, <1>4, <2>1, <3>1, WorkerGivesUp
  <2>2. CASE block.type \notin {"abort", "end"} BY <1>2, <1>4, <2>2
  <2> QED BY <2>1, <2>2
<1> QED BY <1>3, <1>4

LEMMA PromiseStep ==
  ReceiverInv /\ [Next]_vars => [Promise!Next]_<<written, outcome>>
<1> SUFFICES ASSUME ReceiverInv, [Next]_vars
             PROVE  [Promise!Next]_<<written, outcome>>
  OBVIOUS
<1>1. CASE ReblockStep \/ \E d \in Decoders : DecodeStep(d)
  BY <1>1, FirstHalfEffect DEF clientSide
<1>2. CASE DispatchStep
  BY <1>2, DispatchSteps DEF XP!DispatchStep, XP!SynchronizationLost,
                             XP!StartTransfer, XP!ForwardBlock, XP!clientVars
<1>3. ASSUME NEW w \in Workers, WorkerStep(w)
      PROVE  [Promise!Next]_<<written, outcome>>
  <2>1. XP!WorkerStep(w) BY <1>3, WorkerSteps
  <2>2. CASE XP!ClientNewFail(w) \/ XP!ClientWriteFail(w)
               \/ XP!ClientGivesUp(w)
    BY <2>2, WorkerGivesUp DEF XP!ClientNewFail, XP!ClientWriteFail,
                               XP!ClientGivesUp, XP!Ends
  <2>3. CASE XP!ClientRecv(w) BY <2>3, PromiseRecv
  <2>4. CASE XP!ClientsRecv(w) \/ XP!ClientsWait(w) \/ XP!ClientNew(w)
               \/ XP!ClientsSignal(w)
    BY <2>4 DEF XP!ClientsRecv, XP!ClientsWait, XP!ClientNew,
                XP!ClientsSignal
  <2> QED BY <2>1, <2>2, <2>3, <2>4 DEF XP!WorkerStep
<1>4. CASE UNCHANGED vars BY <1>4 DEF vars, clientSide
<1> QED BY <1>1, <1>2, <1>3, <1>4 DEF Next

(* Whatever the link loses or reorders, however the workers restart, fail  *)
(* or overtake each other, a client gets blocks of its own transfer only,  *)
(* in order and at most once, and then one outcome (receive/mod.rs).       *)
THEOREM RefinesDelivery == Spec => ImplementsDelivery
BY PromiseInit, PromiseStep, ReceiverCorrect, PTL
   DEF Spec, ImplementsDelivery, Promise!Spec
-----------------------------------------------------------------------------
(* A link that loses no more than the repair packets, and no block that    *)
(* fails to decode: what the decoders send is the traffic.                 *)
Clean == ~ lossy /\ decode_faults = 0 /\ StartsInTurn

FirstHalfInv == DP!OrderInv /\ DP!LinkInv /\ DP!SlotInv /\ DP!FirstInv

(* The n-th message to the decoders is the n-th block that was sent.       *)
HandedInTurn == \A i \in 1 .. Len(to_decode) : to_decode[i].id = i - 1

(* A transfer starts after those before it.                                *)
StartsReached ==
  \A t, u \in XP!T : u < t /\ Reached[t] > 0 => Reached[u] > 0

CleanInv ==
  /\ FirstHalfInv
  /\ Clean => HandedInTurn /\ StartsReached /\ XP!FlowInv

LEMMA CleanInit == Init => CleanInv
<1> SUFFICES ASSUME Init PROVE CleanInv OBVIOUS
<1>1. DP!DecodeInit BY DecodeInits
<1>2. DP!Init BY <1>1 DEF DP!DecodeInit
<1>3. FirstHalfInv
  BY <1>1, <1>2, DecodeAssumptions, DP!OrderInit, DP!LinkInit, DP!FirstInit
     DEF FirstHalfInv
<1>4. HandedInTurn BY <1>2 DEF DP!Init, HandedInTurn
<1>5. XP!Init BY DispatchInits
<1>6. \A t \in XP!T : Reached[t] = 0 BY <1>5 DEF XP!Init
<1>7. StartsReached BY <1>6 DEF StartsReached
<1>8. XP!FlowInv BY <1>5, DispatchAssumptions, XP!FlowInit
<1> QED BY <1>3, <1>4, <1>7, <1>8 DEF CleanInv

(* What is clean was clean.                                                *)
LEMMA CleanBefore ==
  ASSUME DecodeInv, [Next]_vars, Clean'
  PROVE  Clean
<1>1. [DP!DecodeNext]_(DP!receiveVars) /\ DP!TypeInv
  BY FirstHalfSteps DEF DecodeInv
<1>2. /\ ~ lossy' => ~ lossy
      /\ decode_faults' = 0 => decode_faults = 0
      /\ first # <<>> => first' # <<>> /\ first'[1] = first[1]
      /\ \/ UNCHANGED to_decode
         \/ /\ Len(to_decode') = Len(to_decode) + 1
            /\ \A i \in 1 .. Len(to_decode) : to_decode'[i] = to_decode[i]
  BY <1>1, DecodeAssumptions, DP!LogsGrow
<1>3. Len(to_decode) \in Nat
  BY <1>1 DEF DP!TypeInv, DP!DecodeTypeOK, DP!TypeOK
<1>4. \A i \in 1 .. Len(to_decode) : D!Sources(i)' = D!Sources(i)
  BY <1>2 DEF D!Sources
<1>5. ASSUME NEW i \in 2 .. Len(to_decode), NEW s \in D!Sources(i - 1)
      PROVE  D!Sources(i) = {s + 1}
  <2>1. /\ i \in 1 .. Len(to_decode) /\ i - 1 \in 1 .. Len(to_decode)
        /\ i \in 2 .. Len(to_decode')
    BY <1>2, <1>3
  <2>2. s \in D!Sources(i - 1)' BY <1>4, <2>1
  <2>3. D!Sources(i)' = {s + 1}
    BY <2>1, <2>2 DEF Clean, StartsInTurn
  <2> QED BY <1>4, <2>1, <2>3
<1> QED BY <1>2, <1>5 DEF Clean, StartsInTurn

(* Each message to the decoders follows the one before it.                 *)
HandedNext ==
  \A i \in 1 .. Len(to_decode) :
    to_decode[i].id = IF i = 1 THEN 0 ELSE to_decode[i - 1].id + 1

LEMMA NextIsHanded == DecodeInv /\ FirstHalfInv /\ Clean => HandedNext
<1> SUFFICES ASSUME DecodeInv, FirstHalfInv, Clean,
                    NEW i \in 1 .. Len(to_decode)
             PROVE  to_decode[i].id =
                      IF i = 1 THEN 0 ELSE to_decode[i - 1].id + 1
  BY DEF HandedNext
<1>1. /\ Len(to_decode) \in Nat
      /\ \A j \in 1 .. Len(to_decode) : /\ to_decode[j].id \in Nat
                                        /\ DP!OfItsNumber(to_decode[j])
  <2>1. to_decode \in Seq(DP!Reassembled)
    BY DEF DecodeInv, DP!TypeInv, DP!DecodeTypeOK, DP!TypeOK
  <2>2. \A m \in DP!Reassembled : m.id \in Nat
    BY DecodeAssumptions DEF DP!Reassembled, DP!BlockId
  <2> QED BY <2>1, <2>2 DEF DecodeInv, DP!LapInv, DP!HandedBehind
<1>2. \A j \in 1 .. Len(to_decode) : D!Sources(j) = {to_decode[j].id + 1}
  BY <1>1 DEF D!Sources, DP!OfItsNumber
<1>3. CASE i = 1
  <2>1. first # <<>> /\ to_decode # <<>>
    <3>1. to_decode[1].epoch \in 1 .. Len(first)
      BY <1>3 DEF DecodeInv, DP!TypeInv, DP!IdInv
    <3> QED BY <1>1, <1>3, <3>1
  <2>2. first[1] = 1 /\ ~ lossy BY <2>1 DEF Clean, StartsInTurn
  <2>3. to_decode[1].epoch = 1 BY <2>1, <2>2 DEF FirstHalfInv, DP!FirstInv
  <2>4. DP!Sources(1) = {1}
    BY <1>3, <2>2, <2>3
       DEF FirstHalfInv, DP!SlotInv, DP!InOrderWithoutHole
  <2>5. D!Sources(1) = {1} BY <2>4 DEF D!Sources, DP!Sources
  <2>6. to_decode[1].id + 1 = 1 BY <1>2, <1>3, <2>5
  <2> QED BY <1>1, <1>3, <2>6
<1>4. CASE i # 1
  <2>1. i - 1 \in 1 .. Len(to_decode) /\ i \in 2 .. Len(to_decode)
    BY <1>1, <1>4
  <2>2. D!Sources(i) = {(to_decode[i - 1].id + 1) + 1}
    <3>1. to_decode[i - 1].id + 1 \in D!Sources(i - 1) BY <1>2, <2>1
    <3> QED BY <2>1, <3>1 DEF Clean, StartsInTurn
  <2>3. to_decode[i].id + 1 = (to_decode[i - 1].id + 1) + 1
    BY <1>2, <2>2
  <2> QED BY <1>1, <1>4, <2>1, <2>3
<1> QED BY <1>3, <1>4

LEMMA HandedInTurnStep ==
  ASSUME DecodeInv, DecodeInv', FirstHalfInv', [Next]_vars, Clean',
         HandedInTurn
  PROVE  HandedInTurn'
<1>1. DP!TypeInv /\ [DP!DecodeNext]_(DP!receiveVars)
  BY FirstHalfSteps DEF DecodeInv
<1>2. \/ UNCHANGED to_decode
      \/ /\ Len(to_decode') = Len(to_decode) + 1
         /\ \A i \in 1 .. Len(to_decode) : to_decode'[i] = to_decode[i]
  BY <1>1, DecodeAssumptions, DP!LogsGrow
<1>3. HandedNext' BY NextIsHanded, PTL
<1>4. Len(to_decode) \in Nat
  BY <1>1 DEF DP!TypeInv, DP!DecodeTypeOK, DP!TypeOK
<1>5. CASE UNCHANGED to_decode BY <1>5 DEF HandedInTurn
<1>6. CASE /\ Len(to_decode') = Len(to_decode) + 1
           /\ \A i \in 1 .. Len(to_decode) : to_decode'[i] = to_decode[i]
  <2> SUFFICES ASSUME NEW i \in 1 .. Len(to_decode')
               PROVE  to_decode'[i].id = i - 1
    BY DEF HandedInTurn
  <2>1. CASE i \in 1 .. Len(to_decode)
    BY <1>6, <2>1 DEF HandedInTurn
  <2>2. CASE i \notin 1 .. Len(to_decode)
    <3>1. i = 1 \/ (i # 1 /\ i - 1 \in 1 .. Len(to_decode))
      BY <1>4, <1>6, <2>2
    <3>2. i # 1 => to_decode'[i - 1].id = (i - 1) - 1
      BY <1>6, <3>1 DEF HandedInTurn
    <3> QED BY <1>3, <3>1, <3>2 DEF HandedNext
  <2> QED BY <2>1, <2>2
<1> QED BY <1>2, <1>5, <1>6

(* What the decoders have sent is the beginning of the traffic.            *)
SentIsTraffic ==
  \A i \in 1 .. Len(to_dispatch) :
    /\ to_dispatch[i] # None
    /\ i \in 1 .. Len(Traffic)
    /\ Decoded(to_dispatch[i]) = Traffic[i]

LEMMA CleanIsTraffic ==
  DecodeInv /\ FirstHalfInv /\ Clean /\ HandedInTurn => SentIsTraffic
<1> SUFFICES ASSUME DecodeInv, FirstHalfInv, Clean, HandedInTurn,
                    NEW i \in 1 .. Len(to_dispatch)
             PROVE  /\ to_dispatch[i] # None
                    /\ i \in 1 .. Len(Traffic)
                    /\ Decoded(to_dispatch[i]) = Traffic[i]
  BY DEF SentIsTraffic
<1>1. /\ i \in 1 .. Len(to_decode)
      /\ to_dispatch[i] = to_decode[i] /\ to_dispatch[i] # None
  BY DecodeAssumptions, DP!DispatchedIsHanded
     DEF DecodeInv, FirstHalfInv, Clean
<1>2. Place(i) = i /\ Len(to_dispatch) \in Nat
  BY <1>1, DecodedFacts DEF Place, HandedInTurn
<1> QED BY <1>1, <1>2, DecodedFacts

(* The blocks of a transfer take their turns, and so do the transfers.     *)
LEMMA TrafficTurns ==
  ASSUME NEW s \in 1 .. Len(Traffic), NEW t \in XP!T,
         NEW pos \in 0 .. Transfers[t].last, Traffic[s] = XP!Block(t, pos)
  PROVE  /\ pos > 0 => \E r \in 1 .. s - 1 : Traffic[r] = XP!Block(t, pos - 1)
         /\ pos = 0 => \A u \in 1 .. t - 1 :
                         \E r \in 1 .. s - 1 : Traffic[r] = XP!Block(u, 0)
<1>1. \A u, p : X!Block(u, p) = XP!Block(u, p)
  BY DEF X!Block, XP!Block, X!Type, XP!Type
<1>2. s \in DOMAIN Traffic BY TrafficFacts
<1>3. PICK u \in DOMAIN Transfers : \E p \in 0 .. Transfers[u].last :
        /\ Traffic[s] = XP!Block(u, p)
        /\ p > 0 => \E r \in 1 .. s - 1 : Traffic[r] = XP!Block(u, p - 1)
        /\ p = 0 => \A v \in 1 .. u - 1 :
                      \E r \in 1 .. s - 1 : Traffic[r] = XP!Block(v, 0)
  BY <1>1, <1>2, TrafficAssumption
<1>4. PICK p \in 0 .. Transfers[u].last :
        /\ Traffic[s] = XP!Block(u, p)
        /\ p > 0 => \E r \in 1 .. s - 1 : Traffic[r] = XP!Block(u, p - 1)
        /\ p = 0 => \A v \in 1 .. u - 1 :
                      \E r \in 1 .. s - 1 : Traffic[r] = XP!Block(v, 0)
  BY <1>3
<1>5. u = t /\ p = pos
  <2>1. u \in XP!T BY DEF XP!T
  <2>2. XP!Block(t, pos).transfer = t /\ XP!Block(t, pos).pos = pos
    BY BlockFacts
  <2>3. XP!Block(u, p).transfer = u /\ XP!Block(u, p).pos = p
    BY <1>4, <2>1, BlockFacts
  <2>4. XP!Block(u, p) = XP!Block(t, pos) BY <1>4
  <2> QED BY <2>2, <2>3, <2>4
<1> QED BY <1>4, <1>5

(* A decoder sends the next block of the traffic: to dispatch, a sender    *)
(* without losses.                                                         *)
LEMMA CleanArrive ==
  ASSUME ReceiverInv, DecodeInv', UNCHANGED clientSide,
         NEW m, to_dispatch' = Append(to_dispatch, m),
         SentIsTraffic, SentIsTraffic', StartsReached
  PROVE  StartsReached' /\ \E t \in XP!T : XP!Arrive(t)
<1> DEFINE n == Len(to_dispatch)
<1>1. /\ DecodeInv /\ ReachedInv /\ dispatched \in 0 .. Len(to_dispatch)
      /\ Reached \in [XP!T -> Nat]
  BY ReachedType DEF ReceiverInv
<1>2. /\ n \in Nat /\ Len(to_dispatch') = n + 1 /\ to_dispatch'[n + 1] = m
  BY <1>1, DecodedFacts
<1>3. m # None /\ n + 1 \in 1 .. Len(Traffic) /\ Decoded(m) = Traffic[n + 1]
  <2>1. n + 1 \in 1 .. Len(to_dispatch') BY <1>2
  <2> HIDE DEF n
  <2> QED BY <1>2, <2>1 DEF SentIsTraffic, Decoded
<1>4. PICK t \in XP!T : \E p \in 0 .. Transfers[t].last :
        /\ Decoded(m) = XP!Block(t, p)
        /\ Reached[t] <= p
        /\ Reached' = [Reached EXCEPT ![t] = p + 1]
  BY <1>1, <1>3, ReachedGrows
<1>5. PICK p \in 0 .. Transfers[t].last :
        /\ Decoded(m) = XP!Block(t, p)
        /\ Reached[t] <= p
        /\ Reached' = [Reached EXCEPT ![t] = p + 1]
  BY <1>4
<1>6. ASSUME NEW r \in 1 .. n, NEW u \in XP!T,
             NEW q \in 0 .. Transfers[u].last, Traffic[r] = XP!Block(u, q)
      PROVE  q < Reached[u]
  <2>1. q \in SentOf(u)
    BY <1>6, BlockFacts DEF SentIsTraffic, SentOf
  <2>2. PICK k \in 0 .. Transfers[u].last + 1 : IsReached(u, k)
    BY <1>1 DEF ReachedInv
  <2>3. Reached[u] = k BY <1>1, <2>2, ReachedIs DEF ReachedIsOne
  <2> QED BY <2>1, <2>2, <2>3 DEF IsReached
<1>7. /\ p > 0 => \E r \in 1 .. n : Traffic[r] = XP!Block(t, p - 1)
      /\ p = 0 => \A u \in 1 .. t - 1 :
                    \E r \in 1 .. n : Traffic[r] = XP!Block(u, 0)
  <2>1. PICK s \in 1 .. Len(Traffic) : s = n + 1 BY <1>3
  <2>2. s - 1 = n BY <1>2, <2>1
  <2>3. Traffic[s] = XP!Block(t, p) BY <1>3, <1>5, <2>1
  <2>4. /\ p > 0 => \E r \in 1 .. s - 1 : Traffic[r] = XP!Block(t, p - 1)
        /\ p = 0 => \A u \in 1 .. t - 1 :
                      \E r \in 1 .. s - 1 : Traffic[r] = XP!Block(u, 0)
    BY <2>3, TrafficTurns
  <2> QED BY <2>2, <2>4
<1>8. t \in Nat /\ p \in Nat /\ Transfers[t].last \in Nat /\ Reached[t] \in Nat
  BY <1>1, TransferFacts
<1>9. Reached[t] = p
  <2>1. CASE p > 0
    <3>1. PICK r \in 1 .. n : Traffic[r] = XP!Block(t, p - 1) BY <1>7, <2>1
    <3>2. p - 1 \in 0 .. Transfers[t].last BY <1>8, <2>1
    <3>3. p - 1 < Reached[t] BY <1>6, <3>1, <3>2
    <3> QED BY <1>5, <1>8, <3>3
  <2> QED BY <1>5, <1>8, <2>1
<1>10. \A u \in XP!T : u < t => Reached[u] > 0
  <2> SUFFICES ASSUME NEW u \in XP!T, u < t PROVE Reached[u] > 0
    OBVIOUS
  <2>1. CASE p > 0 BY <1>9, <2>1 DEF StartsReached
  <2>2. CASE p = 0
    <3>1. u \in 1 .. t - 1 BY <1>8, TransferFacts
    <3>2. PICK r \in 1 .. n : Traffic[r] = XP!Block(u, 0)
      BY <1>7, <2>2, <3>1
    <3>3. 0 \in 0 .. Transfers[u].last BY TransferFacts
    <3> QED BY <1>6, <3>2, <3>3
  <2> QED BY <1>8, <2>1, <2>2
<1>11. StartsReached'
  <2> SUFFICES ASSUME NEW a \in XP!T, NEW b \in XP!T, b < a, Reached'[a] > 0
               PROVE  Reached'[b] > 0
    BY DEF StartsReached, XP!T
  <2>1. Reached[b] > 0
    <3>1. CASE a = t BY <1>10, <3>1
    <3>2. CASE a # t
      <4>1. Reached'[a] = Reached[a] BY <1>1, <1>5, <3>2
      <4> QED BY <4>1 DEF StartsReached
    <3> QED BY <3>1, <3>2
  <2> QED BY <1>1, <1>5, <1>8, <2>1
<1>12. XP!Arrive(t)
  <2>1. Undispatched' = Append(Undispatched, XP!Block(t, Reached[t]))
    BY <1>1, <1>5, <1>9, UndispatchedGrows DEF clientSide
  <2>2. XP!Due(t)
    BY <1>1, <1>5, <1>8, <1>9, <1>10, TransferFacts DEF XP!Due
  <2> QED BY <2>1, <2>2 DEF XP!Arrive, clientSide, XP!dispatchVars, XP!clientVars
<1> QED BY <1>11, <1>12

LEMMA CleanStep ==
  ASSUME ~ SlowDecoders, MaxSkew <= D!WindowWidth,
         ReceiverInv, ReceiverInv', CleanInv, [Next]_vars
  PROVE  CleanInv'
<1>1. DecodeInv /\ DecodeInv' /\ DP!TypeInv BY DEF ReceiverInv, DecodeInv
<1>2. [DP!DecodeNext]_(DP!receiveVars) BY FirstHalfSteps
<1>3. FirstHalfInv'
  <2>1. DP!OrderInv /\ DP!LinkInv /\ DP!SlotInv /\ DP!FirstInv
    BY DEF CleanInv, FirstHalfInv
  <2>2. MaxSkew <= DP!WindowWidth BY DEF D!WindowWidth, DP!WindowWidth
  <2>3. DP!OrderInv'
    BY <1>1, <1>2, <2>1, DecodeAssumptions, DP!OrderStep
  <2>4. DP!LinkInv' /\ DP!SlotInv'
    BY <1>1, <1>2, <2>1, <2>2, DecodeAssumptions, DP!LinkUnderDecoders
  <2>5. DP!FirstInv'
    BY <1>1, <1>2, <2>1, DecodeAssumptions, DP!FirstStep
  <2> QED BY <2>3, <2>4, <2>5 DEF FirstHalfInv
<1> SUFFICES ASSUME Clean'
             PROVE  HandedInTurn' /\ StartsReached' /\ XP!FlowInv'
  BY <1>3 DEF CleanInv
<1>4. Clean BY <1>1, CleanBefore
<1>5. FirstHalfInv /\ HandedInTurn /\ StartsReached /\ XP!FlowInv
  BY <1>4 DEF CleanInv
<1>6. HandedInTurn' BY <1>1, <1>3, <1>5, HandedInTurnStep
<1>7. SentIsTraffic BY <1>1, <1>4, <1>5, CleanIsTraffic
<1>8. SentIsTraffic' BY <1>1, <1>3, <1>6, CleanIsTraffic, PTL
<1>9. [XP!Next]_(XP!vars) /\ StartsReached'
  <2>1. CASE UNCHANGED <<to_dispatch, clientSide>>
    <3>1. Undispatched' = Undispatched
      BY <2>1 DEF Undispatched, Decoded, clientSide
    <3>2. Reached' = Reached BY <2>1, ReachedUnchanged
    <3> QED BY <1>5, <2>1, <3>1, <3>2
            DEF clientSide, XP!vars, XP!linkVars, XP!dispatchVars,
                XP!clientVars, StartsReached, XP!T
  <2>2. CASE ReblockStep \/ \E d \in Decoders : DecodeStep(d)
    <3>1. UNCHANGED clientSide BY <2>2, FirstHalfEffect
    <3>2. ASSUME NEW m, to_dispatch' = Append(to_dispatch, m)
          PROVE  [XP!Next]_(XP!vars) /\ StartsReached'
      BY <1>1, <1>5, <1>7, <1>8, <3>1, <3>2, CleanArrive
         DEF XP!Next, XP!Senders
    <3> QED BY <2>1, <2>2, <3>1, <3>2, FirstHalfEffect
  <2>3. CASE DispatchStep \/ \E w \in Workers : WorkerStep(w)
    <3>1. UNCHANGED to_dispatch
      BY <2>3 DEF DispatchStep, WorkerStep, receiveVars, decodeVars
    <3>2. Reached' = Reached BY <3>1, ReachedUnchanged
    <3>3. StartsReached' BY <1>5, <3>2 DEF StartsReached, XP!T
    <3> QED BY <2>3, <3>3, DispatchSteps, WorkerSteps DEF XP!Next
  <2> QED BY <2>1, <2>2, <2>3 DEF Next, vars, receiveVars, decodeVars
<1>10. XP!FlowInv'
  BY <1>5, <1>9, DispatchAssumptions, XP!FlowInvNext DEF ReceiverInv
<1> QED BY <1>6, <1>9, <1>10

(* On a link that loses no more than the repair packets and reorders no    *)
(* more than the window, a client of which client_end is told a success    *)
(* got all of its transfer, if no block fails to decode, if reblock starts *)
(* where no block is out of turn, and if the decoders are done when        *)
(* reset_timeout elapses (receive/reblock.rs, receive/decode.rs,           *)
(* receive/dispatch.rs, receive/client.rs).                                *)
THEOREM FinishedIsCompleteCorrect ==
  ASSUME ~ SlowDecoders, MaxSkew <= D!WindowWidth
  PROVE  Spec => []FinishedIsCompleteIfClean
<1> DEFINE I == ReceiverInv /\ CleanInv
<1>1. Init => I BY ReceiverInit, CleanInit
<1>2. I /\ [Next]_vars => I' BY ReceiverStep, CleanStep
<1>3. I => FinishedIsCompleteIfClean
  <2> SUFFICES ASSUME XP!FlowInv PROVE X!FinishedIsComplete
    BY DEF CleanInv, Clean, FinishedIsCompleteIfClean
  <2> QED BY DEF XP!FlowInv, XP!FinishedIsCompleteIfSound, XP!Sound,
                 X!FinishedIsComplete, XP!Complete, X!Complete, XP!T, X!T,
                 XP!Block, X!Block, XP!Type, X!Type
<1> HIDE DEF I
<1> QED BY <1>1, <1>2, <1>3, PTL DEF Spec
=============================================================================
