------------------------ MODULE SendPipeline_proofs ------------------------
(***************************************************************************)
(* Proofs about SendPipeline, for any number of encoding workers below     *)
(* the number of block numbers.                                            *)
(*                                                                         *)
(* The argument: the blocks between passed and Taken are exactly those in  *)
(* the hands of the encoding workers, one block per worker.  So at most N  *)
(* of them are in flight, and N < IdCount makes their 8-bit numbers        *)
(* distinct: only the worker with block number passed + 1 can pass.        *)
(***************************************************************************)
EXTENDS SendPipeline, ModularLemmas, FiniteSetTheorems, TLAPS

(* How many numbered blocks the encoding workers have taken so far.        *)
Taken == Len(ordered) - Len(to_encoding)

TypeInv ==
  /\ TypeOK
  /\ udp_pc = "drain" => udp_count > 0
  /\ ordering_pc = "send" => ordering_held \in Block

(* The block numbers are positions modulo IdCount.                         *)
IdInv ==
  /\ \A n \in 1 .. Len(ordered) :
       ordered[n].seq = n /\ ordered[n].id = (n - 1) % IdCount
  /\ ordering_id = Len(ordered) % IdCount
  /\ block_to_send = passed % IdCount

(* to_encoding is the end of ordered.                                      *)
QueueInv ==
  /\ passed + Len(to_encoding) <= Len(ordered)
  /\ \A i \in 1 .. Len(to_encoding) : to_encoding[i] = ordered[Taken + i]

(* The workers hold the blocks from passed + 1 to Taken, each of them once. *)
HeldInv ==
  /\ \A e \in Encoders : encoding[e] # None =>
       /\ encoding[e].seq \in passed + 1 .. Taken
       /\ encoding[e] = ordered[encoding[e].seq]
  /\ \A e, f \in Encoders :
       (encoding[e] # None /\ encoding[f] # None
          /\ encoding[e].seq = encoding[f].seq) => e = f
  /\ \A n \in passed + 1 .. Taken :
       \E e \in Encoders : encoding[e] # None /\ encoding[e].seq = n

(* There is one None at most, and none once udp has seen it.               *)
StopInv ==
  /\ \A j, k \in 1 .. Len(to_send) :
       to_send[j] = None /\ to_send[k] = None => j = k
  /\ \A j \in 1 .. Len(to_send) :
       to_send[j] = None =>
         ordering_pc = "done" /\ udp_pc \in {"loop", "failed"}
  /\ udp_pc \in {"drain", "done"} => ordering_pc = "done"

(* How many Nones precede position j of to_send.                           *)
NonesBefore(j) == IF \E k \in 1 .. j - 1 : to_send[k] = None THEN 1 ELSE 0

Nones == IF \E k \in 1 .. Len(to_send) : to_send[k] = None THEN 1 ELSE 0

(* While udp works, to_send continues wire.                                *)
SendContinuesWire ==
  /\ passed = Len(wire) + Len(to_send) - Nones
  /\ \A j \in 1 .. Len(to_send) :
       to_send[j] # None =>
         to_send[j] = ordered[Len(wire) + j - NonesBefore(j)]

SendInv == udp_pc # "failed" => SendContinuesWire

WireInv ==
  /\ Len(wire) <= passed
  /\ \A i \in 1 .. Len(wire) : wire[i] = ordered[i]

IInv ==
  /\ TypeInv
  /\ IdInv
  /\ QueueInv
  /\ HeldInv
  /\ StopInv
  /\ SendInv
  /\ WireInv
-----------------------------------------------------------------------------
(* The remainder of a count is a block number.                             *)
LEMMA IdType ==
  ASSUME NEW n \in Nat
  PROVE  n % IdCount \in BlockId
BY IdCountAssumption, DivMod DEF BlockId

(* What ordering and encoding compute is the number of the next position.  *)
LEMMA NextId ==
  ASSUME NEW n \in Nat
  PROVE  /\ WrappingAdd(n % IdCount, 1) = (n + 1) % IdCount
         /\ WrappingAdd(n % IdCount, 1) \in BlockId
<1>1. WrappingAdd(n % IdCount, 1) = (n + 1) % IdCount
  BY IdCountAssumption, ModSucc DEF WrappingAdd
<1> QED BY <1>1, IdType

(* The workers of the pipeline keep every variable in its type.            *)
LEMMA TypeInit == Init => TypeInv
BY EncodersAssumption, IdCountAssumption, FaultAssumption
   DEF Init, TypeInv, TypeOK, BlockId

LEMMA TypeStep == TypeInv /\ [Next]_pipelineVars => TypeInv'
<1> SUFFICES ASSUME TypeInv, [Next]_pipelineVars PROVE TypeInv'
  OBVIOUS
<1> USE EncodersAssumption, IdCountAssumption, FaultAssumption
<1> USE DEF TypeInv, TypeOK
<1>1. CASE Submit
  BY <1>1 DEF Submit, SubmitTo, orderingVars, udpVars
<1>2. CASE OrderingRecv
  BY <1>2 DEF OrderingRecv, orderingVars, udpVars
<1>3. CASE OrderingSend
  <2>1. WrappingAdd(ordering_id, 1) \in BlockId
    BY DEF WrappingAdd, BlockId
  <2>2. [id |-> ordering_id, block |-> ordering_held, seq |-> Len(ordered) + 1]
          \in Item
    BY <1>3 DEF OrderingSend, Item
  <2> QED BY <1>3, <2>1, <2>2 DEF OrderingSend, orderingVars, udpVars
<1>4. CASE OrderingStop
  BY <1>4 DEF OrderingStop, orderingVars, udpVars
<1>5. ASSUME NEW e \in Encoders, EncodingRecv(e) PROVE TypeInv'
  BY <1>5 DEF EncodingRecv, orderingVars, udpVars
<1>6. ASSUME NEW e \in Encoders, EncodingSend(e) PROVE TypeInv'
  <2>1. WrappingAdd(block_to_send, 1) \in BlockId
    BY DEF WrappingAdd, BlockId
  <2> QED BY <1>6, <2>1 DEF EncodingSend, PassOn, orderingVars, udpVars
<1>7. CASE UdpSend
  BY <1>7 DEF UdpSend, orderingVars, udpVars
<1>8. CASE UdpFail
  BY <1>8 DEF UdpFail, orderingVars, udpVars
<1>9. CASE UdpNone
  BY <1>9 DEF UdpNone, orderingVars, udpVars
<1>10. CASE UNCHANGED pipelineVars
  BY <1>10 DEF pipelineVars, orderingVars, udpVars
<1> QED
  BY <1>1, <1>2, <1>3, <1>4, <1>5, <1>6, <1>7, <1>8, <1>9, <1>10
  DEF Next, Pipeline

(* Every reachable state of the sending pipeline is well typed.            *)
THEOREM TypeCorrect == Spec => []TypeOK
<1>1. TypeInv => TypeOK BY DEF TypeInv
<1> QED BY <1>1, TypeInit, TypeStep, PTL DEF Spec
-----------------------------------------------------------------------------
(* No more blocks are in flight than there are encoding workers.           *)
LEMMA InFlightBound ==
  ASSUME TypeInv, QueueInv, HeldInv
  PROVE  Taken - passed <= N
<1> DEFINE S == passed + 1 .. Taken
<1> DEFINE f == [n \in S |-> CHOOSE e \in Encoders :
                               encoding[e] # None /\ encoding[e].seq = n]
<1>1. \A n \in S : /\ f[n] \in Encoders
                   /\ encoding[f[n]].seq = n
  BY DEF HeldInv
<1>2. f \in Injection(S, Encoders)
  <2>1. f \in [S -> Encoders] BY <1>1
  <2>2. \A a, b \in S : f[a] = f[b] => a = b BY <1>1
  <2> QED BY <2>1, <2>2 DEF Injection, IsInjective
<1>3. Taken \in Int /\ passed \in Int
  BY DEF TypeInv, TypeOK, Taken
<1>4. Cardinality(S) <= N
  BY <1>2, EncodersAssumption, FS_Injection DEF N
<1>5. Cardinality(S) = IF passed + 1 > Taken THEN 0
                                           ELSE Taken - (passed + 1) + 1
  BY <1>3, FS_Interval
<1>6. N \in Nat BY EncodersAssumption, IdCountAssumption
<1> QED BY <1>3, <1>4, <1>5, <1>6

(* The worker that wait_while lets through holds the next block, not one a *)
(* lap later with the same 8-bit number.                                   *)
LEMMA OnlyNextPasses ==
  ASSUME TypeInv, IdInv, QueueInv, HeldInv,
         NEW e \in Encoders, encoding[e] # None, encoding[e].id = block_to_send
  PROVE  encoding[e].seq = passed + 1
<1> DEFINE n == encoding[e].seq
<1>1. n \in passed + 1 .. Taken /\ encoding[e] = ordered[n]
  BY DEF HeldInv
<1>2. /\ passed \in Nat /\ Taken \in Nat /\ Taken <= Len(ordered)
      /\ n \in 1 .. Len(ordered)
  BY <1>1 DEF TypeInv, TypeOK, QueueInv, Taken
<1>3. (n - 1) % IdCount = passed % IdCount
  BY <1>1, <1>2 DEF IdInv
<1>4. (n - 1) - passed < IdCount /\ passed <= n - 1 /\ n - 1 \in Nat
  BY <1>1, <1>2, InFlightBound, EncodersAssumption, IdCountAssumption
<1> HIDE DEF n
<1>5. passed = n - 1
  BY <1>2, <1>3, <1>4, IdCountAssumption, ModInj
<1> QED BY <1>2, <1>5 DEF n

LEMMA InvInit == Init => IInv
<1> SUFFICES ASSUME Init PROVE IInv OBVIOUS
<1>1. TypeInv BY TypeInit
<1>2. 0 % IdCount = 0 BY IdCountAssumption
<1>3. IdInv /\ QueueInv /\ HeldInv
  BY <1>2 DEF Init, IdInv, QueueInv, HeldInv, Taken
<1>4. StopInv /\ SendInv /\ WireInv
  BY DEF Init, StopInv, SendInv, SendContinuesWire, WireInv, Nones,
         NonesBefore
<1> QED BY <1>1, <1>3, <1>4 DEF IInv

-----------------------------------------------------------------------------
(* One lemma per worker: its steps keep the inductive invariant.           *)
LEMMA OrderingKeeps ==
  ASSUME IInv, TypeInv', OrderingRecv \/ OrderingSend \/ OrderingStop
  PROVE  IInv'
<1> USE DEF IInv, orderingVars, udpVars
<1>1. CASE OrderingRecv
  <2>1. IdInv' /\ QueueInv' /\ HeldInv' /\ SendInv' /\ WireInv'
    BY <1>1 DEF OrderingRecv, IdInv, QueueInv, HeldInv, SendInv,
                SendContinuesWire, WireInv, Taken, NonesBefore, Nones
  <2>2. StopInv'
    BY <1>1 DEF OrderingRecv, StopInv
  <2> QED BY <2>1, <2>2
<1>2. CASE OrderingSend
  <2> DEFINE L == Len(ordered)
  <2> DEFINE item == [id |-> ordering_id, block |-> ordering_held,
                      seq |-> L + 1]
  <2>1. /\ L \in Nat /\ item \in Item
        /\ ordered \in Seq(Item) /\ to_encoding \in Seq(Item)
        /\ to_send \in Seq(Item \cup {None}) /\ wire \in Seq(Item)
        /\ passed \in Nat
    BY <1>2 DEF OrderingSend, TypeInv, TypeOK, Item
  <2>2. /\ ordered' = Append(ordered, item)
        /\ to_encoding' = Append(to_encoding, item)
        /\ ordering_id' = WrappingAdd(ordering_id, 1)
        /\ ordering_pc = "send" /\ ordering_pc' = "recv"
        /\ UNCHANGED <<encoding, block_to_send, to_send, udpVars, passed>>
    BY <1>2 DEF OrderingSend
  <2>3. /\ Len(ordered') = L + 1 /\ ordered'[L + 1] = item
        /\ \A n \in 1 .. L : ordered'[n] = ordered[n]
        /\ Len(to_encoding') = Len(to_encoding) + 1
        /\ to_encoding'[Len(to_encoding) + 1] = item
        /\ \A n \in 1 .. Len(to_encoding) : to_encoding'[n] = to_encoding[n]
        /\ Taken' = Taken
    BY <2>1, <2>2 DEF Taken
  <2>4. IdInv'
    <3>1. ordering_id = L % IdCount BY DEF IdInv
    <3>2. ordering_id' = (L + 1) % IdCount BY <2>1, <2>2, <3>1, NextId
    <3>3. ASSUME NEW n \in 1 .. L + 1
          PROVE  ordered'[n].seq = n /\ ordered'[n].id = (n - 1) % IdCount
      <4>1. CASE n \in 1 .. L BY <4>1, <2>3 DEF IdInv
      <4>2. CASE n = L + 1
        <5>1. n - 1 = L BY <4>2, <2>1
        <5> QED BY <4>2, <2>3, <3>1, <5>1
      <4> QED BY <2>1, <4>1, <4>2
    <3> QED BY <2>2, <2>3, <3>2, <3>3 DEF IdInv
  <2>5. QueueInv'
    <3>1. /\ Len(to_encoding) \in Nat /\ passed + Len(to_encoding) <= L
          /\ Taken \in Nat /\ Taken + Len(to_encoding) = L
      BY <2>1 DEF QueueInv, Taken
    <3>2. ASSUME NEW i \in 1 .. Len(to_encoding) + 1
          PROVE  to_encoding'[i] = ordered'[Taken + i]
      <4>1. CASE i \in 1 .. Len(to_encoding)
        <5>1. Taken + i \in 1 .. L BY <3>1, <4>1
        <5> QED BY <4>1, <5>1, <2>3 DEF QueueInv
      <4>2. CASE i = Len(to_encoding) + 1
        <5>1. Taken + i = L + 1 BY <3>1, <4>2
        <5> QED BY <4>2, <5>1, <2>3
      <4> QED BY <3>1, <4>1, <4>2
    <3>3. passed' + Len(to_encoding') <= Len(ordered')
      <4>1. passed' = passed BY <2>2
      <4> QED BY <2>1, <2>3, <3>1, <4>1
    <3>4. \A i \in 1 .. Len(to_encoding') :
            to_encoding'[i] = ordered'[Taken' + i]
      BY <2>3, <3>2
    <3> QED BY <3>3, <3>4 DEF QueueInv
  <2>6. HeldInv'
    <3>1. \A e \in Encoders : encoding[e] # None =>
            encoding[e].seq \in 1 .. L
      BY <2>1 DEF HeldInv, QueueInv, Taken
    <3> QED BY <2>1, <2>2, <2>3, <3>1 DEF HeldInv
  <2>7. StopInv'
    BY <2>2 DEF StopInv
  <2>8. SendInv'
    <3>1. ASSUME udp_pc # "failed", NEW j \in 1 .. Len(to_send)
          PROVE  to_send[j] # None => Len(wire) + j - NonesBefore(j) \in 1 .. L
      <4>1. passed <= L BY <2>1 DEF QueueInv
      <4>2. passed = Len(wire) + Len(to_send) - Nones
        BY <3>1 DEF SendInv, SendContinuesWire
      <4>3. /\ Nones \in {0, 1} /\ NonesBefore(j) \in {0, 1}
            /\ NonesBefore(j) = 1 => j > 1
            /\ Nones = 1 /\ NonesBefore(j) = 0 /\ j = Len(to_send)
                 => to_send[j] = None
        BY <2>1 DEF Nones, NonesBefore
      <4> QED BY <2>1, <3>1, <4>1, <4>2, <4>3
    <3> QED BY <2>1, <2>2, <2>3, <3>1 DEF SendInv, SendContinuesWire,
                                          NonesBefore, Nones
  <2>9. WireInv'
    BY <2>1, <2>2, <2>3 DEF WireInv, QueueInv
  <2> QED BY <2>4, <2>5, <2>6, <2>7, <2>8, <2>9
<1>3. CASE OrderingStop
  <2>1. /\ to_send \in Seq(Item \cup {None}) /\ passed \in Nat
        /\ wire \in Seq(Item)
    BY DEF TypeInv, TypeOK
  <2>2. /\ to_send' = Append(to_send, None)
        /\ ordering_pc = "stop" /\ ordering_pc' = "done"
        /\ UNCHANGED <<ordering_id, to_encoding, encoding, block_to_send,
                       udpVars, ordered, passed>>
    BY <1>3 DEF OrderingStop
  <2>3. IdInv' /\ QueueInv' /\ HeldInv' /\ WireInv'
    BY <2>2 DEF IdInv, QueueInv, HeldInv, WireInv, Taken
  <2>4. /\ Len(to_send') = Len(to_send) + 1
        /\ to_send'[Len(to_send) + 1] = None
        /\ \A j \in 1 .. Len(to_send) :
             to_send'[j] = to_send[j] /\ to_send[j] # None
    BY <2>1, <2>2 DEF StopInv
  <2>5. StopInv'
    BY <2>1, <2>2, <2>4 DEF StopInv, TypeInv, TypeOK
  <2>6. SendInv'
    <3> SUFFICES ASSUME udp_pc # "failed" PROVE SendContinuesWire'
      BY <2>2 DEF SendInv
    <3>1. Nones = 0 /\ Nones' = 1
      BY <2>1, <2>4 DEF Nones
    <3>2. passed' = Len(wire') + Len(to_send') - Nones'
      BY <2>1, <2>2, <2>4, <3>1 DEF SendInv, SendContinuesWire
    <3>3. \A j \in 1 .. Len(to_send) : NonesBefore(j)' = NonesBefore(j)
      <4>1. \A j \in 1 .. Len(to_send) : \A k \in 1 .. j - 1 :
              to_send'[k] = to_send[k]
        BY <2>1, <2>4
      <4> QED BY <4>1 DEF NonesBefore
    <3> QED BY <2>1, <2>2, <2>4, <3>2, <3>3 DEF SendInv, SendContinuesWire
  <2> QED BY <2>3, <2>5, <2>6
<1> QED BY <1>1, <1>2, <1>3

LEMMA EncodingKeeps ==
  ASSUME IInv, TypeInv', NEW e \in Encoders, EncodingRecv(e) \/ EncodingSend(e)
  PROVE  IInv'
<1> USE DEF IInv, orderingVars, udpVars
<1>0. /\ ordered \in Seq(Item) /\ to_encoding \in Seq(Item)
      /\ to_send \in Seq(Item \cup {None}) /\ wire \in Seq(Item)
      /\ encoding \in [Encoders -> Item \cup {None}] /\ passed \in Nat
  BY DEF TypeInv, TypeOK
<1>1. CASE EncodingRecv(e)
  <2> DEFINE item == Head(to_encoding)
  <2>1. /\ encoding[e] = None /\ Len(to_encoding) > 0
        /\ encoding' = [encoding EXCEPT ![e] = item]
        /\ to_encoding' = Tail(to_encoding)
        /\ UNCHANGED <<orderingVars, block_to_send, to_send, udpVars, ordered,
                       passed>>
    BY <1>0, <1>1 DEF EncodingRecv
  <2>2. /\ Len(to_encoding') = Len(to_encoding) - 1
        /\ \A i \in 1 .. Len(to_encoding) - 1 :
             to_encoding'[i] = to_encoding[i + 1]
        /\ Taken \in Nat /\ Taken' = Taken + 1 /\ passed <= Taken
        /\ Taken + 1 <= Len(ordered)
    <3>1. /\ Len(to_encoding') = Len(to_encoding) - 1
          /\ \A i \in 1 .. Len(to_encoding) - 1 :
               to_encoding'[i] = to_encoding[i + 1]
          /\ Len(to_encoding) \in Nat /\ Len(ordered) \in Nat
      BY <1>0, <2>1
    <3>2. Taken \in Nat /\ passed <= Taken /\ Taken + 1 <= Len(ordered)
      BY <1>0, <2>1, <3>1 DEF Taken, QueueInv
    <3>3. Taken' = Taken + 1
      <4>1. ordered' = ordered BY <2>1
      <4> QED BY <3>1, <4>1 DEF Taken
    <3> QED BY <3>1, <3>2, <3>3
  <2>3. /\ item = ordered[Taken + 1] /\ item # None
        /\ item.seq = Taken + 1
    <3>1. item = to_encoding[1] /\ item \in Item
      BY <1>0, <2>1
    <3>2. item = ordered[Taken + 1]
      BY SMTT(30), <1>0, <2>1, <2>2, <3>1 DEF QueueInv
    <3> QED BY <3>1, <3>2, <2>2, NoneAssumption DEF IdInv
  <2>4. IdInv' /\ StopInv' /\ SendInv' /\ WireInv'
    BY <2>1 DEF IdInv, StopInv, SendInv, SendContinuesWire, WireInv,
             NonesBefore, Nones
  <2>5. QueueInv'
    <3>1. /\ ordered' = ordered /\ passed' = passed
          /\ Len(to_encoding) \in Nat /\ Len(ordered) \in Nat
      BY <1>0, <2>1
    <3>2. passed' + Len(to_encoding') <= Len(ordered')
      BY <1>0, <2>2, <3>1 DEF QueueInv
    <3>3. ASSUME NEW i \in 1 .. Len(to_encoding) - 1
          PROVE  to_encoding'[i] = ordered[Taken + 1 + i]
      <4>1. i + 1 \in 1 .. Len(to_encoding) /\ Taken + (i + 1) = Taken + 1 + i
        BY <3>1, <2>2
      <4> QED BY <2>2, <4>1 DEF QueueInv
    <3> QED BY <2>2, <3>1, <3>2, <3>3 DEF QueueInv
  <2>6. HeldInv'
    <3>1. \A g \in Encoders :
            encoding'[g] = IF g = e THEN item ELSE encoding[g]
      BY <1>0, <2>1
    <3> HIDE DEF item
    <3>2. \A g \in Encoders : encoding'[g] # None =>
            /\ encoding'[g].seq \in passed' + 1 .. Taken'
            /\ encoding'[g] = ordered'[encoding'[g].seq]
      BY <1>0, <2>1, <2>2, <2>3, <3>1 DEF HeldInv
    <3>3. \A g, h \in Encoders :
            (encoding'[g] # None /\ encoding'[h] # None
               /\ encoding'[g].seq = encoding'[h].seq) => g = h
      BY <1>0, <2>1, <2>2, <2>3, <3>1 DEF HeldInv
    <3>4. \A n \in passed' + 1 .. Taken' :
            \E g \in Encoders : encoding'[g] # None /\ encoding'[g].seq = n
      BY <1>0, <2>1, <2>2, <2>3, <3>1 DEF HeldInv
    <3> QED BY <3>2, <3>3, <3>4 DEF HeldInv
  <2> QED BY <2>4, <2>5, <2>6
<1>2. CASE EncodingSend(e)
  <2>1. /\ encoding[e] # None /\ encoding[e].id = block_to_send
        /\ to_send' = Append(to_send, encoding[e])
        /\ block_to_send' = WrappingAdd(block_to_send, 1)
        /\ encoding' = [encoding EXCEPT ![e] = None]
        /\ passed' = passed + 1
        /\ UNCHANGED <<orderingVars, to_encoding, udpVars, ordered>>
    BY <1>2 DEF EncodingSend, PassOn
  <2>2. /\ encoding[e].seq = passed + 1 /\ encoding[e] = ordered[passed + 1]
        /\ passed + 1 <= Taken /\ Taken' = Taken /\ Taken \in Nat
    BY <1>0, <2>1, OnlyNextPasses DEF HeldInv, QueueInv, Taken
  <2>3. /\ Len(to_send') = Len(to_send) + 1
        /\ to_send'[Len(to_send) + 1] = encoding[e]
        /\ \A j \in 1 .. Len(to_send) : to_send'[j] = to_send[j]
    BY <1>0, <2>1
  <2>4. IdInv'
    BY <1>0, <2>1, NextId DEF IdInv
  <2>5. QueueInv'
    BY <1>0, <2>1, <2>2 DEF QueueInv, Taken
  <2>6. HeldInv'
    <3>1. \A g \in Encoders :
            encoding'[g] = IF g = e THEN None ELSE encoding[g]
      BY <1>0, <2>1
    <3>2. \A g \in Encoders : encoding'[g] # None =>
            /\ encoding'[g].seq \in passed' + 1 .. Taken'
            /\ encoding'[g] = ordered'[encoding'[g].seq]
      BY <1>0, <2>1, <2>2, <3>1 DEF HeldInv
    <3>3. \A g, h \in Encoders :
            (encoding'[g] # None /\ encoding'[h] # None
               /\ encoding'[g].seq = encoding'[h].seq) => g = h
      BY <3>1 DEF HeldInv
    <3>4. \A n \in passed' + 1 .. Taken' :
            \E g \in Encoders : encoding'[g] # None /\ encoding'[g].seq = n
      BY <1>0, <2>1, <2>2, <3>1 DEF HeldInv
    <3> QED BY <3>2, <3>3, <3>4 DEF HeldInv
  <2>7. StopInv'
    BY <1>0, <2>1, <2>3 DEF StopInv
  <2>8. SendInv'
    <3> SUFFICES ASSUME udp_pc # "failed" PROVE SendContinuesWire'
      BY <2>1 DEF SendInv
    <3>1. passed = Len(wire) + Len(to_send) - Nones
      BY DEF SendInv, SendContinuesWire
    <3>2. \A j \in 1 .. Len(to_send) + 1 : NonesBefore(j)' = NonesBefore(j)
      <4>1. \A j \in 1 .. Len(to_send) + 1 : \A k \in 1 .. j - 1 :
              to_send'[k] = to_send[k]
        BY <1>0, <2>3
      <4> QED BY <4>1 DEF NonesBefore
    <3>3. Nones' = Nones /\ Nones \in {0, 1}
      <4>1. \A k \in 1 .. Len(to_send') :
              to_send'[k] = None
                <=> k \in 1 .. Len(to_send) /\ to_send[k] = None
        BY <1>0, <2>1, <2>3
      <4>2. (\E k \in 1 .. Len(to_send') : to_send'[k] = None)
              <=> (\E k \in 1 .. Len(to_send) : to_send[k] = None)
        BY <1>0, <2>3, <4>1
      <4> QED BY <4>2 DEF Nones
    <3>4. passed' = Len(wire') + Len(to_send') - Nones'
      BY <1>0, <2>1, <2>3, <3>1, <3>3
    <3>5. ASSUME NEW j \in 1 .. Len(to_send'), to_send'[j] # None
          PROVE  to_send'[j] = ordered'[Len(wire') + j - NonesBefore(j)']
      <4>1. CASE j \in 1 .. Len(to_send)
        BY <4>1, <1>0, <2>1, <2>3, <3>2, <3>5 DEF SendInv, SendContinuesWire
      <4>2. CASE j = Len(to_send) + 1
        <5>1. Len(wire) + j - NonesBefore(j) = passed + 1
          BY <4>2, <1>0, <3>1, <3>3 DEF Nones, NonesBefore
        <5> QED BY <5>1, <4>2, <1>0, <2>1, <2>2, <2>3, <3>2
      <4> QED BY <1>0, <2>3, <4>1, <4>2
    <3> QED BY <3>4, <3>5 DEF SendContinuesWire
  <2>9. WireInv'
    BY <1>0, <2>1 DEF WireInv
  <2> QED BY <2>4, <2>5, <2>6, <2>7, <2>8, <2>9
<1> QED BY <1>1, <1>2

LEMMA UdpKeeps ==
  ASSUME IInv, TypeInv', UdpSend \/ UdpFail \/ UdpNone
  PROVE  IInv'
<1> USE DEF IInv, orderingVars, udpVars
<1>0. /\ to_send \in Seq(Item \cup {None}) /\ wire \in Seq(Item)
      /\ passed \in Nat /\ Len(to_send) > 0
      /\ to_send' = Tail(to_send)
      /\ UNCHANGED <<to_ordering, orderingVars, to_encoding, encoding,
                     block_to_send, ordered, passed>>
  BY DEF TypeInv, TypeOK, UdpSend, UdpFail, UdpNone
<1>1. /\ Len(to_send') = Len(to_send) - 1
      /\ \A j \in 1 .. Len(to_send) - 1 : to_send'[j] = to_send[j + 1]
  BY <1>0
<1>2. IdInv' /\ QueueInv' /\ HeldInv'
  BY <1>0 DEF IdInv, QueueInv, HeldInv, Taken
<1>3. \A j \in 1 .. Len(to_send') : j + 1 \in 1 .. Len(to_send)
  BY <1>0, <1>1
<1>4. CASE UdpSend
  <2>1. /\ udp_pc \in {"loop", "drain"} /\ to_send[1] # None
        /\ wire' = Append(wire, to_send[1]) /\ udp_pc' = udp_pc
    BY <1>0, <1>4 DEF UdpSend
  <2>2. StopInv'
    BY <1>0, <1>1, <1>3, <2>1 DEF StopInv
  <2>3. SendContinuesWire BY <2>1 DEF SendInv
  <2>4. to_send[1] = ordered[Len(wire) + 1]
    <3>1. NonesBefore(1) = 0 BY DEF NonesBefore
    <3> QED BY <1>0, <2>1, <2>3, <3>1 DEF SendContinuesWire
  <2>5. /\ Nones' = Nones
        /\ \A j \in 1 .. Len(to_send') : NonesBefore(j)' = NonesBefore(j + 1)
    <3>1. \A n \in Nat : \A k \in 1 .. n :
            n <= Len(to_send') /\ to_send'[k] = None
              => k + 1 \in 1 .. n + 1 /\ to_send[k + 1] = None
      BY <1>0, <1>1
    <3>2. \A n \in Nat : \A k \in 1 .. n + 1 :
            n <= Len(to_send') /\ to_send[k] = None
              => k - 1 \in 1 .. n /\ to_send'[k - 1] = None
      BY <1>0, <1>1, <2>1
    <3>3. Nones' = Nones
      BY SMTT(30), <1>0, <1>1, <3>1, <3>2 DEF Nones
    <3>4. ASSUME NEW j \in 1 .. Len(to_send')
          PROVE  NonesBefore(j)' = NonesBefore(j + 1)
      <4>1. /\ j - 1 \in Nat /\ j - 1 <= Len(to_send')
            /\ (j + 1) - 1 = (j - 1) + 1
        BY <1>0, <1>1
      <4> QED BY <3>1, <3>2, <4>1 DEF NonesBefore
    <3> QED BY <3>3, <3>4
  <2>6. SendInv'
    <3>1. Len(wire') = Len(wire) + 1 BY <1>0, <2>1
    <3>2. Nones \in {0, 1} BY DEF Nones
    <3>3. passed' = Len(wire') + Len(to_send') - Nones'
      BY <1>0, <1>1, <2>3, <2>5, <3>1, <3>2 DEF SendContinuesWire
    <3>4. ASSUME NEW j \in 1 .. Len(to_send'), to_send'[j] # None
          PROVE  to_send'[j] = ordered'[Len(wire') + j - NonesBefore(j)']
      <4>1. to_send'[j] = ordered[Len(wire) + (j + 1) - NonesBefore(j + 1)]
        BY <1>0, <1>1, <1>3, <2>3, <3>4 DEF SendContinuesWire
      <4>2. NonesBefore(j + 1) \in {0, 1} BY DEF NonesBefore
      <4>3. Len(wire') + j - NonesBefore(j)'
              = Len(wire) + (j + 1) - NonesBefore(j + 1)
        <5>1. NonesBefore(j)' = NonesBefore(j + 1) BY <2>5
        <5>2. Len(wire) \in Nat /\ j \in Nat BY <1>0, <1>1
        <5> QED BY <3>1, <4>2, <5>1, <5>2
      <4> QED BY <1>0, <4>1, <4>3
    <3> QED BY <3>3, <3>4 DEF SendInv, SendContinuesWire
  <2>7. WireInv'
    <3>1. /\ Nones \in {0, 1}
          /\ Nones = 1 => Len(to_send) > 1
      BY <1>0, <2>1 DEF Nones
    <3>2. Len(wire) + 1 <= passed
      BY <1>0, <2>3, <3>1 DEF SendContinuesWire
    <3> QED BY <1>0, <2>1, <2>4, <3>2 DEF WireInv
  <2> QED BY <1>2, <2>2, <2>6, <2>7
<1>5. CASE UdpFail
  <2>1. udp_pc \in {"loop", "drain"} /\ udp_pc' = "failed" /\ wire' = wire
    BY <1>5 DEF UdpFail
  <2>2. StopInv'
    BY <1>0, <1>1, <1>3, <2>1 DEF StopInv
  <2>3. SendInv' /\ WireInv'
    BY <1>0, <2>1 DEF SendInv, WireInv
  <2> QED BY <1>2, <2>2, <2>3
<1>6. CASE UdpNone
  <2>1. /\ udp_pc \in {"loop", "drain"} /\ to_send[1] = None
        /\ udp_pc' \in {"drain", "done"} /\ wire' = wire
    BY <1>0, <1>6 DEF UdpNone
  <2>2. /\ \A j \in 2 .. Len(to_send) : to_send[j] # None
        /\ ordering_pc = "done"
    BY <1>0, <2>1 DEF StopInv
  <2>3. \A j \in 1 .. Len(to_send') : to_send'[j] # None
    BY <1>0, <1>1, <2>2
  <2>4. StopInv'
    BY <1>0, <2>1, <2>2, <2>3 DEF StopInv
  <2>5. SendInv'
    <3>1. SendContinuesWire BY <2>1 DEF SendInv
    <3>2. Nones = 1 /\ Nones' = 0
      BY <1>0, <2>1, <2>3 DEF Nones
    <3>3. passed' = Len(wire') + Len(to_send') - Nones'
      BY <1>0, <1>1, <2>1, <3>1, <3>2 DEF SendContinuesWire
    <3>4. ASSUME NEW j \in 1 .. Len(to_send')
          PROVE  to_send'[j] = ordered'[Len(wire') + j - NonesBefore(j)']
      <4>1. NonesBefore(j)' = 0 /\ NonesBefore(j + 1) = 1
        BY <1>0, <1>1, <2>1, <2>3 DEF NonesBefore
      <4>2. to_send'[j] = ordered[Len(wire) + (j + 1) - NonesBefore(j + 1)]
        BY <1>0, <1>1, <1>3, <2>2, <3>1 DEF SendContinuesWire
      <4> QED BY <1>0, <2>1, <4>1, <4>2
    <3> QED BY <3>3, <3>4 DEF SendInv, SendContinuesWire
  <2>6. WireInv'
    BY <1>0, <2>1 DEF WireInv
  <2> QED BY <1>2, <2>4, <2>5, <2>6
<1> QED BY <1>4, <1>5, <1>6

LEMMA InvStep == IInv /\ [Next]_pipelineVars => IInv'
<1> SUFFICES ASSUME IInv, [Next]_pipelineVars PROVE IInv'
  OBVIOUS
<1>1. TypeInv' BY TypeStep DEF IInv
<1>2. CASE Submit \/ UNCHANGED pipelineVars
  <2>1. UNCHANGED <<orderingVars, to_encoding, encoding, block_to_send,
                    to_send, udpVars, ordered, passed>>
    BY <1>2 DEF Submit, pipelineVars
  <2> QED BY <1>1, <2>1 DEF IInv, IdInv, QueueInv, HeldInv, StopInv, SendInv,
                             SendContinuesWire, WireInv, Taken, NonesBefore,
                             Nones, orderingVars, udpVars
<1>3. CASE Pipeline
  BY <1>1, <1>3, OrderingKeeps, EncodingKeeps, UdpKeeps DEF Pipeline
<1> QED BY <1>2, <1>3 DEF Next

(* The inductive invariant holds in every reachable state of the pipeline. *)
THEOREM InvCorrect == Spec => []IInv
BY InvInit, InvStep, PTL DEF Spec
-----------------------------------------------------------------------------
(* The link carries the blocks in the order in which send/ordering.rs      *)
(* numbered them, for any number of encoding workers.                      *)
THEOREM WireInOrderCorrect == Spec => []WireInOrder
<1>1. IInv => WireInOrder
  BY DEF IInv, TypeInv, TypeOK, QueueInv, WireInv, WireInOrder
<1> QED BY <1>1, InvCorrect, PTL

(* Successive blocks on the link carry successive 8-bit numbers            *)
(* (send/ordering.rs, wrapping_add).                                       *)
THEOREM WireIdsCorrect == Spec => []WireIdsConsecutive
<1>1. IInv => WireIdsConsecutive
  <2> SUFFICES ASSUME IInv, NEW i \in 1 .. Len(wire)
               PROVE  wire[i].id = IF i = 1 THEN 0
                                   ELSE WrappingAdd(wire[i - 1].id, 1)
    BY DEF WireIdsConsecutive
  <2>1. /\ Len(wire) \in Nat /\ Len(ordered) \in Nat
        /\ Len(wire) <= Len(ordered)
    BY DEF IInv, TypeInv, TypeOK, QueueInv, WireInv
  <2>2. \A n \in 1 .. Len(wire) : wire[n].id = (n - 1) % IdCount
    BY <2>1 DEF IInv, IdInv, WireInv
  <2>3. CASE i = 1
    BY <2>2, <2>3, IdCountAssumption
  <2>4. CASE i # 1
    <3>1. i - 1 \in 1 .. Len(wire) /\ i - 2 \in Nat /\ (i - 1) - 1 = i - 2
      BY <2>1, <2>4
    <3>2. WrappingAdd((i - 2) % IdCount, 1) = ((i - 2) + 1) % IdCount
      BY <3>1, NextId
    <3>3. (i - 2) + 1 = i - 1 BY <3>1
    <3>4. wire[i - 1].id = (i - 2) % IdCount
      BY <2>2, <3>1
    <3> QED BY <2>2, <2>4, <3>2, <3>3, <3>4
  <2> QED BY <2>3, <2>4
<1> QED BY <1>1, InvCorrect, PTL

(* The encoding workers never all wait for each other's block number       *)
(* (send/encoding.rs, wait_while).                                         *)
THEOREM SomeEncoderMayPassCorrect == Spec => []SomeEncoderMayPass
<1>1. IInv => SomeEncoderMayPass
  <2> SUFFICES ASSUME IInv, NEW e \in Encoders, encoding[e] # None
               PROVE  \E f \in Encoders : /\ encoding[f] # None
                                         /\ encoding[f].id = block_to_send
    BY DEF SomeEncoderMayPass
  <2>1. /\ passed \in Nat /\ Taken \in Nat /\ Taken <= Len(ordered)
        /\ Len(ordered) \in Nat
    BY DEF IInv, TypeInv, TypeOK, QueueInv, Taken
  <2>2. encoding[e].seq \in passed + 1 .. Taken
    BY DEF IInv, HeldInv
  <2>3. passed + 1 \in passed + 1 .. Taken /\ (passed + 1) - 1 = passed
    BY <2>1, <2>2
  <2>4. PICK f \in Encoders :
               encoding[f] # None /\ encoding[f].seq = passed + 1
    BY <2>3 DEF IInv, HeldInv
  <2>5. encoding[f] = ordered[passed + 1] /\ passed + 1 \in 1 .. Len(ordered)
    BY <2>1, <2>3, <2>4 DEF IInv, HeldInv
  <2>6. encoding[f].id = passed % IdCount
    BY <2>3, <2>5 DEF IInv, IdInv
  <2> QED BY <2>4, <2>6 DEF IInv, IdInv
<1> QED BY <1>1, InvCorrect, PTL

(* The stage implements the ordered pipe: numbering a block accepts it,    *)
(* sending its packets delivers it, every other step is a stutter.         *)
THEOREM RefinesOrderedPipe == Spec => ImplementsOrderedPipe
<1>1. Init => Pipe!PipeInit
  BY DEF Init, Pipe!PipeInit
<1>2. IInv /\ IInv' /\ [Next]_pipelineVars => [Pipe!PipeNext]_(Pipe!pipeVars)
  <2> SUFFICES ASSUME IInv, IInv', [Next]_pipelineVars
               PROVE  [Pipe!PipeNext]_(Pipe!pipeVars)
    OBVIOUS
  <2>1. /\ ordered \in Seq(Item) /\ ordered' \in Seq(Item)
        /\ wire \in Seq(Item) /\ wire' \in Seq(Item)
    BY DEF IInv, TypeInv, TypeOK
  <2>2. CASE OrderingSend
    <3>1. /\ \E i : ordered' = Append(ordered, i)
          /\ wire' = wire
      BY <2>2 DEF OrderingSend, udpVars
    <3>2. PICK i : ordered' = Append(ordered, i) BY <3>1
    <3>3. Len(ordered') = Len(ordered) + 1 /\ ordered' # <<>>
          /\ ordered'[Len(ordered')] = i /\ i \in Item
      BY <2>1, <3>2
    <3> QED BY <3>1, <3>2, <3>3 DEF Pipe!PipeNext, Pipe!Accept
  <2>3. CASE UdpSend
    <3>1. ordered' = ordered /\ wire' = Append(wire, Head(to_send))
      BY <2>3 DEF UdpSend
    <3>2. Len(wire') = Len(wire) + 1 /\ wire'[Len(wire) + 1] = Head(to_send)
      BY <2>1, <3>1 DEF IInv, TypeInv, TypeOK
    <3>3. /\ Len(wire') <= Len(ordered)
          /\ wire'[Len(wire')] = ordered[Len(wire')]
      <4>1. Len(wire) \in Nat /\ Len(wire') \in Nat /\ Len(ordered) \in Nat
        BY <2>1
      <4>2. /\ Len(to_encoding') \in Nat /\ passed' \in Nat
            /\ passed' + Len(to_encoding') <= Len(ordered')
            /\ Len(wire') <= passed'
            /\ \A i \in 1 .. Len(wire') : wire'[i] = ordered'[i]
        BY DEF IInv, TypeInv, TypeOK, QueueInv, WireInv
      <4>3. Len(wire') <= Len(ordered) /\ Len(wire') \in 1 .. Len(wire')
        BY <3>1, <3>2, <4>1, <4>2
      <4> QED BY <3>1, <4>2, <4>3
    <3> QED BY <2>1, <3>1, <3>2, <3>3 DEF Pipe!PipeNext, Pipe!Deliver
  <2>4. CASE ~ OrderingSend /\ ~ UdpSend
    <3>1. ordered' = ordered /\ wire' = wire
      BY <2>4 DEF Next, Pipeline, Submit, OrderingRecv, OrderingStop,
                  EncodingRecv, EncodingSend, PassOn, UdpFail, UdpNone,
                  pipelineVars,
                  udpVars
    <3> QED BY <3>1 DEF Pipe!pipeVars
  <2> QED BY <2>2, <2>3, <2>4
<1> QED BY <1>1, <1>2, InvCorrect, PTL
        DEF Spec, ImplementsOrderedPipe, Pipe!PipeSpec
=============================================================================
