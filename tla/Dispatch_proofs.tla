--------------------------- MODULE Dispatch_proofs ---------------------------
(***************************************************************************)
(* Proofs about Dispatch, for any transfers and any number of workers.     *)
(***************************************************************************)
EXTENDS Dispatch, TLAPS, FiniteSetTheorems

(* The workers that have a permit.                                         *)
Holders == {w \in Workers : worker[w].pc \in {"new", "run", "signal"}}

PermitInv == multiplex_control + Cardinality(Holders) = Cardinality(Workers)

WorkerInv ==
  \A w \in Workers : IF worker[w].pc = "recv" THEN worker[w].transfer = None
                     ELSE worker[w].transfer \in T

(* The queue of a transfer is in one place, and the transfer has an        *)
(* outcome exactly when its worker is done.                                *)
ServedInv ==
  /\ \A w, v \in Workers :
       worker[w].transfer = worker[v].transfer /\ worker[w].transfer # None
         => w = v
  /\ \A i, j \in 1 .. Len(to_clients) : to_clients[i] = to_clients[j] => i = j
  /\ \A w \in Workers : worker[w].transfer \notin ToSet(to_clients)
  /\ \A w \in Workers : worker[w].pc \in {"wait", "new", "run"} =>
       outcome[worker[w].transfer] = None
  /\ \A w \in Workers : worker[w].pc = "signal" =>
       outcome[worker[w].transfer] # None
  /\ \A t \in ToSet(to_clients) : outcome[t] = None

(* What comes to dispatch: blocks that were sent, those of a run before    *)
(* those of the next one, those of a transfer in order.                    *)
LinkInv ==
  /\ \A t \in T : next[t] > 0 => Transfers[t].run <= run
  /\ \A i \in 1 .. Len(for_dispatch) : for_dispatch[i] # None =>
       \E t \in T : \E p \in 0 .. Transfers[t].last :
         for_dispatch[i] = Block(t, p) /\ p < next[t]
  /\ \A i, j \in 1 .. Len(for_dispatch) :
       i < j /\ for_dispatch[i] # None /\ for_dispatch[j] # None =>
         LET b == for_dispatch[i]
             d == for_dispatch[j]
         IN /\ Transfers[b.transfer].run <= Transfers[d.transfer].run
            /\ b.transfer = d.transfer => b.pos < d.pos

(* A transfer whose Start was not dispatched yet.                          *)
Untouched(t) ==
  /\ outcome[t] = None
  /\ written[t] = <<>>
  /\ ~ ReceiverAlive(t)
  /\ active_transfers[Transfers[t].client] # t

FreshInv ==
  \A t \in T :
    next[t] = 0 \/ Block(t, 0) \in ToSet(for_dispatch) => Untouched(t)

Endings == {"abort", "end"}

(* An active transfer has all its blocks before it, and a worker unless    *)
(* that worker has given up.                                               *)
Attended(t) ==
  /\ outcome[t] \in {None, "failed"}
  /\ outcome[t] = None =>
       /\ ReceiverAlive(t)
       /\ \A i \in 1 .. Len(queue[t]) : queue[t][i].type \notin Endings
  /\ Transfers[t].run <= run
  /\ \A i \in 1 .. Len(for_dispatch) : for_dispatch[i] # None =>
       Transfers[t].run <= Transfers[for_dispatch[i].transfer].run

ActiveInv ==
  \A c \in ClientIds, t \in T :
    active_transfers[c] = t => Transfers[t].client = c /\ Attended(t)

(* The transfers that may use the client id of t after t, and t itself.    *)
Successors(t) ==
  {s \in T \ damaged : /\ Transfers[s].client = Transfers[t].client
                      /\ Transfers[s].run >= Transfers[t].run}

(* Block q of s comes at place i; what was not sent comes at the end.      *)
Reaches(i, s, q) ==
  IF i = Len(for_dispatch) + 1 THEN q = next[s]
  ELSE for_dispatch[i] # None /\ for_dispatch[i] = Block(s, q)

(* From place lo on, before any block of s but block floor comes the block *)
(* that precedes it, or a None that says it is lost.                       *)
Flow(lo, s, floor) ==
  \A i \in lo .. Len(for_dispatch) + 1, q \in Nat :
    Reaches(i, s, q) =>
      \/ q = floor
      \/ \E j \in lo .. i - 1 :
           for_dispatch[j] = None \/ for_dispatch[j] = Block(s, q - 1)

StartFlow ==
  \A i \in 1 .. Len(for_dispatch), t \in T :
    for_dispatch[i] = Block(t, 0) => \A s \in Successors(t) : Flow(i, s, 0)

(* How many blocks of t its worker has taken from the queue.               *)
Taken(t) ==
  IF queue[t] # <<>> /\ Head(queue[t]) = Block(t, 0) THEN 0
  ELSE Len(written[t]) + 1

(* The next block of s when t is active.                                   *)
Floor(t, s) == IF s = t THEN Taken(t) + Len(queue[t]) ELSE 0

ActiveFlow ==
  \A t \in T :
    active_transfers[Transfers[t].client] = t /\ outcome[t] = None /\ Sound(t)
      => \A s \in Successors(t) : Flow(1, s, Floor(t, s))

(* The queue of a transfer holds its next blocks, the last one of which    *)
(* may be the Abort of dispatch.                                           *)
QueueShape(t) ==
  /\ \A i \in 1 .. Len(queue[t]) :
       /\ i < Len(queue[t]) => queue[t][i].type \notin Endings
       /\ \/ /\ Taken(t) + i - 1 <= Transfers[t].last
             /\ queue[t][i] = Block(t, Taken(t) + i - 1)
          \/ queue[t][i] = AbortBlock(Transfers[t].client)
  /\ Taken(t) = 0 => written[t] = <<>>

QueueInv ==
  \A t \in T : outcome[t] = None /\ Sound(t) /\ ReceiverAlive(t) => QueueShape(t)

FlowInv ==
  /\ StartFlow
  /\ ActiveFlow
  /\ QueueInv
  /\ OwnPrefix
  /\ FinishedIsCompleteIfSound

WorkersInv == TypeOK /\ PermitInv /\ WorkerInv

ServiceInv == LinkInv /\ ServedInv /\ FreshInv /\ ActiveInv
-----------------------------------------------------------------------------
(* Facts about sequences and the blocks.                                   *)
LEMMA AppendSet ==
  ASSUME NEW S, NEW s \in Seq(S), NEW x \in S
  PROVE  ToSet(Append(s, x)) = ToSet(s) \cup {x}
<1>1. /\ DOMAIN Append(s, x) = 1 .. Len(s) + 1
      /\ DOMAIN s = 1 .. Len(s) /\ Len(s) \in Nat
  OBVIOUS
<1>2. /\ Append(s, x)[Len(s) + 1] = x
      /\ \A i \in 1 .. Len(s) : Append(s, x)[i] = s[i]
  OBVIOUS
<1>3. \A i : i \in DOMAIN Append(s, x) <=> i \in DOMAIN s \/ i = Len(s) + 1
  BY <1>1
<1> QED BY <1>1, <1>2, <1>3 DEF ToSet

LEMMA TailSet ==
  ASSUME NEW S, NEW s \in Seq(S), s # <<>>
  PROVE  ToSet(s) = ToSet(Tail(s)) \cup {Head(s)}
<1>1. /\ DOMAIN Tail(s) = 1 .. Len(s) - 1
      /\ DOMAIN s = 1 .. Len(s) /\ Len(s) \in Nat \ {0}
  OBVIOUS
<1>2. Head(s) = s[1] /\ \A i \in 1 .. Len(s) - 1 : Tail(s)[i] = s[i + 1]
  OBVIOUS
<1>3. \A i \in DOMAIN s :
        i = 1 \/ (i - 1 \in DOMAIN Tail(s) /\ s[i] = Tail(s)[i - 1])
  BY <1>1, <1>2
<1>4. \A i \in DOMAIN Tail(s) : i + 1 \in DOMAIN s BY <1>1
<1>5. ToSet(s) \subseteq ToSet(Tail(s)) \cup {Head(s)}
  BY <1>1, <1>2, <1>3 DEF ToSet
<1>6. ToSet(Tail(s)) \cup {Head(s)} \subseteq ToSet(s)
  BY <1>1, <1>2, <1>4 DEF ToSet
<1> QED BY <1>5, <1>6

LEMMA TransferFacts ==
  /\ T \subseteq Nat \ {0} /\ Runs \subseteq Nat
  /\ \A t \in T : /\ Transfers[t].client \in ClientIds
                  /\ Transfers[t].run \in Runs
                  /\ Transfers[t].last \in Nat \ {0}
                  /\ Transfers[t].ends \in {"end", "abort"}
<1>1. T = 1 .. Len(Transfers) /\ Len(Transfers) \in Nat
  BY TransfersAssumption DEF T
<1> DEFINE R == [client : Nat, run : Nat, last : Nat \ {0},
                 ends : {"end", "abort"}]
<1>a. Transfers \in Seq(R) BY TransfersAssumption
<1>b. \A t \in T : Transfers[t] \in R
  <2> HIDE DEF R
  <2> QED BY <1>1, <1>a
<1>2. \A t \in T : /\ Transfers[t].client \in Nat /\ Transfers[t].run \in Nat
                  /\ Transfers[t].last \in Nat \ {0}
                  /\ Transfers[t].ends \in {"end", "abort"}
  BY <1>b
<1>3. T \subseteq Nat \ {0} BY <1>1
<1>4. Runs \subseteq Nat BY <1>2 DEF Runs
<1> QED BY <1>2, <1>3, <1>4 DEF ClientIds, Runs

LEMMA BlockFacts ==
  /\ \A t \in T : \A p \in 0 .. Transfers[t].last :
       /\ Block(t, p) \in Blocks
       /\ Block(t, p).type \in {"start", "data", "end", "abort"}
       /\ Block(t, p).type = "start" <=> p = 0
  /\ \A c \in ClientIds : AbortBlock(c) \in Blocks
  /\ \A b \in Blocks : /\ b.type \in {"start", "data", "end", "abort"}
                       /\ b.client \in ClientIds
                       /\ b.type = "start" => b.transfer \in T
<1> USE TransferFacts
<1>1. \A t \in T, p \in Nat :
        /\ Type(t, p) \in {"start", "data", "end", "abort"}
        /\ Type(t, p) = "start" <=> p = 0
  BY DEF Type
<1>2. \A t \in T : \A p \in 0 .. Transfers[t].last : Block(t, p) \in Blocks
  BY DEF Blocks
<1>3. \A t \in T : \A p : /\ Block(t, p).type = Type(t, p)
                          /\ Block(t, p).client = Transfers[t].client
                          /\ Block(t, p).transfer = t
  BY DEF Block
<1>4. \A c : AbortBlock(c).type = "abort" /\ AbortBlock(c).client = c
  BY DEF AbortBlock
<1>5. \A b \in Blocks :
        \/ \E t \in T, p \in Nat : b = Block(t, p)
        \/ \E c \in ClientIds : b = AbortBlock(c)
  <2>1. UNION {0 .. Transfers[s].last : s \in T} \subseteq Nat OBVIOUS
  <2> QED BY <2>1 DEF Blocks
<1>6. \A c \in ClientIds : AbortBlock(c) \in Blocks BY DEF Blocks
<1>7. \A t \in T : \A p \in 0 .. Transfers[t].last : p \in Nat OBVIOUS
<1>8. ASSUME NEW b \in Blocks
      PROVE  /\ b.type \in {"start", "data", "end", "abort"}
             /\ b.client \in ClientIds
             /\ b.type = "start" => b.transfer \in T
  <2>1. CASE \E t \in T, p \in Nat : b = Block(t, p) BY <2>1, <1>1, <1>3
  <2>2. CASE \E c \in ClientIds : b = AbortBlock(c) BY <2>2, <1>4
  <2> QED BY <2>1, <2>2, <1>5
<1> QED BY <1>1, <1>2, <1>3, <1>6, <1>7, <1>8
-----------------------------------------------------------------------------
LEMMA TypeInit == Init => TypeOK
<1> SUFFICES ASSUME Init PROVE TypeOK
  OBVIOUS
<1> USE TransferFacts
<1>1. Cardinality(Workers) \in Nat
  BY DispatchAssumption, FS_CardinalityType
<1>2. run \in {1} \cup Runs BY DEF Init
<1>3. next \in [T -> Nat] /\ \A t \in T : next[t] <= Transfers[t].last + 1
  BY DEF Init
<1>4. /\ reported \in 0 .. MaxLost /\ damaged \in SUBSET T
      /\ faults \in 0 .. MaxFaults
  BY DispatchAssumption DEF Init
<1>5. /\ for_dispatch \in Seq(Blocks \cup {None}) /\ to_clients \in Seq(T)
      /\ active_transfers \in [ClientIds -> T \cup {None}]
      /\ ended_transfers \in [ClientIds -> T \cup {None}]
      /\ queue \in [T -> Seq(Blocks)] /\ written \in [T -> Seq(Blocks)]
      /\ outcome \in [T -> Outcomes \cup {None}]
  BY DEF Init
<1>6. worker \in [Workers -> [pc : {"recv", "wait", "new", "run", "signal"},
                             transfer : T \cup {None}]]
  BY DEF Init, Idle
<1>7. multiplex_control \in 0 .. Cardinality(Workers) BY <1>1 DEF Init
<1> QED BY <1>2, <1>3, <1>4, <1>5, <1>6, <1>7 DEF TypeOK

(* The environment only adds to for_dispatch.                              *)
LEMMA TypeSenders ==
  ASSUME TypeOK, Senders
  PROVE  TypeOK'
<1> USE TransferFacts
<1>1. ASSUME NEW t \in T, Due(t)
      PROVE  /\ next' \in [T -> Nat]
             /\ \A s \in T : next'[s] <= Transfers[s].last + 1
             /\ Block(t, next[t]) \in Blocks
  <2>1. next[t] \in 0 .. Transfers[t].last BY <1>1 DEF TypeOK, Due
  <2>2. /\ next \in [T -> Nat]
        /\ \A s \in T : next[s] <= Transfers[s].last + 1
        /\ next' = [next EXCEPT ![t] = @ + 1]
    BY <1>1 DEF TypeOK, Due
  <2>3. next[t] + 1 \in Nat /\ next[t] + 1 <= Transfers[t].last + 1 BY <2>1
  <2>4. \A s \in T : next'[s] = IF s = t THEN next[t] + 1 ELSE next[s] BY <2>2
  <2>5. next' \in [T -> Nat] BY <2>2, <2>3
  <2>6. \A s \in T : next'[s] <= Transfers[s].last + 1 BY <2>2, <2>3, <2>4
  <2> QED BY <2>1, <2>5, <2>6, BlockFacts
<1>2. ASSUME NEW t \in T, Arrive(t) PROVE TypeOK'
  <2>1. for_dispatch' \in Seq(Blocks \cup {None})
    BY <1>1, <1>2 DEF Arrive, TypeOK
  <2> QED BY <1>1, <1>2, <2>1
     DEF Arrive, TypeOK, dispatchVars, clientVars
<1>3. ASSUME NEW t \in T, LoseReported(t) PROVE TypeOK'
  <2>1. for_dispatch' \in Seq(Blocks \cup {None})
    BY <1>3 DEF LoseReported, TypeOK
  <2>2. damaged \in SUBSET T /\ IsFiniteSet(T)
    BY TransfersAssumption, FS_Interval DEF TypeOK, T
  <2>3. Cardinality(damaged) \in Nat
    BY <2>2, FS_Subset, FS_CardinalityType
  <2>4. reported' \in 0 .. MaxLost
    BY <1>3, <2>3, DispatchAssumption DEF LoseReported, TypeOK
  <2> QED BY <1>1, <1>3, <2>1, <2>4
     DEF LoseReported, TypeOK, dispatchVars, clientVars
<1>4. ASSUME NEW t \in T, LoseSilently(t) PROVE TypeOK'
  BY <1>1, <1>4 DEF LoseSilently, TypeOK, dispatchVars, clientVars
<1>5. ASSUME SenderRestart PROVE TypeOK'
  BY <1>5 DEF SenderRestart, TypeOK, dispatchVars, clientVars
<1> QED BY <1>2, <1>3, <1>4, <1>5 DEF Senders

LEMMA TypeDispatch ==
  ASSUME TypeOK, DispatchStep
  PROVE  TypeOK'
<1> USE TransferFacts
<1>1. for_dispatch # <<>> /\ for_dispatch' = Tail(for_dispatch)
  BY DEF DispatchStep, SynchronizationLost, StartTransfer, ForwardBlock
<1>2. /\ for_dispatch' \in Seq(Blocks \cup {None})
      /\ Head(for_dispatch) \in Blocks \cup {None}
  BY <1>1 DEF TypeOK
<1>3. CASE SynchronizationLost
  <2>1. \A t \in T : AbortBlock(Transfers[t].client) \in Blocks BY BlockFacts
  <2>2. queue' \in [T -> Seq(Blocks)]
    BY <1>3, <2>1 DEF SynchronizationLost, TypeOK
  <2>3. active_transfers' \in [ClientIds -> T \cup {None}]
    BY <1>3 DEF SynchronizationLost
  <2> QED BY <1>2, <1>3, <2>2, <2>3
     DEF SynchronizationLost, TypeOK, linkVars, clientVars
<1>4. CASE StartTransfer
  <2> DEFINE block == Head(for_dispatch)
  <2>1. /\ block \in Blocks /\ block.client \in ClientIds
        /\ block.transfer \in T
    BY <1>2, <1>4, BlockFacts DEF StartTransfer
  <2>2. /\ active_transfers' =
             [active_transfers EXCEPT ![block.client] = block.transfer]
        /\ queue' = [queue EXCEPT ![block.transfer] = <<block>>]
        /\ to_clients' = Append(to_clients, block.transfer)
    BY <1>4 DEF StartTransfer
  <2> HIDE DEF block
  <2>3. /\ queue' \in [T -> Seq(Blocks)] /\ to_clients' \in Seq(T)
        /\ active_transfers' \in [ClientIds -> T \cup {None}]
    BY <2>1, <2>2 DEF TypeOK
  <2> QED BY <1>2, <1>4, <2>3 DEF StartTransfer, TypeOK, linkVars, clientVars
<1>5. CASE ForwardBlock
  <2> DEFINE block == Head(for_dispatch)
             c == block.client
             t == active_transfers[c]
  <2>1. block \in Blocks /\ c \in ClientIds
    BY <1>2, <1>5, BlockFacts DEF ForwardBlock
  <2>2. /\ \/ UNCHANGED <<queue, dispatchVars>>
           \/ /\ active_transfers' = [active_transfers EXCEPT ![c] = None]
              /\ UNCHANGED <<queue, ended_transfers>>
           \/ /\ t # None
              /\ queue' = [queue EXCEPT ![t] = Append(@, block)]
              /\ UNCHANGED dispatchVars \/ EndTransfer(c, t)
        /\ UNCHANGED <<linkVars, to_clients, clientVars>>
    BY <1>5 DEF ForwardBlock
  <2> HIDE DEF block, c
  <2>a. t \in T \cup {None} BY <2>1 DEF TypeOK
  <2>b. queue' = queue \/ (t \in T /\ queue' = [queue EXCEPT ![t] = Append(@, block)])
    BY <2>2, <2>a DEF dispatchVars
  <2>3. queue' \in [T -> Seq(Blocks)]
    <3> HIDE DEF t
    <3>1. queue \in [T -> Seq(Blocks)] BY DEF TypeOK
    <3>2. CASE queue' = queue BY <3>1, <3>2
    <3>3. CASE t \in T /\ queue' = [queue EXCEPT ![t] = Append(@, block)]
      <4>1. Append(queue[t], block) \in Seq(Blocks) BY <3>1, <3>3, <2>1
      <4> QED BY <3>1, <3>3, <4>1
    <3> QED BY <2>b, <3>2, <3>3
  <2>4. /\ active_transfers' \in [ClientIds -> T \cup {None}]
        /\ ended_transfers' \in [ClientIds -> T \cup {None}]
    BY <2>1, <2>2 DEF TypeOK, EndTransfer, dispatchVars
  <2> QED BY <1>2, <2>2, <2>3, <2>4 DEF TypeOK, linkVars, clientVars
<1> QED BY <1>3, <1>4, <1>5 DEF DispatchStep

(* The permits when one worker goes on.                                    *)
LEMMA PermitStep ==
  ASSUME TypeOK, PermitInv, NEW w \in Workers,
         NEW x \in [pc : {"recv", "wait", "new", "run", "signal"},
                   transfer : T \cup {None}],
         worker' = [worker EXCEPT ![w] = x]
  PROVE  /\ worker' \in [Workers -> [pc : {"recv", "wait", "new", "run",
                                          "signal"},
                                    transfer : T \cup {None}]]
         /\ worker[w].pc \in {"wait", "recv"} /\ x.pc \in {"new", "run", "signal"}
              => Cardinality(Holders') = Cardinality(Holders) + 1
         /\ worker[w].pc \in {"new", "run", "signal"} /\ x.pc \in {"wait", "recv"}
              => Cardinality(Holders') = Cardinality(Holders) - 1
         /\ (worker[w].pc \in {"wait", "recv"} <=> x.pc \in {"wait", "recv"})
              => Holders' = Holders
         /\ Cardinality(Holders') \in 0 .. Cardinality(Workers)
         /\ Cardinality(Holders) \in 0 .. Cardinality(Workers)
         /\ Cardinality(Workers) \in Nat
         /\ w \notin Holders => Cardinality(Holders) < Cardinality(Workers)
<1>1. IsFiniteSet(Workers) /\ Cardinality(Workers) \in Nat
  BY DispatchAssumption, FS_CardinalityType
<1>2. /\ IsFiniteSet(Holders) /\ Cardinality(Holders) \in Nat
      /\ Cardinality(Holders) <= Cardinality(Workers)
  BY <1>1, FS_Subset, FS_CardinalityType DEF Holders
<1>3. /\ IsFiniteSet(Holders') /\ Cardinality(Holders') \in Nat
      /\ Cardinality(Holders') <= Cardinality(Workers)
  BY <1>1, FS_Subset, FS_CardinalityType DEF Holders
<1>4. /\ worker \in [Workers -> [pc : {"recv", "wait", "new", "run", "signal"},
                                 transfer : T \cup {None}]]
      /\ worker' \in [Workers -> [pc : {"recv", "wait", "new", "run", "signal"},
                                  transfer : T \cup {None}]]
      /\ \A v \in Workers : worker'[v] = IF v = w THEN x ELSE worker[v]
  BY DEF TypeOK
<1>5. ASSUME worker[w].pc \in {"wait", "recv"}, x.pc \in {"new", "run", "signal"}
      PROVE  Cardinality(Holders') = Cardinality(Holders) + 1
  <2>1. Holders' = Holders \cup {w} /\ w \notin Holders
    BY <1>4, <1>5 DEF Holders
  <2> QED BY <1>2, <2>1, FS_AddElement
<1>6. ASSUME worker[w].pc \in {"new", "run", "signal"}, x.pc \in {"wait", "recv"}
      PROVE  Cardinality(Holders') = Cardinality(Holders) - 1
  <2>1. Holders' = Holders \ {w} /\ w \in Holders
    BY <1>4, <1>6 DEF Holders
  <2> QED BY <1>2, <2>1, FS_RemoveElement
<1>7. ASSUME worker[w].pc \in {"wait", "recv"} <=> x.pc \in {"wait", "recv"}
      PROVE  Holders' = Holders
  <2>1. /\ worker[w].pc \in {"recv", "wait", "new", "run", "signal"}
        /\ x.pc \in {"recv", "wait", "new", "run", "signal"}
    BY <1>4
  <2>2. worker[w].pc \in {"new", "run", "signal"} <=> x.pc \in {"new", "run", "signal"}
    BY <1>7, <2>1
  <2> QED BY <1>4, <2>2 DEF Holders
<1>8. ASSUME w \notin Holders
      PROVE  Cardinality(Holders) < Cardinality(Workers)
  <2>1. Holders \subseteq Workers /\ Holders # Workers BY <1>8 DEF Holders
  <2>2. Cardinality(Holders) # Cardinality(Workers)
    BY <1>1, <2>1, FS_Subset
  <2> QED BY <1>1, <1>2, <2>2
<1> QED BY <1>1, <1>2, <1>3, <1>4, <1>5, <1>6, <1>7, <1>8

LEMMA TypeWorkers ==
  ASSUME WorkersInv, NEW w \in Workers, WorkerStep(w)
  PROVE  WorkersInv'
<1> DEFINE State == [pc : {"recv", "wait", "new", "run", "signal"},
                     transfer : T \cup {None}]
           t == worker[w].transfer
<1>1. TypeOK /\ WorkerInv /\ PermitInv BY DEF WorkersInv
<1>2. /\ worker \in [Workers -> State] /\ worker[w] \in State
      /\ MaxFaults \in Nat /\ faults \in 0 .. MaxFaults
      /\ multiplex_control \in Nat
      /\ queue \in [T -> Seq(Blocks)] /\ written \in [T -> Seq(Blocks)]
      /\ to_clients \in Seq(T)
      /\ outcome \in [T -> Outcomes \cup {None}]
  BY <1>1, DispatchAssumption DEF TypeOK
<1>3. worker[w].pc # "recv" => t \in T BY <1>1 DEF WorkerInv
<1>a. ASSUME NEW pc \in {"new", "run", "signal"}
      PROVE  /\ [pc |-> pc, transfer |-> t] \in State
             /\ [worker EXCEPT ![w].pc = pc]
                  = [worker EXCEPT ![w] = [pc |-> pc, transfer |-> t]]
  <2>0. worker[w] \in State BY <1>2
  <2>a. [pc |-> pc, transfer |-> t] \in State BY <2>0
  <2>b. [worker[w] EXCEPT !.pc = pc] = [pc |-> pc, transfer |-> t] BY <2>0
  <2>1. /\ [pc |-> pc, transfer |-> t] \in State
        /\ [worker[w] EXCEPT !.pc = pc] = [pc |-> pc, transfer |-> t]
    BY <2>a, <2>b
  <2>2. [worker EXCEPT ![w].pc = pc]
          = [worker EXCEPT ![w] = [worker[w] EXCEPT !.pc = pc]]
    OBVIOUS
  <2> QED BY <2>1, <2>2
<1>4. ASSUME NEW x \in State, worker' = [worker EXCEPT ![w] = x],
             IF x.pc = "recv" THEN x.transfer = None ELSE x.transfer \in T
      PROVE  WorkerInv'
  BY <1>1, <1>2, <1>4 DEF WorkerInv
(* What is left to show of each action.                                    *)
<1>5. ASSUME NEW x \in State, worker' = [worker EXCEPT ![w] = x],
             IF x.pc = "recv" THEN x.transfer = None ELSE x.transfer \in T,
             multiplex_control' + Cardinality(Holders') = Cardinality(Workers),
             multiplex_control' \in Nat,
             UNCHANGED <<linkVars, for_dispatch, dispatchVars>>,
             queue' \in [T -> Seq(Blocks)], written' \in [T -> Seq(Blocks)],
             to_clients' \in Seq(T),
             outcome' \in [T -> Outcomes \cup {None}],
             faults' \in 0 .. MaxFaults
      PROVE  WorkersInv'
  <2>1. /\ worker' \in [Workers -> State]
        /\ Cardinality(Holders') \in 0 .. Cardinality(Workers)
        /\ Cardinality(Workers) \in Nat
    BY <1>1, <1>5, PermitStep
  <2>2. multiplex_control' \in 0 .. Cardinality(Workers) BY <1>5, <2>1
  <2>3. TypeOK'
    BY <1>1, <1>5, <2>1, <2>2 DEF TypeOK, linkVars, dispatchVars
  <2> QED BY <1>4, <1>5, <2>3 DEF WorkersInv, PermitInv
<1>6. ASSUME NEW how \in Outcomes, Ends(w, how), worker[w].pc \in {"new", "run"}
      PROVE  /\ worker' = [worker EXCEPT ![w] = [pc |-> "signal", transfer |-> t]]
             /\ [pc |-> "signal", transfer |-> t] \in State /\ t \in T
             /\ outcome' \in [T -> Outcomes \cup {None}]
             /\ Holders' = Holders
  <2>1. /\ worker' = [worker EXCEPT ![w] = [pc |-> "signal", transfer |-> t]]
        /\ [pc |-> "signal", transfer |-> t] \in State /\ t \in T
    BY <1>a, <1>3, <1>6 DEF Ends
  <2>2. outcome' \in [T -> Outcomes \cup {None}] BY <1>2, <1>6, <2>1 DEF Ends
  <2>3. Holders' = Holders BY <1>1, <1>6, <2>1, PermitStep
  <2> QED BY <2>1, <2>2, <2>3
<1>7. multiplex_control + Cardinality(Holders) = Cardinality(Workers)
  BY <1>1 DEF PermitInv
<1>8. CASE ClientsRecv(w)
  <2> DEFINE x == [pc |-> "wait", transfer |-> Head(to_clients)]
  <2>1. /\ x \in State /\ x.transfer \in T /\ worker' = [worker EXCEPT ![w] = x]
        /\ to_clients' \in Seq(T)
    BY <1>2, <1>8 DEF ClientsRecv
  <2>2. Holders' = Holders BY <1>1, <1>8, <2>1, PermitStep DEF ClientsRecv
  <2> QED BY <1>2, <1>5, <1>7, <1>8, <2>1, <2>2 DEF ClientsRecv
<1>9. CASE ClientsWait(w)
  <2> DEFINE x == [pc |-> "new", transfer |-> t]
  <2>1. x \in State /\ t \in T /\ worker' = [worker EXCEPT ![w] = x]
    BY <1>a, <1>3, <1>9 DEF ClientsWait
  <2>2. /\ Cardinality(Holders') = Cardinality(Holders) + 1
        /\ Cardinality(Holders) \in 0 .. Cardinality(Workers)
        /\ Cardinality(Workers) \in Nat
    BY <1>1, <1>9, <2>1, PermitStep DEF ClientsWait
  <2>3. /\ multiplex_control' \in Nat
        /\ multiplex_control' + Cardinality(Holders') = Cardinality(Workers)
    BY <1>2, <1>7, <1>9, <2>2 DEF ClientsWait
  <2> QED BY <1>2, <1>5, <1>9, <2>1, <2>3 DEF ClientsWait
<1>10. CASE ClientNew(w)
  <2> DEFINE x == [pc |-> "run", transfer |-> t]
  <2>1. x \in State /\ t \in T /\ worker' = [worker EXCEPT ![w] = x]
    BY <1>a, <1>3, <1>10 DEF ClientNew
  <2>2. Holders' = Holders BY <1>1, <1>10, <2>1, PermitStep DEF ClientNew
  <2> QED BY <1>2, <1>5, <1>7, <1>10, <2>1, <2>2 DEF ClientNew
<1>11. CASE ClientNewFail(w)
  <2>1. faults' \in 0 .. MaxFaults /\ "failed" \in Outcomes
    BY <1>2, <1>11 DEF ClientNewFail, Outcomes
  <2> QED BY <1>2, <1>5, <1>6, <1>7, <1>11, <2>1 DEF ClientNewFail
<1>12. CASE ClientRecv(w)
  <2>1. t \in T BY <1>3, <1>12 DEF ClientRecv
  <2>2. /\ queue[t] \in Seq(Blocks) /\ queue[t] # <<>>
        /\ written[t] \in Seq(Blocks)
    BY <1>2, <1>12, <2>1 DEF ClientRecv
  <2>3. Tail(queue[t]) \in Seq(Blocks) /\ Head(queue[t]) \in Blocks BY <2>2
  <2>4. queue' \in [T -> Seq(Blocks)] BY <1>2, <1>12, <2>1, <2>3 DEF ClientRecv
  <2>5. Append(written[t], Head(queue[t])) \in Seq(Blocks) BY <2>2, <2>3
  <2>6. written' \in [T -> Seq(Blocks)]
    BY <1>2, <1>12, <2>1, <2>5 DEF ClientRecv
  <2>7. UNCHANGED <<linkVars, for_dispatch, dispatchVars, to_clients,
                    multiplex_control, faults>>
    BY <1>12 DEF ClientRecv
  <2>8. CASE Ends(w, OutcomeOf(Head(queue[t])))
    <3>1. OutcomeOf(Head(queue[t])) \in Outcomes BY DEF OutcomeOf, Outcomes
    <3> QED BY <1>2, <1>5, <1>6, <1>7, <1>12, <2>4, <2>6, <2>7, <2>8, <3>1
        DEF ClientRecv
  <2>9. CASE UNCHANGED <<worker, outcome>>
    <3>1. Holders' = Holders BY <2>9 DEF Holders
    <3> QED BY <1>1, <2>4, <2>6, <2>7, <2>9, <3>1
        DEF WorkersInv, WorkerInv, PermitInv, TypeOK, linkVars, dispatchVars
  <2> QED BY <1>12, <2>8, <2>9 DEF ClientRecv
<1>13. CASE ClientWriteFail(w)
  <2>1. t \in T BY <1>3, <1>13 DEF ClientWriteFail
  <2>2. Tail(queue[t]) \in Seq(Blocks)
    BY <1>2, <1>13, <2>1 DEF ClientWriteFail
  <2>3. queue' \in [T -> Seq(Blocks)]
    BY <1>2, <1>13, <2>1, <2>2 DEF ClientWriteFail
  <2>4. faults' \in 0 .. MaxFaults /\ "failed" \in Outcomes
    BY <1>2, <1>13 DEF ClientWriteFail, Outcomes
  <2> QED BY <1>2, <1>5, <1>6, <1>7, <1>13, <2>3, <2>4 DEF ClientWriteFail
<1>14. CASE ClientGivesUp(w)
  <2>1. "failed" \in Outcomes BY DEF Outcomes
  <2> QED BY <1>2, <1>5, <1>6, <1>7, <1>14, <2>1 DEF ClientGivesUp
<1>15. CASE ClientsSignal(w)
  <2>1. Idle \in State /\ Idle.pc = "recv" /\ Idle.transfer = None BY DEF Idle
  <2>2. worker' = [worker EXCEPT ![w] = Idle] BY <1>15 DEF ClientsSignal
  <2>3. /\ Cardinality(Holders') = Cardinality(Holders) - 1
        /\ Cardinality(Holders) \in 0 .. Cardinality(Workers)
        /\ Cardinality(Workers) \in Nat
    BY <1>1, <1>15, <2>1, <2>2, PermitStep DEF ClientsSignal
  <2>4. /\ multiplex_control' \in Nat
        /\ multiplex_control' + Cardinality(Holders') = Cardinality(Workers)
    BY <1>2, <1>7, <1>15, <2>3 DEF ClientsSignal
  <2>5. t \in T BY <1>3, <1>15 DEF ClientsSignal
  <2>6. queue' \in [T -> Seq(Blocks)] BY <1>2, <1>15, <2>5 DEF ClientsSignal
  <2> QED BY <1>2, <1>5, <1>15, <2>1, <2>2, <2>4, <2>6 DEF ClientsSignal
<1> QED BY <1>8, <1>9, <1>10, <1>11, <1>12, <1>13, <1>14, <1>15 DEF WorkerStep

LEMMA WorkersInvInit == Init => WorkersInv
<1> SUFFICES ASSUME Init PROVE WorkersInv
  OBVIOUS
<1>1. TypeOK BY TypeInit
<1>2. WorkerInv BY DEF Init, WorkerInv, Idle
<1>3. Holders = {} BY DEF Init, Holders, Idle
<1>4. PermitInv
  BY <1>3, FS_EmptySet, FS_CardinalityType, DispatchAssumption
     DEF Init, PermitInv
<1> QED BY <1>1, <1>2, <1>4 DEF WorkersInv

LEMMA WorkersInvNext == WorkersInv /\ [Next]_vars => WorkersInv'
<1> SUFFICES ASSUME WorkersInv, [Next]_vars PROVE WorkersInv'
  OBVIOUS
<1>1. TypeOK BY DEF WorkersInv
<1>2. ASSUME UNCHANGED clientVars, TypeOK' PROVE WorkersInv'
  BY <1>2 DEF WorkersInv, clientVars, WorkerInv, PermitInv, Holders
<1>3. CASE Senders
  <2>1. UNCHANGED clientVars
    BY <1>3 DEF Senders, Arrive, LoseReported, LoseSilently, SenderRestart
  <2> QED BY <1>1, <1>2, <1>3, <2>1, TypeSenders
<1>4. CASE DispatchStep
  <2>1. UNCHANGED clientVars
    BY <1>4 DEF DispatchStep, SynchronizationLost, StartTransfer, ForwardBlock
  <2> QED BY <1>1, <1>2, <1>4, <2>1, TypeDispatch
<1>5. CASE \E w \in Workers : WorkerStep(w) BY <1>5, TypeWorkers
<1>6. CASE UNCHANGED vars
  BY <1>1, <1>6 DEF WorkersInv, TypeOK, WorkerInv, PermitInv, Holders, vars,
     linkVars, dispatchVars, clientVars
<1> QED BY <1>3, <1>4, <1>5, <1>6 DEF Next

LEMMA WorkersInvAlways == Spec => []WorkersInv
BY WorkersInvInit, WorkersInvNext, PTL DEF Spec

(* Every variable keeps its type and its bounds; there are never more      *)
(* permits than workers (receive/clients.rs).                              *)
THEOREM TypeCorrect == Spec => []TypeOK
<1>1. WorkersInv => TypeOK BY DEF WorkersInv
<1> QED BY <1>1, WorkersInvAlways, PTL

(* A worker that waits for a permit gets one at once: every error path     *)
(* gives it back (receive/clients.rs).                                     *)
THEOREM PermitCorrect == Spec => []PermitAvailable
<1>1. WorkersInv => PermitAvailable
  <2> SUFFICES ASSUME WorkersInv, NEW w \in Workers, worker[w].pc = "wait"
               PROVE  multiplex_control > 0
    BY DEF PermitAvailable
  <2>1. IsFiniteSet(Workers) /\ Cardinality(Workers) \in Nat
    BY DispatchAssumption, FS_CardinalityType
  <2>2. Holders \subseteq Workers /\ Holders # Workers BY DEF Holders
  <2>3. Cardinality(Holders) \in Nat BY <2>1, <2>2, FS_Subset, FS_CardinalityType
  <2>4. Cardinality(Holders) < Cardinality(Workers)
    BY <2>1, <2>2, <2>3, FS_Subset
  <2> QED BY <2>1, <2>3, <2>4 DEF WorkersInv, PermitInv, TypeOK
<1> QED BY <1>1, WorkersInvAlways, PTL
-----------------------------------------------------------------------------
(* The messages of for_dispatch.                                           *)
LEMMA BlockIs ==
  /\ \A t, p : /\ Block(t, p).transfer = t /\ Block(t, p).pos = p
               /\ Block(t, p).client = Transfers[t].client
               /\ Block(t, p).type = Type(t, p)
  /\ \A t \in T : \A p \in 0 .. Transfers[t].last : Block(t, p) # None
  /\ None \notin T /\ None \notin Blocks
<1>1. \A t, p : /\ Block(t, p).transfer = t /\ Block(t, p).pos = p
               /\ Block(t, p).client = Transfers[t].client
               /\ Block(t, p).type = Type(t, p)
  BY DEF Block
<1> QED BY <1>1, BlockFacts, NoneAssumption

LEMMA HeadFacts ==
  ASSUME TypeOK, for_dispatch # <<>>, for_dispatch' = Tail(for_dispatch)
  PROVE  /\ Len(for_dispatch) \in Nat \ {0}
         /\ Len(for_dispatch') = Len(for_dispatch) - 1
         /\ Head(for_dispatch) = for_dispatch[1]
         /\ \A i \in 1 .. Len(for_dispatch') :
              for_dispatch'[i] = for_dispatch[i + 1]
         /\ \A i \in 1 .. Len(for_dispatch') : i + 1 \in 1 .. Len(for_dispatch)
         /\ ToSet(for_dispatch') \subseteq ToSet(for_dispatch)
         /\ for_dispatch[1] \in ToSet(for_dispatch)
         /\ for_dispatch[1] \in Blocks \cup {None}
<1>1. for_dispatch \in Seq(Blocks \cup {None}) BY DEF TypeOK
<1>2. ToSet(for_dispatch) = ToSet(for_dispatch') \cup {Head(for_dispatch)}
  BY <1>1, TailSet
<1> QED BY <1>1, <1>2

(* What a sender does: one more block, or one more None.                   *)
LEMMA SendersEffect ==
  ASSUME TypeOK, Senders
  PROVE  /\ UNCHANGED <<dispatchVars, queue, to_clients, clientVars>>
         /\ \/ /\ run' = run + 1
               /\ UNCHANGED <<next, damaged, for_dispatch>>
            \/ \E t \in T :
                 /\ Transfers[t].run = run /\ run' = run
                 /\ next[t] \in 0 .. Transfers[t].last
                 /\ next' = [next EXCEPT ![t] = @ + 1]
                 /\ \/ /\ for_dispatch' = Append(for_dispatch, Block(t, next[t]))
                       /\ UNCHANGED damaged
                    \/ /\ for_dispatch' = Append(for_dispatch, None)
                       /\ UNCHANGED damaged
                    \/ /\ damaged' = damaged \cup {t}
                       /\ UNCHANGED for_dispatch
<1>1. \A t \in T : Due(t) =>
        /\ Transfers[t].run = run
        /\ next[t] \in 0 .. Transfers[t].last
        /\ next' = [next EXCEPT ![t] = @ + 1]
  <2> SUFFICES ASSUME NEW t \in T, Due(t)
               PROVE  next[t] \in 0 .. Transfers[t].last
    BY DEF Due
  <2>1. next[t] \in Nat /\ Transfers[t].last \in Nat
    BY TransferFacts DEF TypeOK
  <2> QED BY <2>1 DEF Due
<1> QED BY <1>1 DEF Senders, Arrive, LoseReported, LoseSilently, SenderRestart

LEMMA LinkInit == Init => LinkInv
BY DEF Init, LinkInv

LEMMA LinkSenders ==
  ASSUME TypeOK, LinkInv, Senders
  PROVE  LinkInv'
<1> USE TransferFacts
<1> DEFINE n == Len(for_dispatch)
<1>1. n \in Nat /\ run \in Nat /\ next \in [T -> Nat] BY DEF TypeOK
<1>2. CASE run' = run + 1 /\ UNCHANGED <<next, damaged, for_dispatch>>
  <2>1. \A t \in T : Transfers[t].run <= run => Transfers[t].run <= run + 1
    <3> SUFFICES ASSUME NEW t \in T, Transfers[t].run <= run
                 PROVE  Transfers[t].run <= run + 1
      OBVIOUS
    <3>1. Transfers[t].run \in Nat OBVIOUS
    <3> QED BY <1>1, <3>1
  <2> QED BY <1>2, <2>1 DEF LinkInv
<1>3. ASSUME NEW t \in T,
             Transfers[t].run = run, run' = run, next[t] \in 0 .. Transfers[t].last,
             next' = [next EXCEPT ![t] = @ + 1],
             NEW m \in {Block(t, next[t]), None},
             for_dispatch' = Append(for_dispatch, m)
      PROVE  LinkInv'
  <2>1. /\ Len(for_dispatch') = n + 1 /\ for_dispatch'[n + 1] = m
        /\ \A i \in 1 .. n : for_dispatch'[i] = for_dispatch[i]
    BY <1>3, BlockFacts DEF TypeOK
  <2>2. \A s \in T : next'[s] > 0 => Transfers[s].run <= run'
    BY <1>1, <1>3 DEF LinkInv
  <2>3. \A s \in T : next'[s] >= next[s] /\ next'[t] = next[t] + 1
    BY <1>1, <1>3
  <2>4. \A i \in 1 .. n + 1 : for_dispatch'[i] # None =>
          \E s \in T : \E p \in 0 .. Transfers[s].last :
            for_dispatch'[i] = Block(s, p) /\ p < next'[s]
    <3>1. \A s \in T, p \in Nat : p < next[s] => p < next'[s]
      <4> SUFFICES ASSUME NEW s \in T, NEW p \in Nat, p < next[s]
                   PROVE  p < next'[s]
        OBVIOUS
      <4> QED BY <1>1, <1>3
    <3>2. \A i \in 1 .. n : for_dispatch'[i] # None =>
            \E s \in T : \E p \in 0 .. Transfers[s].last :
              for_dispatch'[i] = Block(s, p) /\ p < next'[s]
      BY <2>1, <3>1 DEF LinkInv
    <3>3. m # None => m = Block(t, next[t]) /\ next[t] < next'[t]
      BY <1>1, <1>3, <2>3
    <3> QED BY <1>1, <1>3, <2>1, <3>2, <3>3
  <2>5. ASSUME NEW i \in 1 .. n, for_dispatch[i] # None, m # None
        PROVE  /\ Transfers[for_dispatch[i].transfer].run <= run
               /\ for_dispatch[i].transfer = t => for_dispatch[i].pos < next[t]
    <3>1. PICK s \in T, p \in Nat : for_dispatch[i] = Block(s, p) /\ p < next[s]
      BY <2>5 DEF LinkInv
    <3>2. next[s] > 0 /\ for_dispatch[i].transfer = s /\ for_dispatch[i].pos = p
      BY <1>1, <3>1, BlockIs
    <3> QED BY <3>1, <3>2 DEF LinkInv
  <2>6. m # None => m.transfer = t /\ m.pos = next[t] BY <1>3, BlockIs
  <2>7. ASSUME NEW i \in 1 .. n + 1, NEW j \in 1 .. n + 1, i < j,
               for_dispatch'[i] # None, for_dispatch'[j] # None
        PROVE  LET b == for_dispatch'[i]
                   d == for_dispatch'[j]
               IN /\ Transfers[b.transfer].run <= Transfers[d.transfer].run
                  /\ b.transfer = d.transfer => b.pos < d.pos
    <3>1. i \in 1 .. n BY <1>1, <2>7
    <3>2. CASE j \in 1 .. n BY <2>1, <2>7, <3>1, <3>2 DEF LinkInv
    <3>3. CASE j = n + 1 BY <1>3, <2>1, <2>5, <2>6, <2>7, <3>1, <3>3
    <3> QED BY <1>1, <3>2, <3>3
  <2> QED BY <2>1, <2>2, <2>4, <2>7 DEF LinkInv
<1>4. ASSUME NEW t \in T, Transfers[t].run = run, run' = run,
             next' = [next EXCEPT ![t] = @ + 1], UNCHANGED for_dispatch
      PROVE  LinkInv'
  <2>1. \A s \in T, p \in Nat : p < next[s] => p < next'[s] BY <1>1, <1>4
  <2>2. \A s \in T : next'[s] > 0 => Transfers[s].run <= run'
    BY <1>1, <1>4 DEF LinkInv
  <2> QED BY <1>4, <2>1, <2>2 DEF LinkInv
<1> QED BY <1>2, <1>3, <1>4, SendersEffect

LEMMA LinkPop ==
  ASSUME TypeOK, LinkInv, UNCHANGED <<run, next>>,
         for_dispatch # <<>>, for_dispatch' = Tail(for_dispatch)
  PROVE  LinkInv'
BY HeadFacts DEF LinkInv
-----------------------------------------------------------------------------
LEMMA ServiceInit == Init => ServedInv /\ FreshInv /\ ActiveInv
<1> SUFFICES ASSUME Init PROVE ServedInv /\ FreshInv /\ ActiveInv
  OBVIOUS
<1>1. None \notin T BY BlockIs
<1>2. /\ \A w \in Workers : worker[w].pc = "recv" /\ worker[w].transfer = None
      /\ ToSet(to_clients) = {} /\ Len(to_clients) = 0
      /\ \A c \in ClientIds : active_transfers[c] = None
      /\ \A t \in T : outcome[t] = None /\ written[t] = <<>>
  BY DEF Init, Idle, ToSet
<1>3. ServedInv BY <1>2 DEF ServedInv
<1>4. ActiveInv BY <1>1, <1>2 DEF ActiveInv
<1>5. FreshInv
  BY <1>1, <1>2, TransferFacts DEF FreshInv, Untouched, ReceiverAlive
<1> QED BY <1>3, <1>4, <1>5

LEMMA ServiceSenders ==
  ASSUME TypeOK, ServiceInv, Senders
  PROVE  ServedInv' /\ FreshInv' /\ ActiveInv'
<1> USE TransferFacts
<1> DEFINE n == Len(for_dispatch)
<1>1. /\ n \in Nat /\ run \in Nat /\ next \in [T -> Nat]
      /\ for_dispatch \in Seq(Blocks \cup {None})
      /\ active_transfers \in [ClientIds -> T \cup {None}]
  BY DEF TypeOK
<1>2. ServedInv /\ FreshInv /\ ActiveInv BY DEF ServiceInv
<1>3. /\ UNCHANGED <<active_transfers, queue, to_clients, worker, outcome,
                     written>>
      /\ \A t : ReceiverAlive(t)' = ReceiverAlive(t)
      /\ \A t : Untouched(t)' = Untouched(t)
  BY SendersEffect
     DEF dispatchVars, clientVars, ReceiverAlive, Untouched
<1>4. ServedInv' BY <1>2, <1>3 DEF ServedInv
<1>5. CASE run' = run + 1 /\ UNCHANGED <<next, damaged, for_dispatch>>
  <2>1. FreshInv' BY <1>2, <1>3, <1>5 DEF FreshInv
  <2>2. \A t \in T : Transfers[t].run <= run => Transfers[t].run <= run'
    <3> SUFFICES ASSUME NEW t \in T, Transfers[t].run <= run
                 PROVE  Transfers[t].run <= run'
      OBVIOUS
    <3>1. Transfers[t].run \in Nat OBVIOUS
    <3> QED BY <1>1, <1>5, <3>1
  <2>3. ActiveInv' BY <1>1, <1>2, <1>3, <1>5, <2>2 DEF ActiveInv, Attended
  <2> QED BY <1>4, <2>1, <2>3
<1>6. ASSUME NEW t \in T, Transfers[t].run = run, run' = run,
             next[t] \in 0 .. Transfers[t].last,
             next' = [next EXCEPT ![t] = @ + 1],
             NEW m \in {Block(t, next[t]), None},
             for_dispatch' = Append(for_dispatch, m)
      PROVE  FreshInv' /\ ActiveInv'
  <2>a. m \in Blocks \cup {None} BY <1>6, BlockFacts
  <2>1. /\ Len(for_dispatch') = n + 1 /\ for_dispatch'[n + 1] = m
        /\ \A i \in 1 .. n : for_dispatch'[i] = for_dispatch[i]
    BY <1>1, <1>6, <2>a
  <2>2. ToSet(for_dispatch') = ToSet(for_dispatch) \cup {m}
    BY <1>1, <1>6, <2>a, AppendSet
  <2>3. ASSUME NEW s \in T, next'[s] = 0 \/ Block(s, 0) \in ToSet(for_dispatch')
        PROVE  next[s] = 0 \/ Block(s, 0) \in ToSet(for_dispatch)
    <3>1. next'[s] = 0 => next[s] = 0 BY <1>1, <1>6
    <3>2. Block(s, 0) = m => s = t /\ next[t] = 0
      <4>1. Block(s, 0) # None BY BlockIs
      <4> QED BY <4>1, BlockIs, <1>6
    <3> QED BY <2>2, <2>3, <3>1, <3>2
  <2>4. FreshInv' BY <1>2, <1>3, <2>3 DEF FreshInv
  <2>5. m # None => m.transfer = t BY <1>6, BlockIs
  <2>6. ASSUME NEW c \in ClientIds, NEW s \in T, active_transfers[c] = s
        PROVE  Transfers[s].client = c /\ Attended(s)'
    <3>1. Transfers[s].client = c /\ Attended(s) BY <1>2, <2>6 DEF ActiveInv
    <3>2. /\ Transfers[s].run <= run'
          /\ \A i \in 1 .. n + 1 : for_dispatch'[i] # None =>
               Transfers[s].run <= Transfers[for_dispatch'[i].transfer].run
      BY <1>1, <1>6, <2>1, <2>5, <3>1 DEF Attended
    <3> QED BY <1>3, <2>1, <3>1, <3>2 DEF Attended
  <2>7. ActiveInv' BY <1>3, <2>6 DEF ActiveInv
  <2> QED BY <2>4, <2>7
<1>7. ASSUME NEW t \in T, run' = run, next[t] \in Nat,
             next' = [next EXCEPT ![t] = @ + 1], UNCHANGED for_dispatch
      PROVE  FreshInv' /\ ActiveInv'
  <2>1. \A s \in T : next'[s] = 0 => next[s] = 0 BY <1>1, <1>7
  <2>2. FreshInv' BY <1>2, <1>3, <1>7, <2>1 DEF FreshInv
  <2>3. ActiveInv' BY <1>2, <1>3, <1>7 DEF ActiveInv, Attended
  <2> QED BY <2>2, <2>3
<1> QED BY <1>1, <1>4, <1>5, <1>6, <1>7, SendersEffect

LEMMA ServiceSynchronizationLost ==
  ASSUME TypeOK, ServiceInv, SynchronizationLost
  PROVE  ServedInv' /\ FreshInv' /\ ActiveInv'
<1>1. ServedInv /\ FreshInv BY DEF ServiceInv
<1>2. /\ ToSet(for_dispatch') \subseteq ToSet(for_dispatch)
      /\ UNCHANGED <<next, to_clients, worker, outcome, written>>
      /\ active_transfers' = [c \in ClientIds |-> None]
  BY HeadFacts DEF SynchronizationLost, linkVars, clientVars
<1>3. ServedInv' BY <1>1, <1>2 DEF ServedInv
<1>4. ActiveInv' BY <1>2, BlockIs DEF ActiveInv
<1>5. \A t \in T : Untouched(t) => Untouched(t)'
  BY <1>2, BlockIs, TransferFacts DEF Untouched, ReceiverAlive
<1>6. FreshInv' BY <1>1, <1>2, <1>5 DEF FreshInv
<1> QED BY <1>3, <1>4, <1>6

LEMMA ServiceStartTransfer ==
  ASSUME TypeOK, WorkerInv, ServiceInv, StartTransfer
  PROVE  ServedInv' /\ FreshInv' /\ ActiveInv'
<1> USE TransferFacts
<1> DEFINE n == Len(for_dispatch)
<1>1. /\ n \in Nat \ {0} /\ Len(for_dispatch') = n - 1
      /\ \A i \in 1 .. n - 1 : for_dispatch'[i] = for_dispatch[i + 1]
      /\ Head(for_dispatch) = for_dispatch[1]
      /\ ToSet(for_dispatch') \subseteq ToSet(for_dispatch)
      /\ for_dispatch[1] \in ToSet(for_dispatch)
  BY HeadFacts DEF StartTransfer
<1>2. /\ LinkInv /\ ServedInv /\ FreshInv /\ ActiveInv
  BY DEF ServiceInv
<1>3. PICK t \in T : for_dispatch[1] = Block(t, 0) /\ 0 < next[t]
  <2>1. for_dispatch[1] # None /\ for_dispatch[1].type = "start"
    BY <1>1 DEF StartTransfer
  <2>2. PICK t \in T : \E p \in 0 .. Transfers[t].last :
          for_dispatch[1] = Block(t, p) /\ p < next[t]
    BY <1>1, <1>2, <2>1 DEF LinkInv
  <2> QED BY <2>1, <2>2, BlockFacts
<1> DEFINE c == Transfers[t].client
<1>4. /\ active_transfers' = [active_transfers EXCEPT ![c] = t]
      /\ queue' = [queue EXCEPT ![t] = <<Block(t, 0)>>]
      /\ to_clients' = Append(to_clients, t)
      /\ UNCHANGED <<run, next, worker, outcome, written>>
  <2>1. Block(t, 0).client = c /\ Block(t, 0).transfer = t BY BlockIs
  <2> QED BY <1>1, <1>3, <2>1 DEF StartTransfer, linkVars, clientVars
<1>5. /\ active_transfers \in [ClientIds -> T \cup {None}]
      /\ queue \in [T -> Seq(Blocks)] /\ to_clients \in Seq(T)
      /\ c \in ClientIds /\ next \in [T -> Nat] /\ None \notin T
  BY BlockIs DEF TypeOK
<1>6. /\ ToSet(to_clients') = ToSet(to_clients) \cup {t}
      /\ Len(to_clients') = Len(to_clients) + 1 /\ to_clients'[Len(to_clients')] = t
      /\ \A i \in 1 .. Len(to_clients) : to_clients'[i] = to_clients[i]
      /\ \A i \in 1 .. Len(to_clients) : to_clients[i] \in ToSet(to_clients)
      /\ Len(to_clients) \in Nat
  <2>1. ToSet(to_clients') = ToSet(to_clients) \cup {t}
    BY <1>4, <1>5, AppendSet
  <2>2. \A i \in 1 .. Len(to_clients) : to_clients[i] \in ToSet(to_clients)
    BY <1>5 DEF ToSet
  <2>3. /\ Len(to_clients) \in Nat
        /\ Len(to_clients') = Len(to_clients) + 1
        /\ to_clients'[Len(to_clients) + 1] = t
        /\ \A i \in 1 .. Len(to_clients) : to_clients'[i] = to_clients[i]
    BY <1>4, <1>5
  <2> QED BY <2>1, <2>2, <2>3
<1>7. Untouched(t) BY <1>1, <1>2, <1>3 DEF FreshInv
<1>8. ServedInv'
  <2>1. \A i, j \in 1 .. Len(to_clients') : to_clients'[i] = to_clients'[j] => i = j
    BY <1>2, <1>6, <1>7 DEF ServedInv, Untouched, ReceiverAlive
  <2>2. \A w \in Workers : worker'[w].transfer \notin ToSet(to_clients')
    BY <1>2, <1>4, <1>6, <1>7 DEF ServedInv, Untouched, ReceiverAlive
  <2>3. \A s \in ToSet(to_clients') : outcome'[s] = None
    BY <1>2, <1>4, <1>6, <1>7 DEF ServedInv, Untouched
  <2> QED BY <1>2, <1>4, <2>1, <2>2, <2>3 DEF ServedInv
<1>9. \A s \in T : s # t => (ReceiverAlive(s)' <=> ReceiverAlive(s))
  BY <1>4, <1>6 DEF ReceiverAlive
<1>10. ReceiverAlive(t)' BY <1>6 DEF ReceiverAlive
<1>11. Block(t, 0) \notin ToSet(for_dispatch')
  <2> SUFFICES ASSUME NEW i \in 1 .. n - 1, for_dispatch'[i] = Block(t, 0)
               PROVE  FALSE
    BY <1>1 DEF ToSet
  <2>1. for_dispatch[i + 1] = Block(t, 0) /\ i + 1 \in 1 .. n BY <1>1
  <2>2. Block(t, 0) # None BY BlockIs
  <2>3. Block(t, 0).pos < Block(t, 0).pos
    BY <1>1, <1>2, <1>3, <2>1, <2>2 DEF LinkInv
  <2> QED BY <2>3, BlockIs
<1>12. FreshInv'
  <2> SUFFICES ASSUME NEW s \in T,
                      next'[s] = 0 \/ Block(s, 0) \in ToSet(for_dispatch')
               PROVE  Untouched(s)'
    BY DEF FreshInv
  <2>1. s # t BY <1>3, <1>4, <1>5, <1>11
  <2>2. Untouched(s) BY <1>1, <1>2, <1>4 DEF FreshInv
  <2> QED BY <1>4, <1>5, <1>9, <2>1, <2>2 DEF Untouched
<1>13. ActiveInv'
  <2> SUFFICES ASSUME NEW d \in ClientIds, NEW s \in T, active_transfers'[d] = s
               PROVE  Transfers[s].client = d /\ Attended(s)'
    BY DEF ActiveInv
  <2>1. CASE d = c
    <3>1. s = t /\ queue'[t] = <<Block(t, 0)>> BY <1>4, <1>5, <2>1
    <3>2. outcome'[t] = None BY <1>4, <1>7 DEF Untouched
    <3>3. \A i \in 1 .. Len(queue'[t]) : queue'[t][i].type \notin Endings
      <4>1. Block(t, 0).type = "start" BY BlockFacts
      <4> QED BY <3>1, <4>1 DEF Endings
    <3>4. Transfers[t].run <= run' BY <1>2, <1>3, <1>4 DEF LinkInv
    <3>5. \A i \in 1 .. n - 1 : for_dispatch'[i] # None =>
            Transfers[t].run <= Transfers[for_dispatch'[i].transfer].run
      <4> SUFFICES ASSUME NEW i \in 1 .. n - 1, for_dispatch[i + 1] # None
                   PROVE  Transfers[t].run
                            <= Transfers[for_dispatch[i + 1].transfer].run
        BY <1>1
      <4>1. Block(t, 0) # None /\ Block(t, 0).transfer = t BY BlockIs
      <4> QED BY <1>1, <1>2, <1>3, <4>1 DEF LinkInv
    <3>6. Attended(t)' BY <1>1, <1>10, <3>2, <3>3, <3>4, <3>5 DEF Attended
    <3> QED BY <2>1, <3>1, <3>6
  <2>2. CASE d # c
    <3>1. active_transfers[d] = s BY <1>4, <1>5, <2>2
    <3>2. Transfers[s].client = d /\ Attended(s) BY <1>2, <3>1 DEF ActiveInv
    <3>3. s # t BY <2>2, <3>2
    <3>4. queue'[s] = queue[s] BY <1>4, <1>5, <3>3
    <3>5. \A i \in 1 .. n - 1 : i + 1 \in 1 .. n BY <1>1
    <3>6. Attended(s)' BY <1>1, <1>4, <1>9, <3>2, <3>3, <3>4, <3>5 DEF Attended
    <3> QED BY <3>2, <3>6
  <2> QED BY <2>1, <2>2
<1> QED BY <1>8, <1>12, <1>13

LEMMA ServiceForwardBlock ==
  ASSUME TypeOK, ServiceInv, ForwardBlock
  PROVE  ServedInv' /\ FreshInv' /\ ActiveInv'
<1> USE TransferFacts
<1> DEFINE n == Len(for_dispatch)
           block == for_dispatch[1]
           c == block.client
           t == active_transfers[c]
<1>1. /\ n \in Nat \ {0} /\ Len(for_dispatch') = n - 1
      /\ \A i \in 1 .. n - 1 : for_dispatch'[i] = for_dispatch[i + 1]
      /\ Head(for_dispatch) = block
      /\ ToSet(for_dispatch') \subseteq ToSet(for_dispatch)
      /\ block \in Blocks
  BY HeadFacts DEF ForwardBlock
<1>2. ServedInv /\ FreshInv /\ ActiveInv BY DEF ServiceInv
<1>3. /\ active_transfers \in [ClientIds -> T \cup {None}]
      /\ queue \in [T -> Seq(Blocks)] /\ c \in ClientIds /\ None \notin T
  BY <1>1, BlockIs, BlockFacts DEF TypeOK
<1>4. UNCHANGED <<run, next, to_clients, worker, outcome, written>>
  BY DEF ForwardBlock, linkVars, clientVars
<1>5. \/ UNCHANGED <<queue, active_transfers>>
      \/ /\ active_transfers' = [active_transfers EXCEPT ![c] = None]
         /\ UNCHANGED queue
      \/ /\ t \in T /\ block.type = "data" /\ UNCHANGED active_transfers
         /\ queue' = [queue EXCEPT ![t] = Append(@, block)]
      \/ /\ t \in T
         /\ active_transfers' = [active_transfers EXCEPT ![c] = None]
         /\ queue' = [queue EXCEPT ![t] = Append(@, block)]
  BY <1>1, <1>3 DEF ForwardBlock, EndTransfer, dispatchVars
<1>6. \A s : ReceiverAlive(s)' = ReceiverAlive(s) BY <1>4 DEF ReceiverAlive
<1>7. ServedInv' BY <1>2, <1>4 DEF ServedInv
<1>8. \A d \in ClientIds : \A s \in T :
        active_transfers'[d] = s => active_transfers[d] = s
  BY <1>3, <1>5
<1>9. FreshInv'
  <2>1. \A s \in T : Untouched(s) => Untouched(s)'
    BY <1>4, <1>6, <1>8 DEF Untouched
  <2> QED BY <1>1, <1>2, <1>4, <2>1 DEF FreshInv
<1>10. ActiveInv'
  <2> SUFFICES ASSUME NEW d \in ClientIds, NEW s \in T, active_transfers'[d] = s
               PROVE  Transfers[s].client = d /\ Attended(s)'
    BY DEF ActiveInv
  <2>1. active_transfers[d] = s BY <1>8
  <2>2. Transfers[s].client = d /\ Attended(s) BY <1>2, <2>1 DEF ActiveInv
  <2>3. s = t /\ t \in T => d = c BY <1>2, <1>3, <2>2 DEF ActiveInv
  <2>4. ASSUME outcome[s] = None, NEW i \in 1 .. Len(queue'[s])
        PROVE  queue'[s][i].type \notin Endings
    <3>1. CASE queue'[s] = queue[s] BY <2>2, <2>4, <3>1 DEF Attended
    <3>2. CASE queue'[s] # queue[s]
      <4>1. /\ s = t /\ block.type = "data"
            /\ queue' = [queue EXCEPT ![t] = Append(@, block)]
        BY <1>3, <1>5, <2>3, <3>2
      <4>2. queue[s] \in Seq(Blocks) /\ queue'[s] = Append(queue[s], block)
        BY <1>3, <4>1
      <4> HIDE DEF block
      <4>3. /\ Len(queue'[s]) = Len(queue[s]) + 1
            /\ Len(queue[s]) \in Nat
            /\ queue'[s][Len(queue[s]) + 1] = block
            /\ \A k \in 1 .. Len(queue[s]) : queue'[s][k] = queue[s][k]
        BY <4>2, <1>1
      <4>4. CASE i \in 1 .. Len(queue[s])
        BY <2>2, <2>4, <4>3, <4>4 DEF Attended
      <4>5. CASE i = Len(queue[s]) + 1 BY <4>1, <4>3, <4>5 DEF Endings
      <4> QED BY <4>3, <4>4, <4>5
    <3> QED BY <3>1, <3>2
  <2>5. \A i \in 1 .. n - 1 : i + 1 \in 1 .. n BY <1>1
  <2>6. Attended(s)' BY <1>1, <1>4, <1>6, <2>2, <2>4, <2>5 DEF Attended
  <2> QED BY <2>2, <2>6
<1> QED BY <1>7, <1>9, <1>10

(* What a step of a worker does to a transfer s, as far as the others are  *)
(* concerned.                                                              *)
WorkerEffect(w, s) ==
  /\ ReceiverAlive(s)' => ReceiverAlive(s)
  /\ outcome'[s] = None => /\ outcome[s] = None
                           /\ ReceiverAlive(s) => ReceiverAlive(s)'
                           /\ \/ queue'[s] = queue[s]
                              \/ /\ queue[s] # <<>>
                                 /\ queue'[s] = Tail(queue[s])
  /\ outcome'[s] # outcome[s] =>
       /\ worker[w].transfer = s
       /\ outcome[s] = None
       /\ \/ outcome'[s] = "failed"
          \/ queue[s] # <<>> /\ Head(queue[s]).type \in Endings
  /\ written'[s] # written[s] => worker[w].transfer = s

LEMMA WorkerEffectProved ==
  ASSUME TypeOK, WorkerInv, ServedInv, NEW w \in Workers, WorkerStep(w)
  PROVE  /\ ServedInv'
         /\ \A s \in T : WorkerEffect(w, s)
         /\ UNCHANGED <<linkVars, for_dispatch, dispatchVars>>
<1> DEFINE t == worker[w].transfer
<1>1. /\ worker \in [Workers -> [pc : {"recv", "wait", "new", "run", "signal"},
                                 transfer : T \cup {None}]]
      /\ queue \in [T -> Seq(Blocks)] /\ to_clients \in Seq(T)
      /\ outcome \in [T -> Outcomes \cup {None}]
      /\ written \in [T -> Seq(Blocks)]
      /\ None \notin T /\ None \notin Outcomes
      /\ worker[w].pc # "recv" => t \in T
      /\ worker[w].pc = "recv" => t = None
  BY BlockIs, NoneAssumption DEF TypeOK, WorkerInv
<1>2. UNCHANGED <<linkVars, for_dispatch, dispatchVars>>
  BY DEF WorkerStep, ClientsRecv, ClientsWait, ClientNew, ClientNewFail,
         ClientRecv, ClientWriteFail, ClientGivesUp, ClientsSignal
(* The worker goes on with the same transfer.                              *)
<1>3. ASSUME NEW pc \in {"new", "run"}, worker[w].pc \in {"wait", "new", "run"},
             worker' = [worker EXCEPT ![w].pc = pc],
             UNCHANGED <<to_clients, outcome>>
      PROVE  /\ ServedInv'
             /\ \A s : ReceiverAlive(s)' = ReceiverAlive(s)
  <2>1. \A v \in Workers :
          /\ worker'[v].transfer = worker[v].transfer
          /\ worker'[v].pc = IF v = w THEN pc ELSE worker[v].pc
    BY <1>1, <1>3
  <2>2. \A s : ReceiverAlive(s)' = ReceiverAlive(s)
    BY <1>3, <2>1 DEF ReceiverAlive
  <2> QED BY <1>3, <2>1, <2>2 DEF ServedInv
<1>4. ASSUME NEW how \in Outcomes, worker[w].pc \in {"new", "run"},
             Ends(w, how), UNCHANGED to_clients
      PROVE  /\ ServedInv'
             /\ \A s : ReceiverAlive(s)' = ReceiverAlive(s)
             /\ t \in T /\ outcome[t] = None /\ outcome'[t] = how
             /\ how # None
             /\ \A s \in T : s # t => outcome'[s] = outcome[s]
  <2>1. \A v \in Workers :
          /\ worker'[v].transfer = worker[v].transfer
          /\ worker'[v].pc = IF v = w THEN "signal" ELSE worker[v].pc
    BY <1>1, <1>4 DEF Ends
  <2>2. \A s : ReceiverAlive(s)' = ReceiverAlive(s)
    BY <1>4, <2>1 DEF ReceiverAlive
  <2>3. /\ t \in T /\ outcome[t] = None /\ outcome'[t] = how
        /\ how # None
        /\ \A s \in T : s # t => outcome'[s] = outcome[s]
    BY <1>1, <1>4 DEF Ends, ServedInv
  <2>4. \A v \in Workers : v # w => worker[v].transfer # t
    BY <1>1, <2>3 DEF ServedInv
  <2>5. \A v \in Workers : worker[v].pc # "recv" => worker[v].transfer \in T
    BY DEF WorkerInv
  <2>6. t \notin ToSet(to_clients) /\ ToSet(to_clients) \subseteq T
    BY <1>1 DEF ServedInv, ToSet
  <2>7. ServedInv'
    <3>1. \A v \in Workers : worker'[v].pc \in {"wait", "new", "run"} =>
            outcome'[worker'[v].transfer] = None
      BY <2>1, <2>3, <2>4, <2>5 DEF ServedInv
    <3>2. \A v \in Workers : worker'[v].pc = "signal" =>
            outcome'[worker'[v].transfer] # None
      BY <2>1, <2>3, <2>4, <2>5 DEF ServedInv
    <3>3. \A s \in ToSet(to_clients') : outcome'[s] = None
      BY <1>4, <2>3, <2>6 DEF ServedInv
    <3> QED BY <1>4, <2>1, <3>1, <3>2, <3>3 DEF ServedInv
  <2> QED BY <2>2, <2>3, <2>7
<1>5. CASE ClientsRecv(w)
  <2> DEFINE h == Head(to_clients)
             n == Len(to_clients)
  <2>1. /\ n \in Nat \ {0} /\ h = to_clients[1] /\ h \in T
        /\ to_clients' = Tail(to_clients)
        /\ Len(to_clients') = n - 1
        /\ \A i \in 1 .. n - 1 : /\ to_clients'[i] = to_clients[i + 1]
                                /\ i + 1 \in 1 .. n
        /\ ToSet(to_clients) = ToSet(to_clients') \cup {h}
    BY <1>1, <1>5, TailSet DEF ClientsRecv
  <2>2. \A v \in Workers :
          worker'[v] = IF v = w THEN [pc |-> "wait", transfer |-> h]
                       ELSE worker[v]
    BY <1>1, <1>5 DEF ClientsRecv
  <2>3. t = None /\ UNCHANGED <<outcome, queue, written>>
    BY <1>1, <1>5 DEF ClientsRecv
  <2>4. ASSUME NEW s \in T PROVE ReceiverAlive(s)' <=> ReceiverAlive(s)
    <3> HIDE DEF h, n
    <3>1. worker'[w].transfer = h BY <2>2
    <3>2. (\E v \in Workers : worker'[v].transfer = s)
            <=> s = h \/ \E v \in Workers : worker[v].transfer = s
      BY <1>1, <2>2, <2>3, <3>1
    <3>3. s \in ToSet(to_clients) <=> s \in ToSet(to_clients') \/ s = h BY <2>1
    <3> QED BY <3>2, <3>3 DEF ReceiverAlive
  <2>5. h \notin ToSet(to_clients')
    <3> SUFFICES ASSUME NEW i \in 1 .. n - 1, to_clients'[i] = h PROVE FALSE
      BY <2>1 DEF ToSet
    <3>1. i + 1 \in 1 .. n /\ 1 \in 1 .. n /\ to_clients[i + 1] = to_clients[1]
      BY <2>1
    <3>2. i + 1 = 1 BY <3>1 DEF ServedInv
    <3> QED BY <3>2
  <2>6. \A v \in Workers : worker[v].transfer # h
    BY <2>1 DEF ServedInv
  <2>7. ServedInv'
    <3> HIDE DEF h, n
    <3>1. \A v, u \in Workers :
            worker'[v].transfer = worker'[u].transfer
              /\ worker'[v].transfer # None => v = u
      BY <2>2, <2>6 DEF ServedInv
    <3>2. \A i, k \in 1 .. Len(to_clients') :
            to_clients'[i] = to_clients'[k] => i = k
      <4> SUFFICES ASSUME NEW i \in 1 .. n - 1, NEW k \in 1 .. n - 1,
                          to_clients'[i] = to_clients'[k]
                   PROVE  i = k
        BY <2>1
      <4>1. i + 1 = k + 1 BY <2>1 DEF ServedInv, n
      <4> QED BY <2>1, <4>1
    <3>3. \A v \in Workers : worker'[v].transfer \notin ToSet(to_clients')
      BY <2>1, <2>2, <2>5 DEF ServedInv
    <3>4. \A v \in Workers : worker'[v].pc \in {"wait", "new", "run"} =>
            outcome'[worker'[v].transfer] = None
      BY <2>1, <2>2, <2>3 DEF ServedInv
    <3>5. \A v \in Workers : worker'[v].pc = "signal" =>
            outcome'[worker'[v].transfer] # None
      BY <2>2, <2>3 DEF ServedInv
    <3>6. \A s \in ToSet(to_clients') : outcome'[s] = None
      BY <2>1, <2>3 DEF ServedInv
    <3> QED BY <3>1, <3>2, <3>3, <3>4, <3>5, <3>6 DEF ServedInv
  <2>8. \A s \in T : WorkerEffect(w, s) BY <2>3, <2>4 DEF WorkerEffect
  <2> QED BY <1>2, <2>7, <2>8
<1>6. CASE ClientsWait(w)
  <2>1. UNCHANGED <<outcome, queue, written, to_clients>> BY <1>6 DEF ClientsWait
  <2>2. ServedInv' /\ \A s : ReceiverAlive(s)' = ReceiverAlive(s)
    BY <1>3, <1>6, <2>1 DEF ClientsWait
  <2> QED BY <1>2, <2>1, <2>2 DEF WorkerEffect
<1>7. CASE ClientNew(w)
  <2>1. UNCHANGED <<outcome, queue, written, to_clients>> BY <1>7 DEF ClientNew
  <2>2. ServedInv' /\ \A s : ReceiverAlive(s)' = ReceiverAlive(s)
    BY <1>3, <1>7, <2>1 DEF ClientNew
  <2> QED BY <1>2, <2>1, <2>2 DEF WorkerEffect
<1>8. CASE ClientNewFail(w)
  <2>1. UNCHANGED <<queue, written, to_clients>> /\ "failed" \in Outcomes
    BY <1>8 DEF ClientNewFail, Outcomes
  <2>2. /\ ServedInv' /\ \A s : ReceiverAlive(s)' = ReceiverAlive(s)
        /\ t \in T /\ outcome[t] = None /\ outcome'[t] = "failed"
        /\ "failed" # None
        /\ \A s \in T : s # t => outcome'[s] = outcome[s]
    BY <1>4, <1>8, <2>1 DEF ClientNewFail
  <2>3. \A s \in T : WorkerEffect(w, s) BY <2>1, <2>2 DEF WorkerEffect
  <2> QED BY <1>2, <2>2, <2>3
<1>9. CASE ClientRecv(w)
  <2>1. /\ t \in T /\ queue[t] # <<>> /\ queue' = [queue EXCEPT ![t] = Tail(@)]
        /\ UNCHANGED to_clients
        /\ \A s \in T : s # t => written'[s] = written[s]
    BY <1>1, <1>9 DEF ClientRecv
  <2>2. \A s \in T : queue'[s] = IF s = t THEN Tail(queue[s]) ELSE queue[s]
    BY <1>1, <2>1
  <2>3. CASE Head(queue[t]).type \in Endings
    <3> DEFINE how == OutcomeOf(Head(queue[t]))
    <3>1. how \in Outcomes /\ Ends(w, how)
      BY <1>9, <2>3 DEF ClientRecv, Endings, OutcomeOf, Outcomes
    <3> HIDE DEF how
    <3>2. /\ ServedInv' /\ \A s : ReceiverAlive(s)' = ReceiverAlive(s)
          /\ outcome[t] = None /\ outcome'[t] = how /\ how # None
          /\ \A s \in T : s # t => outcome'[s] = outcome[s]
      BY <1>4, <1>9, <2>1, <3>1 DEF ClientRecv
    <3>3. \A s \in T : WorkerEffect(w, s)
      BY <2>1, <2>2, <2>3, <3>2 DEF WorkerEffect
    <3> QED BY <1>2, <3>2, <3>3
  <2>4. CASE Head(queue[t]).type \notin Endings
    <3>1. UNCHANGED <<worker, outcome, to_clients>>
      BY <1>9, <2>4 DEF ClientRecv, Endings
    <3>2. ServedInv' /\ \A s : ReceiverAlive(s)' = ReceiverAlive(s)
      BY <3>1 DEF ServedInv, ReceiverAlive
    <3>3. \A s \in T : WorkerEffect(w, s)
      BY <2>1, <2>2, <3>1, <3>2 DEF WorkerEffect
    <3> QED BY <1>2, <3>2, <3>3
  <2> QED BY <2>3, <2>4
<1>10. CASE ClientWriteFail(w)
  <2>1. /\ UNCHANGED <<written, to_clients>> /\ "failed" \in Outcomes
        /\ \A s \in T : s # t => queue'[s] = queue[s]
    BY <1>1, <1>10 DEF ClientWriteFail, Outcomes
  <2>2. /\ ServedInv' /\ \A s : ReceiverAlive(s)' = ReceiverAlive(s)
        /\ t \in T /\ outcome[t] = None /\ outcome'[t] = "failed"
        /\ "failed" # None
        /\ \A s \in T : s # t => outcome'[s] = outcome[s]
    BY <1>4, <1>10, <2>1 DEF ClientWriteFail
  <2>3. \A s \in T : WorkerEffect(w, s) BY <2>1, <2>2 DEF WorkerEffect
  <2> QED BY <1>2, <2>2, <2>3
<1>11. CASE ClientGivesUp(w)
  <2>1. UNCHANGED <<queue, written, to_clients>> /\ "failed" \in Outcomes
    BY <1>11 DEF ClientGivesUp, Outcomes
  <2>2. /\ ServedInv' /\ \A s : ReceiverAlive(s)' = ReceiverAlive(s)
        /\ t \in T /\ outcome[t] = None /\ outcome'[t] = "failed"
        /\ "failed" # None
        /\ \A s \in T : s # t => outcome'[s] = outcome[s]
    BY <1>4, <1>11, <2>1 DEF ClientGivesUp
  <2>3. \A s \in T : WorkerEffect(w, s) BY <2>1, <2>2 DEF WorkerEffect
  <2> QED BY <1>2, <2>2, <2>3
<1>12. CASE ClientsSignal(w)
  <2>1. /\ t \in T /\ outcome[t] # None
        /\ UNCHANGED <<outcome, written, to_clients>>
        /\ \A s \in T : s # t => queue'[s] = queue[s]
    BY <1>1, <1>12 DEF ClientsSignal, ServedInv
  <2>2. \A v \in Workers : worker'[v] = IF v = w THEN Idle ELSE worker[v]
    BY <1>1, <1>12 DEF ClientsSignal
  <2>3. Idle.pc = "recv" /\ Idle.transfer = None BY DEF Idle
  <2>4. ASSUME NEW s \in T, s # t PROVE ReceiverAlive(s)' <=> ReceiverAlive(s)
    <3>0. s # None BY <1>1
    <3>1. \A v \in Workers : worker'[v].transfer = s <=> worker[v].transfer = s
      <4> SUFFICES ASSUME NEW v \in Workers
                   PROVE  worker'[v].transfer = s <=> worker[v].transfer = s
        OBVIOUS
      <4>1. CASE v = w
        <5>1. worker'[v].transfer = None BY <2>2, <2>3, <4>1
        <5> QED BY <2>4, <3>0, <4>1, <5>1
      <4>2. CASE v # w
        <5>1. worker'[v] = worker[v] BY <2>2, <4>2
        <5> QED BY <5>1
      <4> QED BY <4>1, <4>2
    <3> QED BY <2>1, <3>1 DEF ReceiverAlive
  <2>5. ReceiverAlive(t) BY DEF ReceiverAlive
  <2>6. None \notin ToSet(to_clients) BY <1>1 DEF ToSet
  <2>7. ServedInv' BY <2>1, <2>2, <2>3, <2>6 DEF ServedInv
  <2>8. \A s \in T : WorkerEffect(w, s)
    BY <2>1, <2>4, <2>5 DEF WorkerEffect
  <2> QED BY <1>2, <2>7, <2>8
<1> QED BY <1>2, <1>5, <1>6, <1>7, <1>8, <1>9, <1>10, <1>11, <1>12
        DEF WorkerStep

LEMMA ServiceWorkers ==
  ASSUME TypeOK, WorkerInv, ServiceInv, NEW w \in Workers, WorkerStep(w)
  PROVE  ServedInv' /\ FreshInv' /\ ActiveInv'
<1>1. ServedInv /\ FreshInv /\ ActiveInv BY DEF ServiceInv
<1>2. /\ ServedInv'
      /\ \A s \in T : WorkerEffect(w, s)
      /\ UNCHANGED <<run, next, for_dispatch, active_transfers>>
  BY <1>1, WorkerEffectProved DEF linkVars, dispatchVars
<1>3. FreshInv'
  <2>1. ASSUME NEW s \in T, Untouched(s) PROVE Untouched(s)'
    <3>1. worker[w].transfer # s BY <2>1 DEF Untouched, ReceiverAlive
    <3> QED BY <1>2, <2>1, <3>1 DEF Untouched, WorkerEffect
  <2> QED BY <1>1, <1>2, <2>1 DEF FreshInv
<1>4. ASSUME NEW s \in T, Attended(s) PROVE Attended(s)'
  <2>1. WorkerEffect(w, s) BY <1>2
  <2>2. queue[s] \in Seq(Blocks) BY DEF TypeOK
  <2>3. outcome'[s] \in {None, "failed"}
    <3>1. CASE outcome'[s] = outcome[s] BY <1>4, <3>1 DEF Attended
    <3>2. CASE outcome'[s] # outcome[s]
      <4>1. outcome[s] = None BY <2>1, <3>2 DEF WorkerEffect
      <4>2. \A i \in 1 .. Len(queue[s]) : queue[s][i].type \notin Endings
        BY <1>4, <4>1 DEF Attended
      <4>3. queue[s] # <<>> => Head(queue[s]).type \notin Endings
        BY <2>2, <4>2
      <4> QED BY <2>1, <3>2, <4>3 DEF WorkerEffect
    <3> QED BY <3>1, <3>2
  <2>4. ASSUME outcome'[s] = None
        PROVE  /\ ReceiverAlive(s)'
               /\ \A i \in 1 .. Len(queue'[s]) : queue'[s][i].type \notin Endings
    <3>1. /\ ReceiverAlive(s)
          /\ \A i \in 1 .. Len(queue[s]) : queue[s][i].type \notin Endings
          /\ ReceiverAlive(s)'
          /\ \/ queue'[s] = queue[s]
             \/ queue[s] # <<>> /\ queue'[s] = Tail(queue[s])
      BY <1>4, <2>1, <2>4 DEF Attended, WorkerEffect
    <3>2. CASE queue'[s] = queue[s] BY <3>1, <3>2
    <3>3. CASE queue[s] # <<>> /\ queue'[s] = Tail(queue[s])
      <4>1. /\ Len(queue'[s]) = Len(queue[s]) - 1 /\ Len(queue[s]) \in Nat
            /\ \A i \in 1 .. Len(queue[s]) - 1 : queue'[s][i] = queue[s][i + 1]
        BY <2>2, <3>3
      <4>2. \A i \in 1 .. Len(queue[s]) - 1 : i + 1 \in 1 .. Len(queue[s])
        BY <4>1
      <4> QED BY <3>1, <4>1, <4>2
    <3> QED BY <3>1, <3>2, <3>3
  <2> QED BY <1>2, <1>4, <2>3, <2>4 DEF Attended
<1>5. ActiveInv' BY <1>1, <1>2, <1>4 DEF ActiveInv
<1> QED BY <1>2, <1>3, <1>5

LEMMA ServiceNext == WorkersInv /\ ServiceInv /\ [Next]_vars => ServiceInv'
<1> SUFFICES ASSUME WorkersInv, ServiceInv, [Next]_vars PROVE ServiceInv'
  OBVIOUS
<1>1. TypeOK /\ WorkerInv /\ LinkInv BY DEF WorkersInv, ServiceInv
<1>2. CASE Senders
  BY <1>1, <1>2, LinkSenders, ServiceSenders DEF ServiceInv
<1>3. ASSUME DispatchStep PROVE LinkInv'
  <2>1. /\ for_dispatch # <<>> /\ for_dispatch' = Tail(for_dispatch)
        /\ UNCHANGED <<run, next>>
    BY <1>3 DEF DispatchStep, SynchronizationLost, StartTransfer, ForwardBlock,
                linkVars
  <2> QED BY <1>1, <2>1, LinkPop
<1>4. CASE SynchronizationLost
  BY <1>1, <1>3, <1>4, ServiceSynchronizationLost DEF ServiceInv, DispatchStep
<1>5. CASE StartTransfer
  BY <1>1, <1>3, <1>5, ServiceStartTransfer DEF ServiceInv, DispatchStep
<1>6. CASE ForwardBlock
  BY <1>1, <1>3, <1>6, ServiceForwardBlock DEF ServiceInv, DispatchStep
<1>7. ASSUME NEW w \in Workers, WorkerStep(w) PROVE ServiceInv'
  <2>1. UNCHANGED <<run, next, for_dispatch>>
    BY <1>1, <1>7, WorkerEffectProved DEF linkVars, ServiceInv
  <2>2. LinkInv' BY <1>1, <2>1 DEF LinkInv
  <2> QED BY <1>1, <1>7, <2>2, ServiceWorkers DEF ServiceInv
<1>8. CASE UNCHANGED vars
  BY <1>8 DEF ServiceInv, LinkInv, ServedInv, FreshInv, ActiveInv, Untouched,
     Attended, ReceiverAlive, vars, linkVars, dispatchVars, clientVars
<1> QED BY <1>2, <1>4, <1>5, <1>6, <1>7, <1>8 DEF Next, DispatchStep

LEMMA ServiceAlways == Spec => [](WorkersInv /\ ServiceInv)
<1>1. Init => WorkersInv /\ ServiceInv
  BY WorkersInvInit, LinkInit, ServiceInit DEF ServiceInv
<1>2. WorkersInv /\ ServiceInv /\ [Next]_vars => WorkersInv' /\ ServiceInv'
  BY WorkersInvNext, ServiceNext
<1> QED BY <1>1, <1>2, PTL DEF Spec

(* A queue that may still get blocks has a worker, or one is to come,      *)
(* unless its worker has given up (receive/dispatch.rs).                   *)
THEOREM ActiveIsServedCorrect == Spec => []ActiveIsServed
<1>1. WorkersInv /\ ServiceInv => ActiveIsServed
  <2> SUFFICES ASSUME WorkersInv, ServiceInv, NEW c \in ClientIds,
                      active_transfers[c] # None,
                      ~ ReceiverAlive(active_transfers[c])
               PROVE  outcome[active_transfers[c]] = "failed"
    BY DEF ActiveIsServed
  <2>1. active_transfers[c] \in T BY DEF WorkersInv, TypeOK
  <2> QED BY <2>1 DEF ServiceInv, ActiveInv, Attended
<1> QED BY <1>1, ServiceAlways, PTL
-----------------------------------------------------------------------------
(* The flow of the blocks of one transfer.                                 *)
LEMMA FlowSenders ==
  ASSUME TypeOK, Senders, NEW lo \in Nat \ {0}, lo <= Len(for_dispatch) + 1,
         NEW s \in T, s \notin damaged', NEW floor \in Nat,
         Flow(lo, s, floor)
  PROVE  Flow(lo, s, floor)'
<1> DEFINE n == Len(for_dispatch)
<1>1. n \in Nat /\ next \in [T -> Nat] BY DEF TypeOK
<1>2. CASE UNCHANGED <<next, for_dispatch>>
  BY <1>2 DEF Flow, Reaches
<1>3. ASSUME NEW t \in T, next' = [next EXCEPT ![t] = @ + 1],
             NEW m \in {Block(t, next[t]), None},
             for_dispatch' = Append(for_dispatch, m)
      PROVE  Flow(lo, s, floor)'
  <2>1. /\ Len(for_dispatch') = n + 1 /\ for_dispatch'[n + 1] = m
        /\ \A i \in 1 .. n : for_dispatch'[i] = for_dispatch[i]
    BY <1>3, BlockFacts DEF TypeOK
  <2> SUFFICES ASSUME NEW i \in lo .. n + 2, NEW q \in Nat,
                      IF i = n + 2 THEN q = next'[s]
                      ELSE /\ for_dispatch'[i] # None
                           /\ for_dispatch'[i] = Block(s, q),
                      q # floor
               PROVE  \E j \in lo .. i - 1 : \/ for_dispatch'[j] = None
                                            \/ for_dispatch'[j] = Block(s, q - 1)
    BY <2>1 DEF Flow, Reaches
  <2>2. ASSUME NEW k \in lo .. n + 1, k <= i, Reaches(k, s, q)
        PROVE  \E j \in lo .. i - 1 : \/ for_dispatch'[j] = None
                                      \/ for_dispatch'[j] = Block(s, q - 1)
    <3>1. PICK j \in lo .. k - 1 : \/ for_dispatch[j] = None
                                   \/ for_dispatch[j] = Block(s, q - 1)
      BY <2>2 DEF Flow
    <3>2. j \in lo .. i - 1 /\ j \in 1 .. n BY <1>1, <2>2, <3>1
    <3> QED BY <2>1, <3>1, <3>2
  <2>3. CASE i \in lo .. n
    <3>1. Reaches(i, s, q) BY <1>1, <2>1, <2>3 DEF Reaches
    <3> QED BY <1>1, <2>2, <2>3, <3>1
  <2>4. CASE i = n + 1
    <3>1. m # None /\ Block(s, q) = m BY <1>1, <2>1, <2>4
    <3>2. q = next[s] BY <1>3, <3>1, BlockIs
    <3>3. Reaches(n + 1, s, q) BY <3>2 DEF Reaches
    <3> QED BY <1>1, <2>2, <2>4, <3>3
  <2>5. CASE i = n + 2
    <3>1. q = next'[s] BY <2>5
    <3>2. CASE s # t
      <4>1. q = next[s] BY <1>1, <1>3, <3>1, <3>2
      <4>2. Reaches(n + 1, s, q) BY <4>1 DEF Reaches
      <4> QED BY <1>1, <2>2, <2>5, <4>2
    <3>3. CASE s = t
      <4>1. q - 1 = next[t] BY <1>1, <1>3, <3>1, <3>3
      <4>2. m = None \/ m = Block(s, q - 1) BY <1>3, <3>3, <4>1
      <4> QED BY <1>1, <2>1, <2>5, <4>2
    <3> QED BY <3>2, <3>3
  <2> QED BY <1>1, <2>3, <2>4, <2>5
<1>4. ASSUME NEW t \in T, next' = [next EXCEPT ![t] = @ + 1],
             damaged' = damaged \cup {t}, UNCHANGED for_dispatch
      PROVE  Flow(lo, s, floor)'
  <2>1. next'[s] = next[s] BY <1>1, <1>4
  <2> QED BY <1>4, <2>1 DEF Flow, Reaches
<1> QED BY <1>2, <1>3, <1>4, SendersEffect

(* A message at the head of for_dispatch goes: what comes after lo is left *)
(* alone, and where lo is the head, the block that is due now is the next. *)
LEMMA FlowBehind ==
  ASSUME TypeOK, UNCHANGED next,
         for_dispatch # <<>>, for_dispatch' = Tail(for_dispatch),
         NEW lo \in Nat \ {0}, NEW s \in T, NEW floor \in Nat,
         Flow(lo + 1, s, floor)
  PROVE  Flow(lo, s, floor)'
<1> DEFINE n == Len(for_dispatch)
<1>1. /\ n \in Nat \ {0} /\ Len(for_dispatch') = n - 1
      /\ \A i \in 1 .. n - 1 : for_dispatch'[i] = for_dispatch[i + 1]
  BY HeadFacts
<1> SUFFICES ASSUME NEW i \in lo .. n, NEW q \in Nat, Reaches(i, s, q)', q # floor
             PROVE  \E j \in lo .. i - 1 : \/ for_dispatch'[j] = None
                                          \/ for_dispatch'[j] = Block(s, q - 1)
  <2>1. Len(for_dispatch') + 1 = n BY <1>1
  <2> QED BY <2>1 DEF Flow
<1>2. Reaches(i + 1, s, q)
  <2>1. CASE i = n BY <1>1, <2>1 DEF Reaches
  <2>2. CASE i # n
    <3>1. n \in Nat /\ Len(for_dispatch) = n /\ Len(for_dispatch') = n - 1
      BY <1>1
    <3> HIDE DEF n
    <3>2. i \in 1 .. n - 1 /\ i # (n - 1) + 1 /\ i + 1 # n + 1
      BY <3>1, <2>2
    <3>3. for_dispatch'[i] = for_dispatch[i + 1] BY <1>1, <3>2
    <3> QED BY <3>1, <3>2, <3>3 DEF Reaches
  <2> QED BY <2>1, <2>2
<1>3. PICK j \in lo + 1 .. i : \/ for_dispatch[j] = None
                               \/ for_dispatch[j] = Block(s, q - 1)
  BY <1>1, <1>2 DEF Flow
<1>4. j - 1 \in lo .. i - 1 /\ for_dispatch'[j - 1] = for_dispatch[j]
  BY <1>1, <1>3
<1> QED BY <1>3, <1>4

LEMMA FlowHead ==
  ASSUME TypeOK, LinkInv, UNCHANGED next,
         for_dispatch # <<>>, for_dispatch' = Tail(for_dispatch),
         NEW t \in T, NEW p \in 0 .. Transfers[t].last, p < next[t],
         for_dispatch[1] # None, for_dispatch[1] = Block(t, p),
         NEW s \in T, NEW floor \in Nat, Flow(1, s, floor), s = t => p = floor,
         NEW due \in Nat, due = IF s = t THEN floor + 1 ELSE floor
  PROVE  Flow(1, s, due)'
<1> USE TransferFacts
<1> DEFINE n == Len(for_dispatch)
<1>1. /\ n \in Nat \ {0} /\ Len(for_dispatch') = n - 1
      /\ \A i \in 1 .. n - 1 : for_dispatch'[i] = for_dispatch[i + 1]
      /\ next \in [T -> Nat]
  BY HeadFacts DEF TypeOK
<1> SUFFICES ASSUME NEW i \in 1 .. n, NEW q \in Nat, Reaches(i, s, q)', q # due
             PROVE  \E j \in 1 .. i - 1 : \/ for_dispatch'[j] = None
                                         \/ for_dispatch'[j] = Block(s, q - 1)
  <2>1. Len(for_dispatch') + 1 = n BY <1>1
  <2> QED BY <2>1 DEF Flow
<1>2. Reaches(i + 1, s, q)
  <2>1. CASE i = n BY <1>1, <2>1 DEF Reaches
  <2>2. CASE i # n
    <3>1. n \in Nat /\ Len(for_dispatch) = n /\ Len(for_dispatch') = n - 1
      BY <1>1
    <3> HIDE DEF n
    <3>2. i \in 1 .. n - 1 /\ i # (n - 1) + 1 /\ i + 1 # n + 1
      BY <3>1, <2>2
    <3>3. for_dispatch'[i] = for_dispatch[i + 1] BY <1>1, <3>2
    <3> QED BY <3>1, <3>2, <3>3 DEF Reaches
  <2> QED BY <2>1, <2>2
<1>3. s = t => q > floor
  <2> SUFFICES ASSUME s = t PROVE q > floor
    OBVIOUS
  <2>1. CASE i = n BY <1>1, <1>2, <2>1 DEF Reaches
  <2>2. CASE i # n
    <3>1. /\ for_dispatch[i + 1] # None /\ for_dispatch[i + 1] = Block(t, q)
          /\ i + 1 \in 1 .. n /\ 1 \in 1 .. n /\ 1 < i + 1
      BY <1>1, <1>2, <2>2 DEF Reaches
    <3>2. Block(t, p).transfer = Block(t, q).transfer =>
            Block(t, p).pos < Block(t, q).pos
      BY <3>1 DEF LinkInv
    <3> QED BY <3>2, BlockIs
  <2> QED BY <2>1, <2>2
<1>4. q # floor BY <1>3
<1>5. PICK j \in 1 .. i : \/ for_dispatch[j] = None
                          \/ for_dispatch[j] = Block(s, q - 1)
  <2>1. i + 1 \in 1 .. n + 1 /\ (i + 1) - 1 = i BY <1>1
  <2> QED BY <1>2, <1>4, <2>1 DEF Flow
<1>6. j # 1
  <2> SUFFICES ASSUME j = 1 PROVE FALSE
    OBVIOUS
  <2>1. Block(t, p) = Block(s, q - 1) BY <1>5
  <2>2. s = t /\ q - 1 = p BY <2>1, BlockIs
  <2> QED BY <2>2
<1>7. j - 1 \in 1 .. i - 1 /\ for_dispatch'[j - 1] = for_dispatch[j]
  BY <1>1, <1>5, <1>6
<1> QED BY <1>5, <1>7

LEMMA FloorFacts ==
  ASSUME TypeOK
  PROVE  /\ \A t \in T : /\ Taken(t) \in Nat /\ Len(queue[t]) \in Nat
                         /\ Len(written[t]) \in Nat
         /\ \A t, s \in T : Floor(t, s) \in Nat
<1>1. \A t \in T : queue[t] \in Seq(Blocks) /\ written[t] \in Seq(Blocks)
  BY DEF TypeOK
<1>2. \A t \in T : Len(queue[t]) \in Nat /\ Len(written[t]) \in Nat
  BY <1>1
<1>3. \A t \in T : Taken(t) \in Nat BY <1>2 DEF Taken
<1> QED BY <1>2, <1>3 DEF Floor

LEMMA FlowInit == Init => FlowInv
<1> SUFFICES ASSUME Init PROVE FlowInv
  OBVIOUS
<1>1. /\ Len(for_dispatch) = 0 /\ Len(to_clients) = 0 /\ ToSet(to_clients) = {}
      /\ \A c \in ClientIds : active_transfers[c] = None
      /\ \A t \in T : outcome[t] = None /\ Len(written[t]) = 0
      /\ \A w \in Workers : worker[w].transfer = None
  BY DEF Init, Idle, ToSet
<1>2. None \notin T /\ None \notin Outcomes BY BlockIs, NoneAssumption
<1>3. StartFlow BY <1>1 DEF StartFlow
<1>4. ActiveFlow BY <1>1, <1>2, TransferFacts DEF ActiveFlow
<1>5. QueueInv BY <1>1, <1>2 DEF QueueInv, ReceiverAlive
<1>6. OwnPrefix BY <1>1 DEF OwnPrefix
<1>7. FinishedIsCompleteIfSound
  BY <1>1, <1>2 DEF FinishedIsCompleteIfSound, Outcomes
<1> QED BY <1>3, <1>4, <1>5, <1>6, <1>7 DEF FlowInv

LEMMA FlowInvSenders ==
  ASSUME TypeOK, LinkInv, FlowInv, Senders
  PROVE  FlowInv'
<1> USE TransferFacts
<1> DEFINE n == Len(for_dispatch)
<1>1. /\ n \in Nat /\ next \in [T -> Nat] /\ run \in Nat BY DEF TypeOK
<1>2. /\ StartFlow /\ ActiveFlow /\ QueueInv
      /\ OwnPrefix /\ FinishedIsCompleteIfSound
  BY DEF FlowInv
<1>3. UNCHANGED <<active_transfers, queue, to_clients, worker, outcome, written>>
  BY SendersEffect DEF dispatchVars, clientVars
<1>4. damaged \subseteq damaged' BY SendersEffect
<1>5. \A t : Sound(t)' => Sound(t) BY <1>4 DEF Sound
<1>6. \A t \in T : \A s \in Successors(t)' :
        s \in T /\ s \in Successors(t) /\ s \notin damaged'
  BY <1>4 DEF Successors
<1>7. ActiveFlow'
  <2> SUFFICES ASSUME NEW t \in T, active_transfers[Transfers[t].client] = t,
                      outcome[t] = None, Sound(t)', NEW s \in Successors(t)'
               PROVE  Flow(1, s, Floor(t, s))'
    BY <1>3 DEF ActiveFlow
  <2>1. s \in T /\ s \in Successors(t) /\ s \notin damaged' BY <1>6
  <2>2. Flow(1, s, Floor(t, s)) BY <1>2, <1>5, <2>1 DEF ActiveFlow
  <2>3. PICK floor \in Nat : floor = Floor(t, s) BY <2>1, FloorFacts
  <2>4. Floor(t, s)' = floor BY <1>3, <2>3 DEF Floor, Taken
  <2>5. Flow(1, s, floor)' BY <1>1, <2>1, <2>2, <2>3, FlowSenders
  <2> QED BY <2>4, <2>5 DEF Flow
<1>8. StartFlow'
  <2> SUFFICES ASSUME NEW i \in 1 .. Len(for_dispatch'), NEW t \in T,
                      for_dispatch'[i] = Block(t, 0), NEW s \in Successors(t)'
               PROVE  Flow(i, s, 0)'
    BY DEF StartFlow
  <2>1. s \in T /\ s \in Successors(t) /\ s \notin damaged' BY <1>6
  <2>2. ASSUME i \in 1 .. n, for_dispatch[i] = Block(t, 0)
        PROVE  Flow(i, s, 0)'
    <3>1. Flow(i, s, 0) BY <1>2, <2>1, <2>2 DEF StartFlow
    <3>2. i \in Nat \ {0} /\ i <= n + 1 BY <1>1, <2>2
    <3> QED BY <2>1, <3>1, <3>2, FlowSenders
  <2>3. CASE UNCHANGED for_dispatch BY <2>2, <2>3
  <2>4. ASSUME NEW u \in T, Transfers[u].run = run,
               next' = [next EXCEPT ![u] = @ + 1],
               NEW m \in {Block(u, next[u]), None},
               for_dispatch' = Append(for_dispatch, m)
        PROVE  Flow(i, s, 0)'
    <3>1. /\ Len(for_dispatch') = n + 1 /\ for_dispatch'[n + 1] = m
          /\ \A k \in 1 .. n : for_dispatch'[k] = for_dispatch[k]
      BY <2>4 DEF TypeOK
    <3>2. CASE i \in 1 .. n BY <2>2, <3>1, <3>2
    <3>3. CASE i = n + 1
      <4>1. m = Block(t, 0) /\ m # None BY <3>1, <3>3, BlockIs
      <4>2. u = t /\ next[t] = 0 BY <2>4, <4>1, BlockIs
      <4>3. s # t => next[s] = 0 /\ next'[s] = 0
        <5> SUFFICES ASSUME s # t PROVE next[s] = 0 /\ next'[s] = 0
          OBVIOUS
        <5>1. /\ Transfers[s].client = Transfers[t].client
              /\ Transfers[s].run >= Transfers[t].run
          BY <2>1 DEF Successors
        <5>2. Transfers[s].run # Transfers[t].run
          BY <2>1, <5>1, TransfersAssumption DEF T
        <5>3. /\ Transfers[s].run \in Nat /\ Transfers[t].run \in Nat
              /\ Transfers[t].run = run
          BY <2>1, <2>4, <4>2
        <5>4. ~ (Transfers[s].run <= run) BY <5>1, <5>2, <5>3
        <5>5. next[s] = 0 BY <1>1, <2>1, <5>4 DEF LinkInv
        <5> QED BY <1>1, <2>1, <2>4, <4>2, <5>5
      <4>4. s = t => next'[s] = 1 BY <1>1, <2>4, <4>2
      <4> SUFFICES ASSUME NEW k \in n + 1 .. n + 2, NEW q \in Nat,
                          Reaches(k, s, q)', q # 0
                   PROVE  \E j \in n + 1 .. k - 1 :
                            \/ for_dispatch'[j] = None
                            \/ for_dispatch'[j] = Block(s, q - 1)
        BY <1>1, <3>1, <3>3 DEF Flow
      <4>5. k # n + 1
        <5> SUFFICES ASSUME k = n + 1 PROVE FALSE
          OBVIOUS
        <5>1. Block(t, 0) = Block(s, q)
          BY <1>1, <3>1, <4>1 DEF Reaches
        <5> QED BY <5>1, BlockIs
      <4>6. k = n + 2 /\ q = next'[s] BY <1>1, <3>1, <4>5 DEF Reaches
      <4>7. s = t /\ q - 1 = 0 BY <4>3, <4>4, <4>6
      <4>8. n + 1 \in n + 1 .. k - 1 BY <1>1, <4>6
      <4> QED BY <3>1, <4>1, <4>7, <4>8
    <3> QED BY <1>1, <3>1, <3>2, <3>3
  <2> QED BY <2>3, <2>4, SendersEffect
<1>9. QueueInv'
  BY <1>2, <1>3, <1>5 DEF QueueInv, QueueShape, Taken, ReceiverAlive
<1>10. OwnPrefix' BY <1>2, <1>3, <1>5 DEF OwnPrefix
<1>11. FinishedIsCompleteIfSound'
  BY <1>2, <1>3, <1>5 DEF FinishedIsCompleteIfSound, Complete
<1> QED BY <1>7, <1>8, <1>9, <1>10, <1>11 DEF FlowInv

LEMMA StartFlowPop ==
  ASSUME TypeOK, StartFlow, UNCHANGED <<next, damaged>>,
         for_dispatch # <<>>, for_dispatch' = Tail(for_dispatch)
  PROVE  StartFlow'
<1> SUFFICES ASSUME NEW i \in 1 .. Len(for_dispatch'), NEW t \in T,
                    for_dispatch'[i] = Block(t, 0), NEW s \in Successors(t)'
             PROVE  Flow(i, s, 0)'
  BY DEF StartFlow
<1>1. s \in T /\ s \in Successors(t) BY DEF Successors
<1>2. /\ i + 1 \in 1 .. Len(for_dispatch)
      /\ for_dispatch[i + 1] = Block(t, 0)
      /\ i \in Nat \ {0}
  BY HeadFacts
<1>3. Flow(i + 1, s, 0) BY <1>1, <1>2 DEF StartFlow
<1> QED BY <1>1, <1>2, <1>3, FlowBehind

(* One more block for a transfer that is active.                           *)
LEMMA QueueGrows ==
  ASSUME TypeOK, NEW t \in T, NEW b \in Blocks, QueueShape(t), Attended(t),
         outcome[t] = None,
         queue'[t] = Append(queue[t], b), written'[t] = written[t],
         b # Block(t, 0),
         \/ b = AbortBlock(Transfers[t].client)
         \/ /\ b = Block(t, Taken(t) + Len(queue[t]))
            /\ Taken(t) + Len(queue[t]) <= Transfers[t].last
  PROVE  QueueShape(t)' /\ Taken(t)' = Taken(t)
<1> DEFINE n == Len(queue[t])
<1>1. queue[t] \in Seq(Blocks) BY DEF TypeOK
<1>2. /\ n \in Nat /\ Len(queue'[t]) = n + 1 /\ queue'[t][n + 1] = b
      /\ \A i \in 1 .. n : queue'[t][i] = queue[t][i]
      /\ queue'[t] # <<>>
      /\ Head(queue'[t]) = IF n = 0 THEN b ELSE Head(queue[t])
      /\ queue[t] = <<>> <=> n = 0
  BY <1>1
<1>3. Taken(t)' = Taken(t)
  <2>1. CASE n = 0 BY <1>2, <2>1 DEF Taken
  <2>2. CASE n # 0 BY <1>2, <2>2 DEF Taken
  <2> QED BY <2>1, <2>2
<1>4. Taken(t) \in Nat BY FloorFacts
<1>5. \A i \in 1 .. n + 1 :
        /\ i < n + 1 => queue'[t][i].type \notin Endings
        /\ \/ /\ Taken(t) + i - 1 <= Transfers[t].last
              /\ queue'[t][i] = Block(t, Taken(t) + i - 1)
           \/ queue'[t][i] = AbortBlock(Transfers[t].client)
  <2> SUFFICES ASSUME NEW i \in 1 .. n + 1
               PROVE  /\ i < n + 1 => queue'[t][i].type \notin Endings
                      /\ \/ /\ Taken(t) + i - 1 <= Transfers[t].last
                            /\ queue'[t][i] = Block(t, Taken(t) + i - 1)
                         \/ queue'[t][i] = AbortBlock(Transfers[t].client)
    OBVIOUS
  <2>1. CASE i \in 1 .. n BY <1>2, <2>1 DEF QueueShape, Attended
  <2>2. CASE i = n + 1
    <3>1. Taken(t) + i - 1 = Taken(t) + n BY <1>2, <1>4, <2>2
    <3> QED BY <1>2, <2>2, <3>1
  <2> QED BY <1>2, <2>1, <2>2
<1> QED BY <1>2, <1>3, <1>5 DEF QueueShape

LEMMA FlowInvSynchronizationLost ==
  ASSUME TypeOK, ActiveInv, FlowInv, SynchronizationLost
  PROVE  FlowInv'
<1> USE TransferFacts
<1>1. /\ StartFlow /\ ActiveFlow /\ QueueInv
      /\ OwnPrefix /\ FinishedIsCompleteIfSound
  BY DEF FlowInv
<1>2. /\ for_dispatch # <<>> /\ for_dispatch' = Tail(for_dispatch)
      /\ UNCHANGED <<next, damaged, to_clients, worker, outcome, written>>
      /\ active_transfers' = [c \in ClientIds |-> None]
  BY DEF SynchronizationLost, linkVars, clientVars
<1>3. StartFlow' BY <1>1, <1>2, StartFlowPop
<1>4. ActiveFlow'
  BY <1>2, BlockIs DEF ActiveFlow
<1>5. QueueInv'
  <2> SUFFICES ASSUME NEW t \in T, outcome[t] = None, Sound(t), ReceiverAlive(t)
               PROVE  QueueShape(t)'
    BY <1>2 DEF QueueInv, Sound, ReceiverAlive
  <2>1. QueueShape(t) BY <1>1 DEF QueueInv
  <2>2. CASE queue'[t] = queue[t]
    BY <1>2, <2>1, <2>2 DEF QueueShape, Taken
  <2>3. CASE queue'[t] # queue[t]
    <3> DEFINE abort == AbortBlock(Transfers[t].client)
    <3>1. /\ queue'[t] = Append(queue[t], abort)
          /\ active_transfers[Transfers[t].client] = t
      BY <2>3 DEF SynchronizationLost
    <3>2. abort \in Blocks /\ abort # Block(t, 0)
      BY BlockFacts, BlockIs DEF AbortBlock
    <3>3. Attended(t) BY <3>1 DEF ActiveInv
    <3> QED BY <1>2, <2>1, <3>1, <3>2, <3>3, QueueGrows
  <2> QED BY <2>2, <2>3
<1>6. OwnPrefix' BY <1>1, <1>2 DEF OwnPrefix, Sound
<1>7. FinishedIsCompleteIfSound'
  BY <1>1, <1>2 DEF FinishedIsCompleteIfSound, Complete, Sound
<1> QED BY <1>3, <1>4, <1>5, <1>6, <1>7 DEF FlowInv

LEMMA FlowInvStartTransfer ==
  ASSUME TypeOK, ServiceInv, FlowInv, StartTransfer
  PROVE  FlowInv'
<1> USE TransferFacts
<1>1. /\ StartFlow /\ ActiveFlow /\ QueueInv
      /\ OwnPrefix /\ FinishedIsCompleteIfSound
      /\ LinkInv /\ FreshInv /\ ActiveInv
  BY DEF FlowInv, ServiceInv
<1>2. /\ for_dispatch # <<>> /\ for_dispatch' = Tail(for_dispatch)
      /\ Head(for_dispatch) = for_dispatch[1] /\ for_dispatch[1] # None
      /\ for_dispatch[1] \in ToSet(for_dispatch)
      /\ 1 \in 1 .. Len(for_dispatch)
      /\ UNCHANGED <<next, damaged, worker, outcome, written>>
  BY HeadFacts DEF StartTransfer, linkVars, clientVars
<1>3. PICK t \in T : for_dispatch[1] = Block(t, 0) /\ 0 < next[t]
  <2>1. for_dispatch[1].type = "start" BY <1>2 DEF StartTransfer
  <2>2. PICK t \in T : \E p \in 0 .. Transfers[t].last :
          for_dispatch[1] = Block(t, p) /\ p < next[t]
    BY <1>1, <1>2, <2>1 DEF LinkInv
  <2> QED BY <2>1, <2>2, BlockFacts
<1> DEFINE c == Transfers[t].client
<1>4. /\ active_transfers' = [active_transfers EXCEPT ![c] = t]
      /\ queue' = [queue EXCEPT ![t] = <<Block(t, 0)>>]
      /\ to_clients' = Append(to_clients, t)
  <2>1. Block(t, 0).client = c /\ Block(t, 0).transfer = t BY BlockIs
  <2> QED BY <1>2, <1>3, <2>1 DEF StartTransfer
<1>5. /\ active_transfers \in [ClientIds -> T \cup {None}]
      /\ queue \in [T -> Seq(Blocks)] /\ to_clients \in Seq(T)
      /\ c \in ClientIds
  BY DEF TypeOK
<1>6. outcome[t] = None /\ written[t] = <<>>
  BY <1>1, <1>2, <1>3 DEF FreshInv, Untouched
<1>7. queue'[t] = <<Block(t, 0)>> /\ Taken(t)' = 0 /\ Len(queue'[t]) = 1
  BY <1>4, <1>5 DEF Taken
<1>8. \A s \in T : s # t => queue'[s] = queue[s] /\ Taken(s)' = Taken(s)
  BY <1>2, <1>4, <1>5 DEF Taken
<1>9. \A s \in T : s # t => (ReceiverAlive(s)' => ReceiverAlive(s))
  <2>1. ToSet(to_clients') = ToSet(to_clients) \cup {t}
    BY <1>4, <1>5, AppendSet
  <2> QED BY <1>2, <2>1 DEF ReceiverAlive
<1>10. StartFlow' BY <1>1, <1>2, StartFlowPop
<1>11. ActiveFlow'
  <2> SUFFICES ASSUME NEW u \in T, active_transfers'[Transfers[u].client] = u,
                      outcome[u] = None, Sound(u), NEW s \in Successors(u)
               PROVE  Flow(1, s, Floor(u, s))'
    BY <1>2 DEF ActiveFlow, Successors, Sound
  <2>1. s \in T BY DEF Successors
  <2>2. CASE u = t
    <3>1. PICK p \in Nat : p = 0
      OBVIOUS
    <3>2. PICK due \in Nat : due = IF s = t THEN p + 1 ELSE p
      OBVIOUS
    <3>3. Floor(t, s)' = due BY <1>7, <3>1, <3>2 DEF Floor
    <3>4. /\ Flow(1, s, p) /\ p \in 0 .. Transfers[t].last /\ p < next[t]
          /\ for_dispatch[1] = Block(t, p)
      <4>1. \A v \in Successors(t) : Flow(1, v, 0)
        BY <1>1, <1>2, <1>3 DEF StartFlow
      <4>2. Flow(1, s, 0) BY <2>2, <4>1
      <4>3. 0 \in 0 .. Transfers[t].last
        <5>1. Transfers[t].last \in Nat \ {0} BY TransferFacts
        <5> HIDE TransferFacts
        <5> QED BY <5>1
      <4> QED BY <1>3, <3>1, <4>2, <4>3
    <3>5. Flow(1, s, due)'
      BY <1>1, <1>2, <2>1, <3>2, <3>4, FlowHead
    <3> QED BY <2>2, <3>3, <3>5
  <2>3. CASE u # t
    <3>1. /\ active_transfers[Transfers[u].client] = u
          /\ Transfers[u].client # c
      BY <1>4, <1>5, <2>3
    <3>2. Flow(1, s, Floor(u, s)) BY <1>1, <3>1 DEF ActiveFlow
    <3>3. s # t BY <3>1 DEF Successors
    <3>4. PICK floor \in Nat : floor = Floor(u, s) BY <2>1, FloorFacts
    <3>5. Floor(u, s)' = floor BY <1>8, <2>3, <3>4 DEF Floor
    <3>6. Flow(1, s, floor)'
      BY SMTT(30), <1>1, <1>2, <1>3, <2>1, <3>2, <3>3, <3>4, FlowHead
    <3> QED BY <3>5, <3>6
  <2> QED BY <2>2, <2>3
<1>12. QueueInv'
  <2> SUFFICES ASSUME NEW s \in T, outcome[s] = None, Sound(s), ReceiverAlive(s)'
               PROVE  QueueShape(s)'
    BY <1>2 DEF QueueInv, Sound
  <2>1. CASE s = t
    <3>1. \A i \in 1 .. 1 : /\ i = 1 /\ queue'[t][i] = Block(t, 0)
                            /\ 0 + i - 1 = 0
      BY <1>7
    <3>2. 0 <= Transfers[t].last
      OBVIOUS
    <3>3. /\ written'[t] = <<>> /\ Len(queue'[t]) = 1
          /\ \A i \in 1 .. 1 : Taken(t)' + i - 1 = 0
      BY <1>2, <1>6, <1>7, <3>1
    <3>4. \A i \in 1 .. 1 : ~ (i < 1)
      OBVIOUS
    <3>5. \A i \in 1 .. Len(queue'[t]) :
            /\ i < Len(queue'[t]) => queue'[t][i].type \notin Endings
            /\ Taken(t)' + i - 1 <= Transfers[t].last
            /\ queue'[t][i] = Block(t, Taken(t)' + i - 1)
      BY <3>1, <3>2, <3>3, <3>4
    <3>6. QueueShape(t)' BY <3>3, <3>5 DEF QueueShape
    <3> QED BY <2>1, <3>6
  <2>2. CASE s # t
    <3>1. QueueShape(s) BY <1>1, <1>9, <2>2 DEF QueueInv
    <3> QED BY <1>2, <1>8, <2>2, <3>1 DEF QueueShape
  <2> QED BY <2>1, <2>2
<1>13. OwnPrefix' BY <1>1, <1>2 DEF OwnPrefix, Sound
<1>14. FinishedIsCompleteIfSound'
  BY <1>1, <1>2 DEF FinishedIsCompleteIfSound, Complete, Sound
<1> QED BY <1>10, <1>11, <1>12, <1>13, <1>14 DEF FlowInv

(* The block that dispatch forwards is the one its transfer waits for.     *)
LEMMA ForwardedIsNext ==
  ASSUME TypeOK, ServiceInv, FlowInv, ForwardBlock, NEW t \in T,
         Sound(t), outcome[t] = None,
         active_transfers[Transfers[t].client] = t,
         for_dispatch[1].client = Transfers[t].client
  PROVE  \E p \in 1 .. Transfers[t].last :
           /\ p < next[t]
           /\ p = Taken(t) + Len(queue[t])
           /\ for_dispatch[1] = Block(t, p)
<1> USE TransferFacts
<1>1. LinkInv /\ ActiveInv /\ ActiveFlow BY DEF ServiceInv, FlowInv
<1>2. /\ for_dispatch[1] # None /\ for_dispatch[1].type # "start"
      /\ 1 \in 1 .. Len(for_dispatch) /\ Len(for_dispatch) \in Nat
  BY HeadFacts DEF ForwardBlock
<1>3. PICK s \in T : \E q \in 0 .. Transfers[s].last :
        for_dispatch[1] = Block(s, q) /\ q < next[s]
  BY <1>1, <1>2 DEF LinkInv
<1>4. PICK q \in 0 .. Transfers[s].last :
        for_dispatch[1] = Block(s, q) /\ q < next[s]
  BY <1>3
<1>5. q # 0 BY <1>2, <1>4, BlockFacts
<1>6. /\ for_dispatch[1].transfer = s
      /\ Transfers[s].client = Transfers[t].client
  BY <1>4, BlockIs
<1>7. Transfers[t].run <= Transfers[s].run
  <2>1. Attended(t) BY <1>1 DEF ActiveInv
  <2> QED BY <1>2, <1>6, <2>1 DEF Attended
<1>8. s \notin damaged BY <1>6 DEF Sound
<1>9. s \in Successors(t)
  <2>1. Transfers[t].run \in Nat /\ Transfers[s].run \in Nat
    OBVIOUS
  <2> QED BY <1>6, <1>7, <1>8, <2>1 DEF Successors
<1>10. Flow(1, s, Floor(t, s)) BY <1>1, <1>9 DEF ActiveFlow
<1>11. Reaches(1, s, q)
  <2>1. 1 # Len(for_dispatch) + 1 BY <1>2
  <2> QED BY <1>2, <1>4, <2>1 DEF Reaches
<1>12. q = Floor(t, s)
  <2>1. /\ 1 \in 1 .. Len(for_dispatch) + 1
        /\ ~ \E j \in 1 .. 1 - 1 : TRUE
    BY <1>2
  <2>2. q \in Nat
    OBVIOUS
  <2> QED BY <1>10, <1>11, <2>1, <2>2 DEF Flow
<1>13. s = t BY <1>5, <1>12 DEF Floor
<1>14. q = Taken(t) + Len(queue[t]) BY <1>12, <1>13 DEF Floor
<1>15. q \in 1 .. Transfers[t].last BY <1>5, <1>13
<1> QED BY <1>4, <1>13, <1>14, <1>15

LEMMA FlowInvForwardBlock ==
  ASSUME TypeOK, ServiceInv, FlowInv, ForwardBlock
  PROVE  FlowInv'
<1> USE TransferFacts
<1> DEFINE block == for_dispatch[1]
           c == block.client
           t == active_transfers[c]
<1>1. /\ StartFlow /\ ActiveFlow /\ QueueInv
      /\ OwnPrefix /\ FinishedIsCompleteIfSound
      /\ LinkInv /\ ActiveInv
  BY DEF FlowInv, ServiceInv
<1>2. /\ for_dispatch # <<>> /\ for_dispatch' = Tail(for_dispatch)
      /\ Head(for_dispatch) = block /\ block # None /\ block \in Blocks
      /\ 1 \in 1 .. Len(for_dispatch)
      /\ UNCHANGED <<next, damaged, to_clients, worker, outcome, written>>
  BY HeadFacts DEF ForwardBlock, linkVars, clientVars
<1>3. /\ active_transfers \in [ClientIds -> T \cup {None}]
      /\ queue \in [T -> Seq(Blocks)] /\ c \in ClientIds /\ None \notin T
  BY <1>2, BlockIs, BlockFacts DEF TypeOK
<1>4. /\ \A d \in ClientIds : \A s \in T :
           active_transfers'[d] = s => active_transfers[d] = s
      /\ \/ /\ t \in T => ~ ReceiverAlive(t)
            /\ UNCHANGED queue
         \/ /\ t \in T
            /\ queue' = [queue EXCEPT ![t] = Append(@, block)]
  BY <1>2, <1>3 DEF ForwardBlock, EndTransfer, dispatchVars
<1>5. \A s : ReceiverAlive(s)' = ReceiverAlive(s) BY <1>2 DEF ReceiverAlive
<1>6. PICK v \in T : \E k \in 0 .. Transfers[v].last :
        block = Block(v, k) /\ k < next[v]
  BY <1>1, <1>2 DEF LinkInv
<1>7. PICK k \in 0 .. Transfers[v].last : block = Block(v, k) /\ k < next[v]
  BY <1>6
<1>8. c = Transfers[v].client BY <1>7, BlockIs
<1>9. ASSUME NEW s \in T, outcome[s] = None, Sound(s), ReceiverAlive(s),
             active_transfers[Transfers[s].client] = s, Transfers[s].client = c
      PROVE  /\ queue'[s] = Append(queue[s], block)
             /\ QueueShape(s)' /\ Taken(s)' = Taken(s)
             /\ \E p \in 1 .. Transfers[s].last :
                  /\ p < next[s]
                  /\ p = Taken(s) + Len(queue[s])
                  /\ block = Block(s, p)
  <2>1. s = t BY <1>9
  <2>2. queue'[s] = Append(queue[s], block) BY <1>3, <1>4, <1>9, <2>1
  <2>3. PICK p \in 1 .. Transfers[s].last :
          /\ p < next[s]
          /\ p = Taken(s) + Len(queue[s])
          /\ block = Block(s, p)
    BY <1>9, ForwardedIsNext
  <2>4. block # Block(s, 0)
    <3> SUFFICES ASSUME block = Block(s, 0) PROVE FALSE
      OBVIOUS
    <3>1. p = 0 BY <2>3, BlockIs
    <3> QED BY <3>1
  <2>5. Attended(s) /\ QueueShape(s) BY <1>1, <1>9 DEF ActiveInv, QueueInv
  <2>6. written'[s] = written[s] BY <1>2
  <2>7. p <= Transfers[s].last
    OBVIOUS
  <2> HIDE DEF block
  <2>8. QueueShape(s)' /\ Taken(s)' = Taken(s)
    BY <1>2, <1>9, <2>2, <2>3, <2>4, <2>5, <2>6, <2>7, QueueGrows
  <2> QED BY <2>2, <2>3, <2>8
<1>10. ASSUME NEW s \in T, queue'[s] # queue[s]
       PROVE  active_transfers[Transfers[s].client] = s /\ Transfers[s].client = c
  <2>1. s = t BY <1>3, <1>4, <1>10
  <2> QED BY <1>1, <1>3, <2>1 DEF ActiveInv
<1>11. \A s \in T : queue'[s] = queue[s] => Taken(s)' = Taken(s)
  BY <1>2 DEF Taken
<1>12. StartFlow' BY <1>1, <1>2, StartFlowPop
<1>13. QueueInv'
  <2> SUFFICES ASSUME NEW s \in T, outcome[s] = None, Sound(s), ReceiverAlive(s)
               PROVE  QueueShape(s)'
    BY <1>2, <1>5 DEF QueueInv, Sound
  <2>1. CASE queue'[s] = queue[s]
    <3>1. QueueShape(s) BY <1>1 DEF QueueInv
    <3> QED BY <1>2, <1>11, <2>1, <3>1 DEF QueueShape
  <2>2. CASE queue'[s] # queue[s] BY <1>9, <1>10, <2>2
  <2> QED BY <2>1, <2>2
<1>14. ActiveFlow'
  <2> SUFFICES ASSUME NEW u \in T, active_transfers'[Transfers[u].client] = u,
                      outcome[u] = None, Sound(u), NEW s \in Successors(u)
               PROVE  Flow(1, s, Floor(u, s))'
    BY <1>2 DEF ActiveFlow, Successors, Sound
  <2>1. s \in T /\ Transfers[s].client = Transfers[u].client BY DEF Successors
  <2>2. active_transfers[Transfers[u].client] = u BY <1>4
  <2>3. Flow(1, s, Floor(u, s)) BY <1>1, <2>2 DEF ActiveFlow
  <2>4. PICK floor \in Nat : floor = Floor(u, s) BY <2>1, FloorFacts
  <2>5. CASE Transfers[u].client = c
    <3>1. ReceiverAlive(u) BY <1>1, <2>2 DEF ActiveInv, Attended
    <3>2. /\ queue'[u] = Append(queue[u], block) /\ Taken(u)' = Taken(u)
          /\ \E p \in 1 .. Transfers[u].last :
               /\ p < next[u]
               /\ p = Taken(u) + Len(queue[u])
               /\ block = Block(u, p)
      BY <1>9, <2>2, <2>5, <3>1
    <3>3. PICK p \in 1 .. Transfers[u].last :
            /\ p < next[u]
            /\ p = Taken(u) + Len(queue[u])
            /\ block = Block(u, p)
      BY <3>2
    <3>4. p \in 0 .. Transfers[u].last /\ (s = u => p = floor)
      BY <2>4, <3>3 DEF Floor
    <3>5. PICK due \in Nat : due = IF s = u THEN floor + 1 ELSE floor
      OBVIOUS
    <3>6. Flow(1, s, due)'
      BY <1>1, <1>2, <2>1, <2>3, <2>4, <3>3, <3>4, <3>5, FlowHead
    <3>7. Len(queue'[u]) = Len(queue[u]) + 1 BY <1>2, <1>3, <3>2
    <3>8. Taken(u) \in Nat /\ Len(queue[u]) \in Nat BY FloorFacts
    <3>9. Floor(u, s)' = due
      BY <2>4, <3>2, <3>5, <3>7, <3>8 DEF Floor
    <3> QED BY <3>6, <3>9
  <2>6. CASE Transfers[u].client # c
    <3>1. queue'[u] = queue[u] BY <1>10, <2>6
    <3>2. Floor(u, s)' = floor BY <1>11, <2>4, <3>1 DEF Floor
    <3>3. s # v BY <1>8, <2>1, <2>6
    <3>4. Flow(1, s, floor)'
      BY <1>1, <1>2, <1>7, <2>1, <2>3, <2>4, <3>3, FlowHead
    <3> QED BY <3>2, <3>4
  <2> QED BY <2>5, <2>6
<1>15. OwnPrefix' BY <1>1, <1>2 DEF OwnPrefix, Sound
<1>16. FinishedIsCompleteIfSound'
  BY <1>1, <1>2 DEF FinishedIsCompleteIfSound, Complete, Sound
<1> QED BY <1>12, <1>13, <1>14, <1>15, <1>16 DEF FlowInv

(* The worker takes a block that is not the last one.                      *)
LEMMA QueueShrinks ==
  ASSUME TypeOK, NEW t \in T, QueueShape(t),
         \A i \in 1 .. Len(written[t]) : written[t][i] = Block(t, i),
         queue[t] # <<>>, queue'[t] = Tail(queue[t]),
         Head(queue[t]).type \notin Endings,
         written'[t] = IF HasPayload(Head(queue[t]))
                       THEN Append(written[t], Head(queue[t])) ELSE written[t]
  PROVE  /\ QueueShape(t)'
         /\ Taken(t)' + Len(queue'[t]) = Taken(t) + Len(queue[t])
         /\ \A i \in 1 .. Len(written'[t]) : written'[t][i] = Block(t, i)
<1> DEFINE n == Len(queue[t])
           head == Head(queue[t])
<1>1. queue[t] \in Seq(Blocks) /\ written[t] \in Seq(Blocks) BY DEF TypeOK
<1>2. /\ n \in Nat \ {0} /\ Len(queue'[t]) = n - 1 /\ head = queue[t][1]
      /\ head \in Blocks
      /\ \A i \in 1 .. n - 1 : queue'[t][i] = queue[t][i + 1]
      /\ queue'[t] # <<>> => n - 1 > 0 /\ Head(queue'[t]) = queue[t][2]
  BY <1>1
<1>3. PICK k \in Nat : k = Taken(t) BY FloorFacts
<1>4. Transfers[t].last \in Nat \ {0} BY TransferFacts
<1>5. \A i \in 1 .. n :
        /\ i < n => queue[t][i].type \notin Endings
        /\ \/ /\ k + i - 1 <= Transfers[t].last
              /\ queue[t][i] = Block(t, k + i - 1)
           \/ queue[t][i] = AbortBlock(Transfers[t].client)
  BY <1>3 DEF QueueShape
<1>6. head = Block(t, k)
  <2>1. AbortBlock(Transfers[t].client).type \in Endings
    BY DEF AbortBlock, Endings
  <2>2. 1 \in 1 .. n /\ k + 1 - 1 = k BY <1>2
  <2> QED BY <1>2, <1>5, <2>1, <2>2
<1>7. \A i \in 2 .. n : queue[t][i] # Block(t, 0)
  <2> SUFFICES ASSUME NEW i \in 2 .. n, queue[t][i] = Block(t, 0) PROVE FALSE
    OBVIOUS
  <2>1. k + i - 1 # 0 /\ i \in 1 .. n BY <1>2
  <2>2. Block(t, k + i - 1) # Block(t, 0) BY <2>1, BlockIs
  <2>3. AbortBlock(Transfers[t].client).transfer = 0 BY DEF AbortBlock
  <2>4. Block(t, 0).transfer = t /\ t # 0 BY BlockIs, TransferFacts
  <2> QED BY <1>5, <2>1, <2>2, <2>3, <2>4
<1>8. queue'[t] # <<>> => Head(queue'[t]) # Block(t, 0)
  <2>1. queue'[t] # <<>> => 2 \in 2 .. n BY <1>2
  <2> QED BY <1>2, <1>7, <2>1
<1>9. Taken(t)' = Len(written'[t]) + 1 BY <1>8 DEF Taken
<1>10. /\ Len(written'[t]) = k
       /\ \A i \in 1 .. Len(written'[t]) : written'[t][i] = Block(t, i)
  <2>1. CASE k = 0
    <3>1. written[t] = <<>> BY <1>3, <2>1 DEF QueueShape
    <3>2. head.type = "start" BY <1>6, <2>1, BlockIs DEF Type
    <3>3. written'[t] = <<>> BY <3>1, <3>2 DEF HasPayload
    <3>4. \A f : f = <<>> => Len(f) = 0
      OBVIOUS
    <3>5. Len(written'[t]) = 0 BY <3>3, <3>4
    <3>6. \A i \in 1 .. 0 : FALSE
      OBVIOUS
    <3> QED BY <2>1, <3>5, <3>6
  <2>2. CASE k # 0
    <3>1. head # Block(t, 0)
      <4> SUFFICES ASSUME head = Block(t, 0) PROVE FALSE
        OBVIOUS
      <4>1. Taken(t) = 0 BY DEF Taken
      <4> QED BY <1>3, <2>2, <4>1
    <3>2. k = Len(written[t]) + 1 BY <1>3, <3>1 DEF Taken
    <3>3. k # Transfers[t].last
      <4> SUFFICES ASSUME k = Transfers[t].last PROVE FALSE
        OBVIOUS
      <4>1. head.type = Transfers[t].ends BY <1>6, <2>2, BlockIs DEF Type
      <4> QED BY <4>1, TransferFacts DEF Endings
    <3>4. head.type = "data" BY <1>6, <2>2, <3>3, BlockIs DEF Type
    <3>5. written'[t] = Append(written[t], head) BY <3>4 DEF HasPayload
    <3> HIDE DEF head
    <3>6. /\ Len(written[t]) \in Nat /\ Len(written'[t]) = Len(written[t]) + 1
          /\ written'[t][Len(written[t]) + 1] = head
          /\ \A i \in 1 .. Len(written[t]) : written'[t][i] = written[t][i]
      BY <1>1, <1>2, <3>5
    <3> QED BY <1>6, <3>2, <3>6
  <2> QED BY <2>1, <2>2
<1>11. Taken(t)' = k + 1 BY <1>9, <1>10
<1>12. QueueShape(t)'
  <2>1. \A i \in 1 .. n - 1 :
          /\ i + 1 \in 1 .. n /\ (i < n - 1 => i + 1 < n)
          /\ (k + 1) + i - 1 = k + (i + 1) - 1
    <3>1. n \in Nat BY <1>2
    <3> HIDE DEF n
    <3> QED BY <3>1
  <2>2. \A i \in 1 .. n - 1 :
          /\ i < n - 1 => queue'[t][i].type \notin Endings
          /\ \/ /\ (k + 1) + i - 1 <= Transfers[t].last
                /\ queue'[t][i] = Block(t, (k + 1) + i - 1)
             \/ queue'[t][i] = AbortBlock(Transfers[t].client)
    BY <1>2, <1>5, <2>1
  <2>3. k + 1 # 0
    OBVIOUS
  <2> QED BY <1>2, <1>11, <2>2, <2>3 DEF QueueShape
<1>13. Taken(t)' + Len(queue'[t]) = Taken(t) + Len(queue[t])
  <2>1. n \in Nat BY <1>2
  <2> HIDE DEF n
  <2>2. (k + 1) + (n - 1) = k + n BY <2>1
  <2>3. Len(queue'[t]) = n - 1 /\ Taken(t) = k BY <1>2, <1>3
  <2> QED BY <1>11, <2>2, <2>3 DEF n
<1> QED BY <1>10, <1>12, <1>13

(* The worker takes the last one.                                          *)
LEMMA QueueEnds ==
  ASSUME TypeOK, NEW t \in T, QueueShape(t),
         \A i \in 1 .. Len(written[t]) : written[t][i] = Block(t, i),
         queue[t] # <<>>, Head(queue[t]).type \in Endings,
         written'[t] = IF HasPayload(Head(queue[t]))
                       THEN Append(written[t], Head(queue[t])) ELSE written[t],
         outcome'[t] = OutcomeOf(Head(queue[t]))
  PROVE  /\ \A i \in 1 .. Len(written'[t]) : written'[t][i] = Block(t, i)
         /\ outcome'[t] = "finished" => Complete(t)'
<1> DEFINE head == Head(queue[t])
<1>1. queue[t] \in Seq(Blocks) /\ written[t] \in Seq(Blocks) BY DEF TypeOK
<1>2. head = queue[t][1] /\ head \in Blocks /\ 1 \in 1 .. Len(queue[t])
  BY <1>1
<1>3. PICK k \in Nat : k = Taken(t) BY FloorFacts
<1>4. Transfers[t].last \in Nat \ {0} BY TransferFacts
<1>5. CASE head.type = "abort"
  <2>1. written'[t] = written[t] /\ outcome'[t] = "aborted"
    BY <1>5 DEF HasPayload, OutcomeOf
  <2> QED BY <2>1
<1>6. CASE head.type = "end"
  <2>1. head # AbortBlock(Transfers[t].client)
    <3>1. AbortBlock(Transfers[t].client).type = "abort" BY DEF AbortBlock
    <3> QED BY <1>6, <3>1
  <2>2. head = Block(t, k)
    <3>1. head = Block(t, Taken(t) + 1 - 1) BY <1>2, <2>1 DEF QueueShape
    <3>2. Taken(t) + 1 - 1 = k BY <1>3
    <3> QED BY <3>1, <3>2
  <2>3. Type(t, k) = "end" BY <1>6, <2>2, BlockIs
  <2>4. k # 0 /\ k = Transfers[t].last /\ Transfers[t].ends = "end"
    BY <2>3 DEF Type
  <2>5. k = Len(written[t]) + 1 BY <1>3, <2>4 DEF Taken
  <2>6. written'[t] = Append(written[t], head) BY <1>6 DEF HasPayload
  <2> HIDE DEF head
  <2>7. /\ Len(written[t]) \in Nat /\ Len(written'[t]) = Len(written[t]) + 1
        /\ written'[t] \in Seq(Blocks)
        /\ written'[t][Len(written[t]) + 1] = head
        /\ \A i \in 1 .. Len(written[t]) : written'[t][i] = written[t][i]
    BY <1>1, <1>2, <2>6
  <2>8. \A i \in 1 .. Len(written'[t]) : written'[t][i] = Block(t, i)
    BY <2>2, <2>5, <2>7
  <2>9. Len(written'[t]) = Transfers[t].last BY <2>4, <2>5, <2>7
  <2>10. written'[t] = [i \in 1 .. Transfers[t].last |-> Block(t, i)]
    BY <2>7, <2>8, <2>9
  <2> QED BY <2>4, <2>8, <2>10 DEF Complete
<1> QED BY <1>5, <1>6 DEF Endings

LEMMA FlowUnchanged ==
  ASSUME UNCHANGED <<next, damaged, for_dispatch>>
  PROVE  /\ \A lo, s, floor : Flow(lo, s, floor)' <=> Flow(lo, s, floor)
         /\ StartFlow => StartFlow'
<1>1. \A lo, s, floor : Flow(lo, s, floor)' <=> Flow(lo, s, floor)
  BY DEF Flow, Reaches
<1>2. \A t : Successors(t)' = Successors(t) BY DEF Successors
<1> QED BY <1>1, <1>2 DEF StartFlow

LEMMA FlowInvWorkers ==
  ASSUME TypeOK, WorkerInv, ServedInv, FlowInv,
         NEW w \in Workers, WorkerStep(w)
  PROVE  FlowInv'
<1> USE TransferFacts
<1> DEFINE t == worker[w].transfer
<1>1. /\ StartFlow /\ ActiveFlow /\ QueueInv
      /\ OwnPrefix /\ FinishedIsCompleteIfSound
  BY DEF FlowInv
<1>2. /\ UNCHANGED <<next, damaged, for_dispatch, active_transfers>>
      /\ \A s \in T : ReceiverAlive(s)' => ReceiverAlive(s)
  BY WorkerEffectProved DEF linkVars, dispatchVars, WorkerEffect
<1>3. /\ queue \in [T -> Seq(Blocks)] /\ written \in [T -> Seq(Blocks)]
      /\ outcome \in [T -> Outcomes \cup {None}] /\ None \notin Outcomes
      /\ worker[w].pc # "recv" => t \in T
  BY NoneAssumption DEF TypeOK, WorkerInv
<1> DEFINE Same(s) == /\ queue'[s] = queue[s] /\ written'[s] = written[s]
                      /\ outcome'[s] = outcome[s]
           Gone(s) == /\ written'[s] = written[s] /\ outcome'[s] # None
                      /\ outcome'[s] = "finished" => outcome[s] = "finished"
           Takes(s) ==
             /\ s = t /\ ReceiverAlive(s) /\ outcome[s] = None
             /\ queue[s] # <<>> /\ queue'[s] = Tail(queue[s])
             /\ written'[s] = IF HasPayload(Head(queue[s]))
                              THEN Append(written[s], Head(queue[s]))
                              ELSE written[s]
             /\ outcome'[s] = IF Head(queue[s]).type \in Endings
                              THEN OutcomeOf(Head(queue[s])) ELSE None
(* What the step does to each transfer.                                    *)
<1>4. ASSUME NEW s \in T PROVE Same(s) \/ Gone(s) \/ Takes(s)
  <2>1. CASE ClientsRecv(w) \/ ClientsWait(w) \/ ClientNew(w)
    BY <2>1 DEF ClientsRecv, ClientsWait, ClientNew
  <2>2. CASE ClientNewFail(w) \/ ClientGivesUp(w)
    <3>1. /\ UNCHANGED <<queue, written>> /\ t \in T
          /\ outcome' = [outcome EXCEPT ![t] = "failed"]
      BY <1>3, <2>2 DEF ClientNewFail, ClientGivesUp, Ends
    <3>2. "failed" \in Outcomes BY DEF Outcomes
    <3> QED BY <1>3, <3>1, <3>2
  <2>3. CASE ClientWriteFail(w)
    <3>1. /\ UNCHANGED written /\ t \in T
          /\ queue' = [queue EXCEPT ![t] = Tail(@)]
          /\ outcome' = [outcome EXCEPT ![t] = "failed"]
      BY <1>3, <2>3 DEF ClientWriteFail, Ends
    <3>2. "failed" \in Outcomes BY DEF Outcomes
    <3> QED BY <1>3, <3>1, <3>2
  <2>4. CASE ClientRecv(w)
    <3>1. /\ t \in T /\ outcome[t] = None /\ ReceiverAlive(t)
          /\ queue[t] # <<>>
          /\ queue' = [queue EXCEPT ![t] = Tail(@)]
          /\ written' = IF HasPayload(Head(queue[t]))
                        THEN [written EXCEPT ![t] = Append(@, Head(queue[t]))]
                        ELSE written
          /\ IF Head(queue[t]).type \in Endings
             THEN outcome' = [outcome EXCEPT ![t] = OutcomeOf(Head(queue[t]))]
             ELSE UNCHANGED outcome
      BY <1>3, <2>4 DEF ClientRecv, Ends, Endings, ServedInv, ReceiverAlive
    <3>2. CASE s # t BY <1>3, <3>1, <3>2
    <3>3. CASE s = t
      <4>1. written'[t] = IF HasPayload(Head(queue[t]))
                          THEN Append(written[t], Head(queue[t]))
                          ELSE written[t]
        BY <1>3, <3>1
      <4>2. outcome'[t] = IF Head(queue[t]).type \in Endings
                          THEN OutcomeOf(Head(queue[t])) ELSE None
        BY <1>3, <3>1
      <4>3. queue'[t] = Tail(queue[t]) BY <1>3, <3>1
      <4> QED BY <3>1, <3>3, <4>1, <4>2, <4>3
    <3> QED BY <3>2, <3>3
  <2>5. CASE ClientsSignal(w)
    <3>1. /\ t \in T /\ outcome[t] # None
          /\ queue' = [queue EXCEPT ![t] = <<>>]
          /\ UNCHANGED <<outcome, written>>
      BY <1>3, <2>5 DEF ClientsSignal, ServedInv
    <3> QED BY <1>3, <3>1
  <2> QED BY <2>1, <2>2, <2>3, <2>4, <2>5 DEF WorkerStep
<1>5. \A s \in T : Same(s) => Taken(s)' = Taken(s) BY DEF Taken
(* A block that is taken, from a queue in good order.                      *)
<1>6. ASSUME NEW s \in T, Takes(s), Sound(s)
      PROVE  /\ QueueShape(s)
             /\ \A i \in 1 .. Len(written[s]) : written[s][i] = Block(s, i)
  BY <1>1, <1>6 DEF QueueInv, OwnPrefix
<1>7. ASSUME NEW s \in T, Takes(s), Sound(s), outcome'[s] = None
      PROVE  /\ QueueShape(s)'
             /\ Taken(s)' + Len(queue'[s]) = Taken(s) + Len(queue[s])
             /\ \A i \in 1 .. Len(written'[s]) : written'[s][i] = Block(s, i)
  <2>1. Head(queue[s]).type \notin Endings
    <3>1. \A b : OutcomeOf(b) \in Outcomes BY DEF OutcomeOf, Outcomes
    <3> QED BY <1>3, <1>7, <3>1
  <2> QED BY <1>6, <1>7, <2>1, QueueShrinks
<1>8. ASSUME NEW s \in T, Takes(s), Sound(s), outcome'[s] # None
      PROVE  /\ \A i \in 1 .. Len(written'[s]) : written'[s][i] = Block(s, i)
             /\ outcome'[s] = "finished" => Complete(s)'
  <2>1. /\ Head(queue[s]).type \in Endings
        /\ outcome'[s] = OutcomeOf(Head(queue[s]))
    BY <1>8
  <2> QED BY <1>6, <1>8, <2>1, QueueEnds
<1>9. StartFlow' BY <1>1, <1>2, FlowUnchanged
<1>10. ActiveFlow'
  <2> SUFFICES ASSUME NEW u \in T, active_transfers[Transfers[u].client] = u,
                      outcome'[u] = None, Sound(u), NEW s \in Successors(u)
               PROVE  Flow(1, s, Floor(u, s))'
    BY <1>2 DEF ActiveFlow, Successors, Sound
  <2>1. Same(u) \/ Takes(u) BY <1>4
  <2>2. Flow(1, s, Floor(u, s)) BY <1>1, <2>1 DEF ActiveFlow
  <2>3. s \in T BY DEF Successors
  <2>4. PICK floor \in Nat : floor = Floor(u, s) BY <2>3, FloorFacts
  <2>5. Taken(u)' + Len(queue'[u]) = Taken(u) + Len(queue[u])
    BY <1>5, <1>7, <2>1
  <2>6. Floor(u, s)' = floor BY <2>4, <2>5 DEF Floor
  <2>7. Flow(1, s, floor)' BY <1>2, <2>2, <2>4 DEF Flow, Reaches
  <2> QED BY <2>6, <2>7
<1>11. QueueInv'
  <2> SUFFICES ASSUME NEW s \in T, outcome'[s] = None, Sound(s), ReceiverAlive(s)'
               PROVE  QueueShape(s)'
    BY <1>2 DEF QueueInv, Sound
  <2>1. CASE Same(s)
    <3>1. QueueShape(s) BY <1>1, <1>2, <2>1 DEF QueueInv
    <3> QED BY <1>5, <2>1, <3>1 DEF QueueShape
  <2>2. CASE Takes(s) BY <1>7, <2>2
  <2> QED BY <1>4, <2>1, <2>2
<1>12. ASSUME NEW s \in T, Sound(s)
       PROVE  /\ \A i \in 1 .. Len(written'[s]) : written'[s][i] = Block(s, i)
              /\ outcome'[s] = "finished" => Complete(s)'
  <2>1. CASE Same(s) \/ Gone(s)
    <3>1. /\ \A i \in 1 .. Len(written[s]) : written[s][i] = Block(s, i)
          /\ outcome[s] = "finished" => Complete(s)
      BY <1>1, <1>12 DEF OwnPrefix, FinishedIsCompleteIfSound
    <3> QED BY <2>1, <3>1 DEF Complete
  <2>2. CASE Takes(s)
    <3>1. CASE outcome'[s] = None
      <4>1. None # "finished" BY NoneAssumption DEF Outcomes
      <4> QED BY <1>7, <1>12, <2>2, <3>1, <4>1
    <3>2. CASE outcome'[s] # None BY <1>8, <1>12, <2>2, <3>2
    <3> QED BY <3>1, <3>2
  <2> QED BY <1>4, <2>1, <2>2
<1>13. OwnPrefix' BY <1>2, <1>12 DEF OwnPrefix, Sound
<1>14. FinishedIsCompleteIfSound'
  BY <1>2, <1>12 DEF FinishedIsCompleteIfSound, Sound
<1> QED BY <1>9, <1>10, <1>11, <1>13, <1>14 DEF FlowInv

LEMMA FlowInvNext ==
  WorkersInv /\ ServiceInv /\ FlowInv /\ [Next]_vars => FlowInv'
<1> SUFFICES ASSUME WorkersInv, ServiceInv, FlowInv, [Next]_vars
             PROVE  FlowInv'
  OBVIOUS
<1>1. /\ TypeOK /\ WorkerInv /\ LinkInv /\ ServedInv /\ ActiveInv
  BY DEF WorkersInv, ServiceInv
<1>2. CASE Senders BY <1>1, <1>2, FlowInvSenders
<1>3. CASE SynchronizationLost BY <1>1, <1>3, FlowInvSynchronizationLost
<1>4. CASE StartTransfer BY <1>1, <1>4, FlowInvStartTransfer
<1>5. CASE ForwardBlock BY <1>1, <1>5, FlowInvForwardBlock
<1>6. ASSUME NEW w \in Workers, WorkerStep(w) PROVE FlowInv'
  BY <1>1, <1>6, FlowInvWorkers
<1>7. CASE UNCHANGED vars
  <2>1. /\ UNCHANGED <<next, damaged, for_dispatch, active_transfers>>
        /\ UNCHANGED <<queue, to_clients, worker, written, outcome>>
    BY <1>7 DEF vars, linkVars, dispatchVars, clientVars
  <2>2. StartFlow' BY <2>1, FlowUnchanged DEF FlowInv
  <2>3. ActiveFlow'
    <3> SUFFICES ASSUME NEW t \in T, active_transfers[Transfers[t].client] = t,
                        outcome[t] = None, Sound(t), NEW s \in Successors(t)
                 PROVE  Flow(1, s, Floor(t, s))'
      BY <2>1 DEF ActiveFlow, Successors, Sound
    <3>1. Flow(1, s, Floor(t, s)) BY DEF FlowInv, ActiveFlow
    <3> QED BY <2>1, <3>1 DEF Flow, Reaches, Floor, Taken
  <2>4. QueueInv'
    BY <2>1 DEF FlowInv, QueueInv, QueueShape, Taken, ReceiverAlive, Sound
  <2>5. OwnPrefix' /\ FinishedIsCompleteIfSound'
    BY <2>1 DEF FlowInv, OwnPrefix, FinishedIsCompleteIfSound, Complete, Sound
  <2> QED BY <2>2, <2>3, <2>4, <2>5 DEF FlowInv
<1> QED BY <1>2, <1>3, <1>4, <1>5, <1>6, <1>7 DEF Next, DispatchStep

LEMMA FlowAlways == Spec => [](WorkersInv /\ ServiceInv /\ FlowInv)
<1>1. Init => WorkersInv /\ ServiceInv /\ FlowInv
  BY WorkersInvInit, LinkInit, ServiceInit, FlowInit DEF ServiceInv
<1>2. WorkersInv /\ ServiceInv /\ FlowInv /\ [Next]_vars
        => WorkersInv' /\ ServiceInv' /\ FlowInv'
  BY WorkersInvNext, ServiceNext, FlowInvNext
<1> QED BY <1>1, <1>2, PTL DEF Spec

(* Whatever runs of senders reuse a client id, what is lost and reported,  *)
(* and however the clients fail, a client only gets a prefix of its own    *)
(* transfer (receive/dispatch.rs, active_transfers).                       *)
THEOREM OwnPrefixCorrect == Spec => []OwnPrefix
<1>1. FlowInv => OwnPrefix BY DEF FlowInv
<1> QED BY <1>1, FlowAlways, PTL

(* client_end is told true only for a transfer that was written to its     *)
(* last block (receive/client.rs).                                         *)
THEOREM FinishedIsCompleteCorrect == Spec => []FinishedIsCompleteIfSound
<1>1. FlowInv => FinishedIsCompleteIfSound BY DEF FlowInv
<1> QED BY <1>1, FlowAlways, PTL
=============================================================================
