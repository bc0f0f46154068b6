---------------------------- MODULE Sender_proofs ----------------------------
(***************************************************************************)
(* Proofs about Sender, for any streams, any number of client and encoding *)
(* workers and any failures.                                               *)
(*                                                                         *)
(* The argument has three layers.  WorkersInv is about the connections,    *)
(* the client ids, the permits and the buffers.  With it every block that  *)
(* is submitted is one of Block, so that each step of Sender is one of     *)
(* SendPipeline, whose invariant holds.  BlocksInv is about Submitted, the *)
(* blocks in the order in which the ordering worker gets them, of which    *)
(* the link carries a beginning.                                           *)
(***************************************************************************)
EXTENDS Sender, SendPipeline_proofs, SequenceTheorems

(* The front end keeps its types.                                          *)
State ==
  [pc : {"recv", "wait", "start", "read", "data", "end", "signal",
         "signal_error", "abort", "stopping", "done"},
   conn : Connections \cup {None}, client : ClientId \cup {None},
   cursor : 0 .. BufferLen, nones : 0 .. N]

FrontType ==
  /\ to_server \in {<<>>, <<None>>} \cup {<<c>> : c \in Connections}
  /\ accepted \in 0 .. Len(StreamLengths)
  /\ stopped \in BOOLEAN
  /\ multiplex_control \in 0 .. MaxClients
  /\ next_client_id \in ClientId
  /\ worker \in [Workers -> State]
  /\ unread \in [Connections -> Nat]
  /\ \A c \in Connections : unread[c] <= StreamLengths[c]
  /\ client_of \in [Connections -> ClientId \cup {None}]
  /\ read_faults \in 0 .. MaxReadFaults
  /\ heartbeats \in 0 .. Heartbeats

(* The workers that have a client id, and those that have a connection.    *)
HasClient(w) ==
  worker[w].pc \in {"start", "read", "data", "end", "signal", "signal_error",
                    "abort"}

HasConn(w) == worker[w].pc = "wait" \/ HasClient(w)

(* A connection is in one place: not accepted yet, in the channel, with    *)
(* one worker, or done.                                                    *)
ConnInv ==
  /\ to_server # <<>> /\ to_server # <<None>> =>
       /\ to_server = <<accepted>> /\ client_of[accepted] = None
  /\ \A w \in Workers : HasConn(w) =>
       /\ worker[w].conn \in 1 .. accepted
       /\ to_server # <<worker[w].conn>>
       /\ client_of[worker[w].conn] =
            IF worker[w].pc = "wait" THEN None ELSE worker[w].client
  /\ \A w \in Workers : HasClient(w) => worker[w].client # None
  /\ \A v, w \in Workers :
       HasConn(v) /\ HasConn(w) /\ worker[v].conn = worker[w].conn => v = w
  /\ \A c \in Connections : c > accepted => client_of[c] = None
  /\ \A c \in Connections :
       client_of[c] = None => unread[c] = StreamLengths[c]

(* Client ids are given once each, in turn.                                *)
Served == {c \in Connections : client_of[c] # None}

ClientInv ==
  /\ next_client_id = Cardinality(Served)
  /\ \A c \in Served : client_of[c] < next_client_id
  /\ \A c, d \in Served : client_of[c] = client_of[d] => c = d

(* What a worker has read of its stream, and what it has in its buffer.    *)
Read(w) == StreamLengths[worker[w].conn] - unread[worker[w].conn]

BufferInv(w) ==
  /\ worker[w].pc \in {"wait", "start"} => worker[w].cursor = 0
  /\ worker[w].pc \in {"read", "data", "end"} => worker[w].cursor <= Read(w)
  /\ worker[w].pc = "end" => unread[worker[w].conn] = 0
  /\ worker[w].pc = "data" /\ ~ Flush => worker[w].cursor = BufferLen
  /\ worker[w].pc = "stopping" => worker[w].nones > 0

(* The workers that have taken a permit and not given it back.             *)
Holders ==
  {w \in Workers : worker[w].pc \in {"start", "read", "data", "end", "signal",
                                     "signal_error"}}

PermitInv == multiplex_control = MaxClients - Cardinality(Holders)

WorkersInv ==
  /\ FrontType
  /\ ConnInv
  /\ ClientInv
  /\ \A w \in Workers : BufferInv(w)
  /\ PermitInv

(* All that the ordering worker was ever sent, in order: what it has       *)
(* numbered, what it holds, what it will receive.                          *)
Held == IF ordering_pc = "recv" THEN <<>> ELSE <<ordering_held>>

Numbered == [i \in 1 .. Len(ordered) |-> ordered[i].block]

Submitted == (Numbered \o Held) \o to_ordering

(* Place i of the blocks s holds a block of this client, the latest one    *)
(* among the first n.                                                      *)
IsBlock(b) == b # None /\ b.type # "heartbeat"

Mine(s, i, client) == IsBlock(s[i]) /\ s[i].client = client

Latest(s, n, client, i) ==
  /\ i \in 1 .. n /\ Mine(s, i, client)
  /\ \A j \in 1 .. n : Mine(s, j, client) => j <= i

Follows(b, a) ==
  /\ a.type \in {"start", "data"}
  /\ b.type \in {"data", "end"} => b.off = a.off + a.len

Intact(s) ==
  \A j \in 1 .. Len(s) : IsBlock(s[j]) =>
    /\ s[j].type = "start" <=> \A i \in 1 .. j - 1 : ~ Mine(s, i, s[j].client)
    /\ s[j].type = "start" => s[j].off = 0 /\ s[j].len = 0
    /\ \A i \in 1 .. j - 1 :
         Latest(s, j - 1, s[j].client, i) => Follows(s[j], s[i])

(* An End block reaches the end of its stream.                             *)
EndsInv ==
  \A j \in 1 .. Len(Submitted) :
    IsBlock(Submitted[j]) /\ Submitted[j].type = "end" =>
      \A c \in Connections : client_of[c] = Submitted[j].client =>
        Submitted[j].off + Submitted[j].len = StreamLengths[c]

FullInv ==
  ~ Flush => \A j \in 1 .. Len(Submitted) :
    IsBlock(Submitted[j]) /\ Submitted[j].type = "data" =>
      Submitted[j].len = BufferLen

(* What a worker has sent of its stream.                                   *)
SentInv(w) ==
  /\ worker[w].pc = "start" =>
       /\ Read(w) = 0
       /\ \A j \in 1 .. Len(Submitted) : ~ Mine(Submitted, j, worker[w].client)
  /\ worker[w].pc \in {"read", "data", "end", "signal_error", "abort"} =>
       \E i \in 1 .. Len(Submitted) :
         /\ Latest(Submitted, Len(Submitted), worker[w].client, i)
         /\ Submitted[i].type \in {"start", "data"}
         /\ worker[w].pc \in {"read", "data", "end"} =>
              Submitted[i].off + Submitted[i].len = Read(w) - worker[w].cursor

(* Nobody has sent a block of a client that there is not yet.              *)
KnownInv ==
  \A j \in 1 .. Len(Submitted) :
    IsBlock(Submitted[j]) => Submitted[j].client < next_client_id

StreamsInv == KnownInv /\ Intact(Submitted) /\ EndsInv /\ FullInv

BlocksInv == StreamsInv /\ \A w \in Workers : SentInv(w)
-----------------------------------------------------------------------------
(* Facts about the constants.                                              *)
LEMMA SenderFacts ==
  /\ MaxClients \in Nat /\ Len(StreamLengths) \in Nat
  /\ \A c \in Connections : StreamLengths[c] \in Nat /\ c \in ClientId
  /\ None \notin Connections /\ None \notin ClientId
  /\ \A c \in Connections : 0 .. StreamLengths[c] \subseteq Offsets
  /\ Offsets \subseteq Nat
  /\ N \in Nat \ {0} /\ BufferLen \in Nat \ {0}
  /\ MaxReadFaults \in Nat /\ Heartbeats \in Nat
<1>1. MaxClients \in Nat BY SenderAssumption, FS_CardinalityType DEF MaxClients
<1>2. /\ Len(StreamLengths) \in Nat
      /\ \A c \in Connections : StreamLengths[c] \in Nat /\ c \in ClientId
  BY SenderAssumption DEF Connections, ClientId
<1>3. None \notin ClientId /\ None \notin Connections
  BY <1>2, BlockAssumption
<1>4. /\ \A c \in Connections : 0 .. StreamLengths[c] \subseteq Offsets
      /\ Offsets \subseteq Nat
  BY <1>2 DEF Offsets
<1>5. N \in Nat \ {0} BY EncodersAssumption, IdCountAssumption
<1> QED BY <1>1, <1>2, <1>3, <1>4, <1>5, SenderAssumption

LEMMA BlockFacts ==
  /\ None \notin Block
  /\ \A type \in {"heartbeat", "start", "data", "abort", "end"} :
       \A client \in ClientId :
         EmptyBlock(type, client) \in Block
  /\ \A b \in Block : /\ b.type \in {"heartbeat", "start", "data", "abort", "end"}
                      /\ b.client \in ClientId /\ b.client \in Nat
                      /\ b.off \in Nat /\ b.len \in 0 .. BufferLen
<1>1. None \notin Block BY NoneAssumption
<1>2. 0 \in Offsets /\ 0 \in 0 .. BufferLen
  BY SenderFacts DEF Offsets
<1>3. ClientId \subseteq Nat BY SenderFacts DEF ClientId
<1> QED BY <1>1, <1>2, <1>3, SenderFacts, BlockAssumption
        DEF EmptyBlock, ProtocolBlock
-----------------------------------------------------------------------------
(* What the steps make of a worker.                                        *)
Becomes(w, pc, conn, client, cursor, nones) ==
  worker' = [worker EXCEPT ![w] = [pc |-> pc, conn |-> conn,
                                   client |-> client, cursor |-> cursor,
                                   nones |-> nones]]

LEMMA BecomesFacts ==
  ASSUME FrontType, NEW w \in Workers,
         NEW pc \in {"recv", "wait", "start", "read", "data", "end", "signal",
                     "signal_error", "abort", "stopping", "done"},
         NEW conn \in Connections \cup {None},
         NEW client \in ClientId \cup {None},
         NEW cursor \in 0 .. BufferLen, NEW nones \in 0 .. N,
         Becomes(w, pc, conn, client, cursor, nones)
  PROVE  /\ worker' \in [Workers -> State]
         /\ worker'[w].pc = pc /\ worker'[w].conn = conn
         /\ worker'[w].client = client /\ worker'[w].cursor = cursor
         /\ worker'[w].nones = nones
         /\ \A v \in Workers \ {w} : worker'[v] = worker[v]
<1> DEFINE new == [pc |-> pc, conn |-> conn, client |-> client,
                   cursor |-> cursor, nones |-> nones]
<1>1. new \in State BY DEF State
<1>2. worker' = [worker EXCEPT ![w] = new] BY DEF Becomes
<1>3. worker \in [Workers -> State] BY DEF FrontType
<1>4. /\ new.pc = pc /\ new.conn = conn /\ new.client = client
      /\ new.cursor = cursor /\ new.nones = nones
  OBVIOUS
<1> HIDE DEF new
<1>5. worker'[w] = new /\ worker' \in [Workers -> State]
  BY <1>1, <1>2, <1>3
<1>6. \A v \in Workers \ {w} : worker'[v] = worker[v] BY <1>2, <1>3
<1> QED BY <1>4, <1>5, <1>6

LEMMA WorkerFacts ==
  ASSUME FrontType, NEW w \in Workers
  PROVE  /\ worker[w] = [pc |-> worker[w].pc, conn |-> worker[w].conn,
                         client |-> worker[w].client,
                         cursor |-> worker[w].cursor,
                         nones |-> worker[w].nones]
         /\ worker[w].pc \in
              {"recv", "wait", "start", "read", "data", "end", "signal",
               "signal_error", "abort", "stopping", "done"}
         /\ worker[w].conn \in Connections \cup {None}
         /\ worker[w].client \in ClientId \cup {None}
         /\ worker[w].cursor \in 0 .. BufferLen
         /\ worker[w].nones \in 0 .. N
<1>1. worker[w] \in State BY DEF FrontType
<1> QED BY <1>1 DEF State

Worker(pc, conn, client, cursor, nones) ==
  [pc |-> pc, conn |-> conn, client |-> client, cursor |-> cursor,
   nones |-> nones]

LEMMA Moves ==
  ASSUME FrontType, NEW w \in Workers
  PROVE  LET x == worker[w]
         IN /\ ServerRecv(w) =>
                 IF Head(to_server) = None
                 THEN Becomes(w, "stopping", None, None, 0, N)
                 ELSE Becomes(w, "wait", Head(to_server), None, 0, 0)
            /\ ServerSendNone(w) =>
                 Becomes(w, IF x.nones = 1 THEN "done" ELSE x.pc, x.conn,
                         x.client, x.cursor, x.nones - 1)
            /\ ServerWait(w) =>
                 Becomes(w, "start", x.conn, next_client_id, x.cursor, x.nones)
            /\ ClientStart(w) =>
                 Becomes(w, "read", x.conn, x.client, x.cursor, x.nones)
            /\ ClientRead(w) => \E read \in 0 .. BufferLen - x.cursor :
                 /\ read <= unread[x.conn]
                 /\ read = 0 <=> unread[x.conn] = 0
                 /\ unread' = [unread EXCEPT ![x.conn] = @ - read]
                 /\ Becomes(w, IF read = 0 THEN "end"
                               ELSE IF BlockIsDue(x.cursor + read) THEN "data"
                               ELSE "read",
                            x.conn, x.client, x.cursor + read, x.nones)
            /\ ClientReadFail(w) =>
                 Becomes(w, "signal_error", x.conn, x.client, x.cursor,
                         x.nones)
            /\ ClientSend(w) =>
                 Becomes(w, IF x.pc = "end" THEN "signal" ELSE "read", x.conn,
                         x.client, 0, x.nones)
            /\ ServerSignal(w) =>
                 IF x.pc = "signal" THEN Becomes(w, "recv", None, None, 0, 0)
                 ELSE Becomes(w, "abort", x.conn, x.client, x.cursor, x.nones)
            /\ ServerAbort(w) => Becomes(w, "recv", None, None, 0, 0)
<1> DEFINE x == worker[w]
           new(pc, client, cursor, nones) ==
             Worker(pc, x.conn, client, cursor, nones)
<1>1. x = new(x.pc, x.client, x.cursor, x.nones) BY WorkerFacts DEF Worker
<1>2. worker \in [Workers -> State] BY DEF FrontType
<1>3. ASSUME NEW pc, NEW client, NEW cursor, NEW nones
      PROVE  /\ [x EXCEPT !.pc = pc] = new(pc, x.client, x.cursor, x.nones)
             /\ [[x EXCEPT !.nones = nones] EXCEPT !.pc = pc]
                  = new(pc, x.client, x.cursor, nones)
             /\ [[x EXCEPT !.pc = pc] EXCEPT !.client = client]
                  = new(pc, client, x.cursor, x.nones)
             /\ [[x EXCEPT !.cursor = cursor] EXCEPT !.pc = pc]
                  = new(pc, x.client, cursor, x.nones)
  <2> DEFINE y == new(x.pc, x.client, x.cursor, x.nones)
  <2>1. /\ [y EXCEPT !.pc = pc] = new(pc, x.client, x.cursor, x.nones)
        /\ [y EXCEPT !.nones = nones] = new(x.pc, x.client, x.cursor, nones)
        /\ [y EXCEPT !.cursor = cursor] = new(x.pc, x.client, cursor, x.nones)
    BY DEF Worker
  <2>2. /\ [new(x.pc, x.client, x.cursor, nones) EXCEPT !.pc = pc]
             = new(pc, x.client, x.cursor, nones)
        /\ [new(pc, x.client, x.cursor, x.nones) EXCEPT !.client = client]
             = new(pc, client, x.cursor, x.nones)
        /\ [new(x.pc, x.client, cursor, x.nones) EXCEPT !.pc = pc]
             = new(pc, x.client, cursor, x.nones)
    BY DEF Worker
  <2>3. x = y BY <1>1
  <2> HIDE DEF x
  <2> QED BY <2>1, <2>2, <2>3
<1>4. ASSUME NEW pc, NEW client, NEW cursor, NEW nones
      PROVE  /\ [worker EXCEPT ![w].pc = pc]
                  = [worker EXCEPT ![w] = [x EXCEPT !.pc = pc]]
             /\ [worker EXCEPT ![w].nones = nones, ![w].pc = pc]
                  = [worker EXCEPT ![w] =
                       [[x EXCEPT !.nones = nones] EXCEPT !.pc = pc]]
             /\ [worker EXCEPT ![w].pc = pc, ![w].client = client]
                  = [worker EXCEPT ![w] =
                       [[x EXCEPT !.pc = pc] EXCEPT !.client = client]]
             /\ [worker EXCEPT ![w].cursor = cursor, ![w].pc = pc]
                  = [worker EXCEPT ![w] =
                       [[x EXCEPT !.cursor = cursor] EXCEPT !.pc = pc]]
  BY <1>2
<1>5. /\ [Idle EXCEPT !.pc = "stopping", !.nones = N]
           = Worker("stopping", None, None, 0, N)
      /\ \A c : [Idle EXCEPT !.pc = "wait", !.conn = c]
           = Worker("wait", c, None, 0, 0)
      /\ Idle = Worker("recv", None, None, 0, 0)
  <2>1. Idle = Worker("recv", None, None, 0, 0) BY DEF Idle, Worker
  <2>2. /\ [Idle EXCEPT !.pc = "stopping"] = Worker("stopping", None, None, 0, 0)
        /\ [Idle EXCEPT !.pc = "wait"] = Worker("wait", None, None, 0, 0)
    BY DEF Idle, Worker
  <2>3. [Worker("stopping", None, None, 0, 0) EXCEPT !.nones = N]
          = Worker("stopping", None, None, 0, N)
    BY DEF Worker
  <2>4. \A c : [Worker("wait", None, None, 0, 0) EXCEPT !.conn = c]
              = Worker("wait", c, None, 0, 0)
    BY DEF Worker
  <2> QED BY <2>1, <2>2, <2>3, <2>4
<1>6. ServerRecv(w) => IF Head(to_server) = None
                       THEN Becomes(w, "stopping", None, None, 0, N)
                       ELSE Becomes(w, "wait", Head(to_server), None, 0, 0)
  BY <1>5 DEF ServerRecv, Becomes, Worker
<1>7. ServerSendNone(w) =>
        Becomes(w, IF x.nones = 1 THEN "done" ELSE x.pc, x.conn, x.client,
                x.cursor, x.nones - 1)
  BY <1>3, <1>4, ZenonT(30) DEF ServerSendNone, Becomes, Worker
<1>8. ServerWait(w) =>
        Becomes(w, "start", x.conn, next_client_id, x.cursor, x.nones)
  BY <1>3, <1>4, ZenonT(30) DEF ServerWait, Becomes, Worker
<1>9. ClientStart(w) =>
        Becomes(w, "read", x.conn, x.client, x.cursor, x.nones)
  BY <1>3, <1>4 DEF ClientStart, Becomes, Worker
<1>10. ClientRead(w) => \E read \in 0 .. BufferLen - x.cursor :
         /\ read <= unread[x.conn]
         /\ read = 0 <=> unread[x.conn] = 0
         /\ unread' = [unread EXCEPT ![x.conn] = @ - read]
         /\ Becomes(w, IF read = 0 THEN "end"
                       ELSE IF BlockIsDue(x.cursor + read) THEN "data"
                       ELSE "read",
                    x.conn, x.client, x.cursor + read, x.nones)
  <2> SUFFICES ASSUME ClientRead(w)
               PROVE  \E read \in 0 .. BufferLen - x.cursor :
                 /\ read <= unread[x.conn]
                 /\ read = 0 <=> unread[x.conn] = 0
                 /\ unread' = [unread EXCEPT ![x.conn] = @ - read]
                 /\ Becomes(w, IF read = 0 THEN "end"
                               ELSE IF BlockIsDue(x.cursor + read) THEN "data"
                               ELSE "read",
                            x.conn, x.client, x.cursor + read, x.nones)
    OBVIOUS
  <2>1. PICK read \in 0 .. BufferLen - x.cursor :
          /\ read <= unread[x.conn]
          /\ read = 0 <=> unread[x.conn] = 0
          /\ unread' = [unread EXCEPT ![x.conn] = @ - read]
          /\ worker' =
               [worker EXCEPT
                  ![w].cursor = x.cursor + read,
                  ![w].pc = IF read = 0 THEN "end"
                            ELSE IF BlockIsDue(x.cursor + read) THEN "data"
                            ELSE "read"]
    BY DEF ClientRead
  <2> DEFINE pc == IF read = 0 THEN "end"
                   ELSE IF BlockIsDue(x.cursor + read) THEN "data" ELSE "read"
             cursor == x.cursor + read
  <2>2. worker' = [worker EXCEPT ![w] = new(pc, x.client, cursor, x.nones)]
    <3>1. worker' = [worker EXCEPT ![w].cursor = cursor, ![w].pc = pc] BY <2>1
    <3> HIDE DEF pc, cursor, new
    <3>2. [worker EXCEPT ![w].cursor = cursor, ![w].pc = pc]
            = [worker EXCEPT ![w] =
                 [[x EXCEPT !.cursor = cursor] EXCEPT !.pc = pc]]
      BY <1>2
    <3>3. [[x EXCEPT !.cursor = cursor] EXCEPT !.pc = pc]
            = new(pc, x.client, cursor, x.nones)
      BY <1>3
    <3> QED BY <3>1, <3>2, <3>3
  <2> QED BY <2>1, <2>2 DEF Becomes, Worker
<1>11. ClientReadFail(w) =>
         Becomes(w, "signal_error", x.conn, x.client, x.cursor, x.nones)
  BY <1>3, <1>4, ZenonT(30) DEF ClientReadFail, Becomes, Worker
<1>12. ClientSend(w) =>
         Becomes(w, IF x.pc = "end" THEN "signal" ELSE "read", x.conn,
                 x.client, 0, x.nones)
  BY <1>3, <1>4, ZenonT(30) DEF ClientSend, Becomes, Worker
<1>13. ServerSignal(w) =>
         IF x.pc = "signal" THEN Becomes(w, "recv", None, None, 0, 0)
         ELSE Becomes(w, "abort", x.conn, x.client, x.cursor, x.nones)
  BY <1>3, <1>5 DEF ServerSignal, Becomes, Worker
<1>14. ServerAbort(w) => Becomes(w, "recv", None, None, 0, 0)
  BY <1>5 DEF ServerAbort, Becomes, Worker
<1> QED
  BY <1>6, <1>7, <1>8, <1>9, <1>10, <1>11, <1>12, <1>13, <1>14

(* The permits.                                                            *)
Holds(pc) ==
  pc \in {"start", "read", "data", "end", "signal", "signal_error"}

LEMMA PermitStep ==
  ASSUME NEW w \in Workers, \A v \in Workers \ {w} : worker'[v] = worker[v]
  PROVE  /\ Holds(worker'[w].pc) <=> Holds(worker[w].pc) => Holders' = Holders
         /\ Holds(worker'[w].pc) /\ ~ Holds(worker[w].pc)
              => Cardinality(Holders') = Cardinality(Holders) + 1
         /\ ~ Holds(worker'[w].pc) /\ Holds(worker[w].pc)
              => Cardinality(Holders') = Cardinality(Holders) - 1
         /\ Cardinality(Holders) \in 0 .. MaxClients
         /\ Cardinality(Holders') \in 0 .. MaxClients
         /\ MaxClients \in Nat
         /\ ~ Holds(worker[w].pc) => Cardinality(Holders) < MaxClients
<1>1. IsFiniteSet(Workers) /\ MaxClients \in Nat
      /\ MaxClients = Cardinality(Workers)
  BY SenderAssumption, FS_CardinalityType DEF MaxClients
<1>2. /\ IsFiniteSet(Holders) /\ Cardinality(Holders) \in Nat
      /\ Cardinality(Holders) <= MaxClients
  BY <1>1, FS_Subset, FS_CardinalityType DEF Holders
<1>3. /\ IsFiniteSet(Holders') /\ Cardinality(Holders') \in Nat
      /\ Cardinality(Holders') <= MaxClients
  BY <1>1, FS_Subset, FS_CardinalityType DEF Holders
<1>4. ASSUME Holds(worker'[w].pc) <=> Holds(worker[w].pc)
      PROVE  Holders' = Holders
  BY <1>4 DEF Holders, Holds
<1>5. ASSUME Holds(worker'[w].pc), ~ Holds(worker[w].pc)
      PROVE  Cardinality(Holders') = Cardinality(Holders) + 1
  <2>1. Holders' = Holders \cup {w} /\ w \notin Holders
    BY <1>5 DEF Holders, Holds
  <2> QED BY <1>2, <2>1, FS_AddElement
<1>6. ASSUME ~ Holds(worker'[w].pc), Holds(worker[w].pc)
      PROVE  Cardinality(Holders') = Cardinality(Holders) - 1
  <2>1. Holders' = Holders \ {w} /\ w \in Holders
    BY <1>6 DEF Holders, Holds
  <2> QED BY <1>2, <2>1, FS_RemoveElement
<1>7. ASSUME ~ Holds(worker[w].pc)
      PROVE  Cardinality(Holders) < MaxClients
  <2>1. Holders \subseteq Workers /\ Holders # Workers
    BY <1>7 DEF Holders, Holds
  <2>2. Cardinality(Holders) # Cardinality(Workers)
    BY <1>1, <2>1, FS_Subset
  <2> QED BY <1>1, <1>2, <2>2
<1> QED BY <1>1, <1>2, <1>3, <1>4, <1>5, <1>6, <1>7

(* A new client id.                                                        *)
LEMMA ServedStep ==
  ASSUME FrontType, NEW c \in Connections, NEW client \in ClientId,
         client_of[c] = None, client_of' = [client_of EXCEPT ![c] = client]
  PROVE  /\ Cardinality(Served') = Cardinality(Served) + 1
         /\ Cardinality(Served) \in Nat
         /\ Cardinality(Served') <= Len(StreamLengths)
         /\ Served' = Served \cup {c}
<1>1. IsFiniteSet(Connections) /\ Cardinality(Connections) = Len(StreamLengths)
  BY SenderFacts, FS_Interval DEF Connections
<1>2. IsFiniteSet(Served) /\ Cardinality(Served) \in Nat
  BY <1>1, FS_Subset, FS_CardinalityType DEF Served
<1>3. Cardinality(Served') <= Len(StreamLengths)
  BY <1>1, FS_Subset DEF Served
<1>4. Served' = Served \cup {c} /\ c \notin Served
  BY SenderFacts DEF Served, FrontType
<1> QED BY <1>2, <1>3, <1>4, FS_AddElement

(* What a worker does with its connection leaves the others alone.         *)
LEMMA ConnKept ==
  ASSUME WorkersInv, NEW w \in Workers,
         \A v \in Workers \ {w} : worker'[v] = worker[v],
         UNCHANGED <<to_server, accepted, client_of, next_client_id>>,
         \/ unread' = unread
         \/ /\ HasClient(w)
            /\ \A c \in Connections \ {worker[w].conn} :
                 unread'[c] = unread[c],
         \/ ~ HasConn(w)'
         \/ /\ HasClient(w) /\ HasClient(w)'
            /\ worker'[w].conn = worker[w].conn
            /\ worker'[w].client = worker[w].client
  PROVE  /\ ConnInv' /\ ClientInv'
         /\ \A v \in Workers \ {w} : BufferInv(v)'
<1>1. ConnInv /\ ClientInv /\ \A v \in Workers : BufferInv(v)
  BY DEF WorkersInv
<1>2. FrontType BY DEF WorkersInv
<1>3. ASSUME NEW v \in Workers \ {w}
      PROVE  /\ HasConn(v)' <=> HasConn(v)
             /\ HasClient(v)' <=> HasClient(v)
             /\ worker'[v] = worker[v]
             /\ HasConn(v) => unread'[worker[v].conn] = unread[worker[v].conn]
  <2>1. worker'[v] = worker[v] OBVIOUS
  <2>2. /\ HasConn(v)' <=> HasConn(v)
        /\ HasClient(v)' <=> HasClient(v)
    BY <2>1 DEF HasConn, HasClient
  <2>3. ASSUME HasConn(v), unread' # unread
        PROVE  unread'[worker[v].conn] = unread[worker[v].conn]
    <3>1. HasClient(w) /\ HasConn(w) BY <2>3 DEF HasConn
    <3>2. worker[v].conn # worker[w].conn BY <1>1, <2>3, <3>1 DEF ConnInv
    <3>3. worker[v].conn \in Connections
      BY <1>1, <1>2, <2>3 DEF ConnInv, FrontType, Connections
    <3> QED BY <3>1, <2>3, <3>2, <3>3
  <2> QED BY <2>1, <2>2, <2>3
<1>4. HasConn(w)' => /\ HasConn(w) /\ HasClient(w)
                     /\ worker'[w].conn = worker[w].conn
                     /\ worker'[w].client = worker[w].client
                     /\ worker[w].pc # "wait" /\ worker'[w].pc # "wait"
  BY DEF HasConn, HasClient
<1>5. ConnInv'
  <2>1. ASSUME to_server' # <<>>, to_server' # <<None>>
        PROVE  to_server' = <<accepted'>> /\ client_of'[accepted'] = None
    BY <1>1, <2>1 DEF ConnInv
  <2>2. ASSUME NEW v \in Workers, HasConn(v)'
        PROVE  /\ worker'[v].conn \in 1 .. accepted'
               /\ to_server' # <<worker'[v].conn>>
               /\ client_of'[worker'[v].conn] =
                    IF worker'[v].pc = "wait" THEN None ELSE worker'[v].client
    BY <1>1, <1>3, <1>4, <2>2 DEF ConnInv
  <2>3. ASSUME NEW v \in Workers, HasClient(v)'
        PROVE  worker'[v].client # None
    BY <1>1, <1>3, <1>4, <2>3 DEF ConnInv, HasConn
  <2>4. ASSUME NEW u \in Workers, NEW v \in Workers, HasConn(u)', HasConn(v)',
               worker'[u].conn = worker'[v].conn
        PROVE  u = v
    BY <1>1, <1>3, <1>4, <2>4 DEF ConnInv
  <2>5. \A c \in Connections : c > accepted' => client_of'[c] = None
    BY <1>1 DEF ConnInv
  <2>6. ASSUME NEW c \in Connections, client_of'[c] = None
        PROVE  unread'[c] = StreamLengths[c]
    <3>1. unread[c] = StreamLengths[c] BY <1>1, <2>6 DEF ConnInv
    <3>2. HasClient(w) => c # worker[w].conn
      BY <1>1, <2>6 DEF ConnInv, HasConn, HasClient
    <3> QED BY <3>1, <3>2
  <2> QED BY <2>1, <2>2, <2>3, <2>4, <2>5, <2>6 DEF ConnInv
<1>6. ClientInv' BY <1>1 DEF ClientInv, Served
<1>7. ASSUME NEW v \in Workers \ {w} PROVE BufferInv(v)'
  <2>1. HasConn(v) => Read(v)' = Read(v) BY <1>3 DEF Read
  <2>2. worker[v].pc \in {"read", "data", "end"} => HasConn(v)
    BY DEF HasConn, HasClient
  <2> QED BY <1>1, <1>3, <2>1, <2>2 DEF BufferInv
<1> QED BY <1>5, <1>6, <1>7

LEMMA WorkersInit == SenderInit => WorkersInv
<1> SUFFICES ASSUME SenderInit PROVE WorkersInv OBVIOUS
<1>1. /\ to_server = <<>> /\ accepted = 0 /\ stopped = FALSE
      /\ multiplex_control = MaxClients /\ next_client_id = 0
      /\ worker = [w \in Workers |-> Idle] /\ unread = StreamLengths
      /\ client_of = [c \in Connections |-> None]
      /\ read_faults = 0 /\ heartbeats = 0
  BY DEF SenderInit
<1>2. Idle \in State /\ Idle.pc = "recv"
  BY SenderFacts DEF Idle, State
<1>3. /\ worker \in [Workers -> State]
      /\ \A w \in Workers : worker[w].pc = "recv"
  BY <1>1, <1>2
<1>4. StreamLengths \in [Connections -> Nat]
  BY SenderAssumption DEF Connections
<1>5. FrontType
  <2>1. 0 \in ClientId BY SenderFacts DEF ClientId
  <2>2. multiplex_control \in 0 .. MaxClients /\ accepted \in 0 .. Len(StreamLengths)
    BY <1>1, SenderFacts
  <2>3. read_faults \in 0 .. MaxReadFaults /\ heartbeats \in 0 .. Heartbeats
    BY <1>1, SenderFacts
  <2>4. /\ unread \in [Connections -> Nat]
        /\ \A c \in Connections : unread[c] <= StreamLengths[c]
    BY <1>1, <1>4
  <2>5. client_of \in [Connections -> ClientId \cup {None}] BY <1>1
  <2> QED BY <1>1, <1>3, <2>1, <2>2, <2>3, <2>4, <2>5 DEF FrontType
<1>6. ConnInv BY <1>1, <1>3 DEF ConnInv, HasConn, HasClient
<1>7. ClientInv
  <2>1. Served = {} BY <1>1 DEF Served
  <2> QED BY <1>1, <2>1, FS_EmptySet DEF ClientInv
<1>8. \A w \in Workers : BufferInv(w) BY <1>3 DEF BufferInv
<1>9. PermitInv
  <2>1. Holders = {} BY <1>3 DEF Holders
  <2> QED BY <1>1, <2>1, FS_EmptySet, SenderFacts DEF PermitInv
<1> QED BY <1>5, <1>6, <1>7, <1>8, <1>9 DEF WorkersInv

(* A connection goes from the listener to a worker.                        *)
LEMMA ListenerKeeps ==
  ASSUME WorkersInv, NewClient \/ Stop
  PROVE  WorkersInv'
<1>1. /\ FrontType /\ ConnInv /\ ClientInv /\ PermitInv
      /\ \A v \in Workers : BufferInv(v)
  BY DEF WorkersInv
<1>2. /\ UNCHANGED <<multiplex_control, next_client_id, worker, unread,
                     client_of, read_faults, heartbeats>>
  BY DEF NewClient, Stop
<1>3. ClientInv' /\ PermitInv' /\ \A v \in Workers : BufferInv(v)'
  BY <1>1, <1>2 DEF ClientInv, Served, PermitInv, Holders, BufferInv, Read
<1>4. \A v \in Workers : /\ HasConn(v)' <=> HasConn(v)
                         /\ HasClient(v)' <=> HasClient(v)
  BY <1>2 DEF HasConn, HasClient
<1>5. CASE NewClient
  <2>1. /\ accepted < Len(StreamLengths) /\ accepted' = accepted + 1
        /\ to_server' = <<accepted + 1>> /\ stopped' = stopped
        /\ accepted \in Nat /\ accepted + 1 \in Connections
    BY <1>1, <1>5, SenderFacts DEF NewClient, FrontType, Connections
  <2>2. FrontType' BY <1>1, <1>2, <2>1 DEF FrontType, Connections
  <2>3. client_of[accepted + 1] = None BY <1>1, <2>1 DEF ConnInv
  <2>4. ASSUME NEW v \in Workers, HasConn(v)
        PROVE  /\ worker[v].conn \in 1 .. accepted + 1
               /\ worker[v].conn # accepted + 1
    BY <1>1, <2>1, <2>4 DEF ConnInv
  <2>5. ConnInv'
    BY <1>1, <1>2, <1>4, <2>1, <2>3, <2>4 DEF ConnInv, Connections
  <2> QED BY <1>3, <2>2, <2>5 DEF WorkersInv
<1>6. CASE Stop
  <2>1. /\ accepted' = accepted /\ to_server' = <<None>> /\ stopped' = TRUE
    BY <1>6 DEF Stop
  <2>2. FrontType' BY <1>1, <1>2, <2>1 DEF FrontType
  <2>3. ASSUME NEW v \in Workers, HasConn(v)
        PROVE  worker[v].conn # None
    <3>1. worker[v].conn \in Connections
      BY <1>1, <2>3, SenderFacts DEF ConnInv, FrontType, Connections
    <3> QED BY <3>1, SenderFacts
  <2>4. ConnInv' BY <1>1, <1>2, <1>4, <2>1, <2>3 DEF ConnInv
  <2> QED BY <1>3, <2>2, <2>4 DEF WorkersInv
<1> QED BY <1>5, <1>6

LEMMA ServerRecvKeeps ==
  ASSUME WorkersInv, NEW w \in Workers, ServerRecv(w)
  PROVE  WorkersInv'
<1> DEFINE c == Head(to_server)
<1>1. /\ FrontType /\ ConnInv /\ ClientInv /\ PermitInv
      /\ \A v \in Workers : BufferInv(v)
  BY DEF WorkersInv
<1>2. /\ worker[w].pc = "recv" /\ to_server # <<>> /\ to_server' = <<>>
      /\ UNCHANGED <<accepted, stopped, multiplex_control, next_client_id,
                     unread, client_of, read_faults, heartbeats>>
  BY DEF ServerRecv
<1>3. /\ IF c = None THEN Becomes(w, "stopping", None, None, 0, N)
         ELSE Becomes(w, "wait", c, None, 0, 0)
      /\ c = None \/ (c \in Connections /\ to_server = <<c>>)
  BY <1>1, <1>2, Moves DEF FrontType
<1>4. /\ worker' \in [Workers -> State]
      /\ worker'[w].conn = c /\ worker'[w].cursor = 0
      /\ worker'[w].pc = IF c = None THEN "stopping" ELSE "wait"
      /\ c = None => worker'[w].nones = N
      /\ \A v \in Workers \ {w} : worker'[v] = worker[v]
  <2>1. 0 \in 0 .. BufferLen /\ N \in 0 .. N /\ 0 \in 0 .. N BY SenderFacts
  <2>2. CASE c = None BY <1>1, <1>3, <2>1, <2>2, BecomesFacts
  <2>3. CASE c # None
    <3>1. Becomes(w, "wait", c, None, 0, 0) BY <1>3, <2>3
    <3>2. c \in Connections BY <1>3, <2>3
    <3> QED BY <1>1, <2>1, <2>3, <3>1, <3>2, BecomesFacts
  <2> QED BY <2>2, <2>3
<1> HIDE DEF c
<1>5. FrontType' BY <1>1, <1>2, <1>4 DEF FrontType
<1>6. ~ Holds(worker[w].pc) /\ ~ Holds(worker'[w].pc)
  BY <1>2, <1>4 DEF Holds
<1>7. PermitInv' BY <1>1, <1>2, <1>4, <1>6, PermitStep DEF PermitInv
<1>8. CASE c = None
  <2>1. ~ HasConn(w)' BY <1>4, <1>8 DEF HasConn, HasClient
  <2>2. ASSUME NEW v \in Workers \ {w}
        PROVE  /\ worker'[v] = worker[v]
               /\ HasConn(v)' <=> HasConn(v)
               /\ HasClient(v)' <=> HasClient(v)
    BY <1>4 DEF HasConn, HasClient
  <2>3. ~ HasClient(w)' BY <2>1 DEF HasConn
  <2>4. ConnInv'
    <3>1. ASSUME NEW v \in Workers, HasConn(v)'
          PROVE  /\ v # w /\ HasConn(v) /\ worker'[v] = worker[v]
                 /\ HasClient(v)' <=> HasClient(v)
      BY <2>1, <2>2, <3>1
    <3>2. ASSUME NEW v \in Workers, HasConn(v)'
          PROVE  /\ worker'[v].conn \in 1 .. accepted'
                 /\ to_server' # <<worker'[v].conn>>
                 /\ client_of'[worker'[v].conn] =
                      IF worker'[v].pc = "wait" THEN None
                      ELSE worker'[v].client
      BY <1>1, <1>2, <3>1, <3>2 DEF ConnInv
    <3>3. ASSUME NEW v \in Workers, HasClient(v)'
          PROVE  worker'[v].client # None
      BY <1>1, <3>1, <3>3 DEF ConnInv, HasConn
    <3>4. ASSUME NEW u \in Workers, NEW v \in Workers, HasConn(u)',
                 HasConn(v)', worker'[u].conn = worker'[v].conn
          PROVE  u = v
      BY <1>1, <3>1, <3>4 DEF ConnInv
    <3> QED BY <1>1, <1>2, <3>2, <3>3, <3>4 DEF ConnInv
  <2>5. ClientInv' BY <1>1, <1>2 DEF ClientInv, Served
  <2>6. ASSUME NEW v \in Workers PROVE BufferInv(v)'
    <3>1. CASE v = w
      BY <1>4, <1>8, <3>1, SenderFacts DEF BufferInv
    <3>2. CASE v # w
      <4>1. worker'[v] = worker[v] /\ Read(v)' = Read(v)
        BY <1>2, <2>2, <3>2 DEF Read
      <4> QED BY <1>1, <1>2, <4>1 DEF BufferInv
    <3> QED BY <3>1, <3>2
  <2> QED BY <1>5, <1>7, <2>4, <2>5, <2>6 DEF WorkersInv
<1>9. CASE c # None
  <2>1. to_server = <<c>> /\ c \in Connections BY <1>3, <1>9
  <2>2. c = accepted /\ client_of[c] = None /\ c \in 1 .. accepted
    BY <1>1, <1>9, <2>1 DEF ConnInv, Connections
  <2>3. HasConn(w)' /\ ~ HasClient(w)'
    BY <1>4, <1>9 DEF HasConn, HasClient
  <2>4. ASSUME NEW v \in Workers \ {w}
        PROVE  /\ worker'[v] = worker[v]
               /\ HasConn(v)' <=> HasConn(v)
               /\ HasClient(v)' <=> HasClient(v)
               /\ HasConn(v) => worker[v].conn # c
    BY <1>1, <1>4, <2>1 DEF HasConn, HasClient, ConnInv
  <2>5. ConnInv'
    <3>1. ASSUME NEW v \in Workers, HasConn(v)'
          PROVE  /\ worker'[v].conn \in 1 .. accepted'
                 /\ to_server' # <<worker'[v].conn>>
                 /\ client_of'[worker'[v].conn] =
                      IF worker'[v].pc = "wait" THEN None
                      ELSE worker'[v].client
      BY <1>1, <1>2, <1>4, <1>9, <2>2, <2>4, <3>1 DEF ConnInv
    <3>2. ASSUME NEW v \in Workers, HasClient(v)'
          PROVE  worker'[v].client # None
      <4>1. v # w /\ HasClient(v) /\ worker'[v] = worker[v]
        BY <2>3, <2>4, <3>2
      <4> QED BY <1>1, <4>1 DEF ConnInv
    <3>3. ASSUME NEW u \in Workers, NEW v \in Workers, HasConn(u)',
                 HasConn(v)', worker'[u].conn = worker'[v].conn
          PROVE  u = v
      BY <1>1, <1>4, <2>4, <3>3 DEF ConnInv
    <3> QED BY <1>1, <1>2, <3>1, <3>2, <3>3 DEF ConnInv
  <2>6. ClientInv' BY <1>1, <1>2 DEF ClientInv, Served
  <2>7. ASSUME NEW v \in Workers PROVE BufferInv(v)'
    <3>1. CASE v = w BY <1>4, <1>9, <3>1 DEF BufferInv
    <3>2. CASE v # w
      <4>1. worker'[v] = worker[v] /\ Read(v)' = Read(v)
        BY <1>2, <2>4, <3>2 DEF Read
      <4> QED BY <1>1, <1>2, <4>1 DEF BufferInv
    <3> QED BY <3>1, <3>2
  <2> QED BY <1>5, <1>7, <2>5, <2>6, <2>7 DEF WorkersInv
<1> QED BY <1>8, <1>9

LEMMA ServerWaitKeeps ==
  ASSUME WorkersInv, NEW w \in Workers, ServerWait(w)
  PROVE  WorkersInv'
<1> DEFINE c == worker[w].conn
<1>1. /\ FrontType /\ ConnInv /\ ClientInv /\ PermitInv
      /\ \A v \in Workers : BufferInv(v)
  BY DEF WorkersInv
<1>2. /\ worker[w].pc = "wait" /\ multiplex_control > 0
      /\ multiplex_control' = multiplex_control - 1
      /\ next_client_id' = next_client_id + 1
      /\ client_of' = [client_of EXCEPT ![c] = next_client_id]
      /\ UNCHANGED <<to_server, accepted, stopped, unread, read_faults,
                     heartbeats>>
  BY DEF ServerWait
<1>3. HasConn(w) /\ ~ HasClient(w) BY <1>2 DEF HasConn, HasClient
<1>4. /\ c \in 1 .. accepted /\ c \in Connections /\ client_of[c] = None
      /\ to_server # <<c>> /\ accepted \in Nat
  BY <1>1, <1>2, <1>3 DEF ConnInv, FrontType, Connections
<1>5. Becomes(w, "start", c, next_client_id, worker[w].cursor, worker[w].nones)
  BY <1>1, Moves
<1> DEFINE cursor == worker[w].cursor
           nones == worker[w].nones
           id == next_client_id
<1>6. /\ worker' \in [Workers -> State]
      /\ worker'[w].pc = "start" /\ worker'[w].conn = c
      /\ worker'[w].client = next_client_id
      /\ worker'[w].cursor = worker[w].cursor
      /\ \A v \in Workers \ {w} : worker'[v] = worker[v]
  <2>1. id \in ClientId \cup {None} BY <1>1 DEF FrontType
  <2>2. cursor \in 0 .. BufferLen /\ nones \in 0 .. N BY <1>1, WorkerFacts
  <2>3. c \in Connections \cup {None} BY <1>4
  <2>4. Becomes(w, "start", c, id, cursor, nones) BY <1>5
  <2> HIDE DEF c, cursor, nones, id
  <2>5. /\ worker' \in [Workers -> State]
        /\ worker'[w].pc = "start" /\ worker'[w].conn = c
        /\ worker'[w].client = id /\ worker'[w].cursor = cursor
        /\ \A v \in Workers \ {w} : worker'[v] = worker[v]
    BY <1>1, <2>1, <2>2, <2>3, <2>4, BecomesFacts
  <2> QED BY <2>5 DEF id, cursor
<1> HIDE DEF c
<1>7. next_client_id \in ClientId /\ next_client_id \in Nat
  BY <1>1 DEF FrontType, ClientId
<1>8. /\ Cardinality(Served') = Cardinality(Served) + 1
      /\ Cardinality(Served') <= Len(StreamLengths)
      /\ Served' = Served \cup {c}
  BY <1>1, <1>2, <1>4, <1>7, ServedStep
<1>9. next_client_id' \in ClientId
  BY <1>1, <1>2, <1>7, <1>8 DEF ClientInv, ClientId
<1>10. /\ client_of'[c] = next_client_id
       /\ \A d \in Connections \ {c} : client_of'[d] = client_of[d]
       /\ client_of' \in [Connections -> ClientId \cup {None}]
  BY <1>1, <1>2, <1>4, <1>7 DEF FrontType
<1>11. /\ Cardinality(Holders') = Cardinality(Holders) + 1
       /\ Cardinality(Holders') \in 0 .. MaxClients
       /\ MaxClients \in Nat /\ Cardinality(Holders) \in 0 .. MaxClients
  <2>1. ~ Holds(worker[w].pc) /\ Holds(worker'[w].pc)
    BY <1>2, <1>6 DEF Holds
  <2> QED BY <1>6, <2>1, PermitStep
<1>12. PermitInv' /\ multiplex_control' \in 0 .. MaxClients
  BY <1>1, <1>2, <1>11 DEF PermitInv
<1>13. FrontType' BY <1>1, <1>2, <1>6, <1>9, <1>10, <1>12 DEF FrontType
<1>14. /\ HasConn(w)' /\ HasClient(w)'
       /\ \A v \in Workers \ {w} : /\ HasConn(v)' <=> HasConn(v)
                                   /\ HasClient(v)' <=> HasClient(v)
  BY <1>6 DEF HasConn, HasClient
<1>15. \A v \in Workers \ {w} : HasConn(v) => worker[v].conn # c
  BY <1>1, <1>3 DEF ConnInv, c
<1>16. ConnInv'
  <2>1. ASSUME NEW v \in Workers, HasConn(v)'
        PROVE  /\ worker'[v].conn \in 1 .. accepted'
               /\ to_server' # <<worker'[v].conn>>
               /\ client_of'[worker'[v].conn] =
                    IF worker'[v].pc = "wait" THEN None ELSE worker'[v].client
    <3>1. CASE v = w BY <1>2, <1>4, <1>6, <1>10, <3>1
    <3>2. CASE v # w
      <4>1. HasConn(v) /\ worker'[v] = worker[v] /\ worker[v].conn # c
        BY <1>6, <1>14, <1>15, <2>1, <3>2
      <4>2. worker[v].conn \in Connections
        BY <1>1, <4>1 DEF ConnInv, FrontType, Connections
      <4> QED BY <1>1, <1>2, <1>10, <4>1, <4>2 DEF ConnInv
    <3> QED BY <3>1, <3>2
  <2>2. ASSUME NEW v \in Workers, HasClient(v)'
        PROVE  worker'[v].client # None
    <3>1. CASE v = w BY <1>6, <1>7, <3>1, SenderFacts
    <3>2. CASE v # w
      <4>1. HasClient(v) /\ worker'[v] = worker[v]
        BY <1>6, <1>14, <2>2, <3>2
      <4> QED BY <1>1, <4>1 DEF ConnInv
    <3> QED BY <3>1, <3>2
  <2>3. ASSUME NEW u \in Workers, NEW v \in Workers, HasConn(u)', HasConn(v)',
               worker'[u].conn = worker'[v].conn
        PROVE  u = v
    <3>1. \A x \in Workers : HasConn(x)' =>
            HasConn(x) /\ worker'[x].conn = worker[x].conn
      BY <1>3, <1>6, <1>14 DEF c
    <3> QED BY <1>1, <2>3, <3>1 DEF ConnInv
  <2>4. ASSUME to_server' # <<>>, to_server' # <<None>>
        PROVE  to_server' = <<accepted'>> /\ client_of'[accepted'] = None
    <3>1. to_server = <<accepted>> /\ client_of[accepted] = None
      BY <1>1, <1>2, <2>4 DEF ConnInv
    <3>2. accepted # c BY <1>4, <3>1
    <3>3. accepted \in Connections
      BY <1>1, <1>4 DEF FrontType, Connections
    <3> QED BY <1>2, <1>10, <3>1, <3>2, <3>3
  <2>5. ASSUME NEW d \in Connections, d > accepted'
        PROVE  client_of'[d] = None
    <3>1. d # c BY <1>2, <1>4, <2>5 DEF Connections
    <3> QED BY <1>1, <1>2, <1>10, <2>5, <3>1 DEF ConnInv
  <2>6. ASSUME NEW d \in Connections, client_of'[d] = None
        PROVE  unread'[d] = StreamLengths[d]
    <3>1. d # c BY <1>7, <1>10, <2>6, SenderFacts
    <3> QED BY <1>1, <1>2, <1>10, <2>6, <3>1 DEF ConnInv
  <2> QED BY <2>1, <2>2, <2>3, <2>4, <2>5, <2>6 DEF ConnInv
<1>17. ClientInv'
  <2>1. \A d \in Served : /\ client_of'[d] = client_of[d] /\ d # c
                          /\ client_of[d] \in Nat
    BY <1>1, <1>4, <1>10 DEF Served, FrontType, ClientId
  <2>2. next_client_id' = Cardinality(Served') BY <1>1, <1>2, <1>8 DEF ClientInv
  <2>3. \A d \in Served' : client_of'[d] < next_client_id'
    BY <1>1, <1>2, <1>7, <1>8, <1>10, <2>1 DEF ClientInv
  <2>4. ASSUME NEW d \in Served', NEW e \in Served',
               client_of'[d] = client_of'[e]
        PROVE  d = e
    <3>1. \A x \in Served : client_of'[x] # next_client_id
      BY <1>1, <1>7, <2>1 DEF ClientInv
    <3>2. \A x, y \in Served : client_of'[x] = client_of'[y] => x = y
      BY <1>1, <2>1 DEF ClientInv
    <3> QED BY <1>8, <1>10, <2>4, <3>1, <3>2
  <2> QED BY <2>2, <2>3, <2>4 DEF ClientInv
<1>18. ASSUME NEW v \in Workers PROVE BufferInv(v)'
  <2>1. CASE v = w
    <3>1. worker[w].cursor = 0 BY <1>1, <1>2 DEF BufferInv
    <3> QED BY <1>6, <2>1, <3>1 DEF BufferInv
  <2>2. CASE v # w
    <3>1. worker'[v] = worker[v] /\ Read(v)' = Read(v)
      BY <1>2, <1>6, <2>2 DEF Read
    <3> QED BY <1>1, <1>2, <3>1 DEF BufferInv
  <2> QED BY <2>1, <2>2
<1> QED BY <1>12, <1>13, <1>16, <1>17, <1>18 DEF WorkersInv

(* A step of one worker that neither takes a connection nor a permit.      *)
LEMMA WorkerKeeps ==
  ASSUME WorkersInv, NEW w \in Workers, worker' \in [Workers -> State],
         \A v \in Workers \ {w} : worker'[v] = worker[v],
         UNCHANGED <<to_server, accepted, stopped, client_of, next_client_id,
                     heartbeats>>,
         read_faults' \in 0 .. MaxReadFaults,
         \/ unread' = unread
         \/ /\ HasClient(w) /\ unread' \in [Connections -> Nat]
            /\ \A c \in Connections : unread'[c] <= StreamLengths[c]
            /\ \A c \in Connections \ {worker[w].conn} :
                 unread'[c] = unread[c],
         \/ ~ HasConn(w)'
         \/ /\ HasClient(w) /\ HasClient(w)'
            /\ worker'[w].conn = worker[w].conn
            /\ worker'[w].client = worker[w].client,
         Holds(worker'[w].pc) => Holds(worker[w].pc),
         multiplex_control' =
           IF Holds(worker[w].pc) /\ ~ Holds(worker'[w].pc)
           THEN multiplex_control + 1 ELSE multiplex_control,
         BufferInv(w)'
  PROVE  WorkersInv'
<1>1. FrontType /\ PermitInv BY DEF WorkersInv
<1>2. ConnInv' /\ ClientInv' /\ \A v \in Workers \ {w} : BufferInv(v)'
  BY ConnKept
<1>3. PermitInv' /\ multiplex_control' \in 0 .. MaxClients
  <2>1. /\ Cardinality(Holders) \in 0 .. MaxClients
        /\ Cardinality(Holders') \in 0 .. MaxClients /\ MaxClients \in Nat
    BY PermitStep
  <2>2. CASE Holds(worker[w].pc) /\ ~ Holds(worker'[w].pc)
    <3>1. Cardinality(Holders') = Cardinality(Holders) - 1
      BY <2>2, PermitStep
    <3> QED BY <1>1, <2>1, <2>2, <3>1 DEF PermitInv
  <2>3. CASE ~ (Holds(worker[w].pc) /\ ~ Holds(worker'[w].pc))
    <3>1. Holders' = Holders
      <4>1. Holds(worker'[w].pc) <=> Holds(worker[w].pc) BY <2>3
      <4> QED BY <4>1, PermitStep
    <3> QED BY <1>1, <2>1, <2>3, <3>1 DEF PermitInv
  <2> QED BY <2>2, <2>3
<1>4. FrontType'
  <2>1. /\ unread' \in [Connections -> Nat]
        /\ \A c \in Connections : unread'[c] <= StreamLengths[c]
    BY <1>1 DEF FrontType
  <2> QED BY <1>1, <1>3, <2>1 DEF FrontType
<1> QED BY <1>2, <1>3, <1>4 DEF WorkersInv

(* A worker that keeps its connection and its client, and one that goes    *)
(* back to wait for a connection.                                          *)
LEMMA Goes ==
  ASSUME FrontType, NEW w \in Workers,
         NEW pc \in {"recv", "wait", "start", "read", "data", "end", "signal",
                     "signal_error", "abort", "stopping", "done"},
         NEW cursor \in 0 .. BufferLen, NEW nones \in 0 .. N,
         Becomes(w, pc, worker[w].conn, worker[w].client, cursor, nones)
  PROVE  /\ worker' \in [Workers -> State]
         /\ worker'[w].pc = pc /\ worker'[w].conn = worker[w].conn
         /\ worker'[w].client = worker[w].client
         /\ worker'[w].cursor = cursor /\ worker'[w].nones = nones
         /\ \A v \in Workers \ {w} : worker'[v] = worker[v]
<1> DEFINE conn == worker[w].conn
           client == worker[w].client
<1>1. conn \in Connections \cup {None} /\ client \in ClientId \cup {None}
  BY WorkerFacts
<1>2. Becomes(w, pc, conn, client, cursor, nones) OBVIOUS
<1> HIDE DEF conn, client
<1>3. /\ worker' \in [Workers -> State]
      /\ worker'[w].pc = pc /\ worker'[w].conn = conn
      /\ worker'[w].client = client
      /\ worker'[w].cursor = cursor /\ worker'[w].nones = nones
      /\ \A v \in Workers \ {w} : worker'[v] = worker[v]
  BY <1>1, <1>2, BecomesFacts
<1> QED BY <1>3 DEF conn, client

LEMMA Returns ==
  ASSUME FrontType, NEW w \in Workers, Becomes(w, "recv", None, None, 0, 0)
  PROVE  /\ worker' \in [Workers -> State] /\ worker'[w].pc = "recv"
         /\ \A v \in Workers \ {w} : worker'[v] = worker[v]
<1>1. 0 \in 0 .. BufferLen /\ 0 \in 0 .. N BY SenderFacts
<1> QED BY <1>1, BecomesFacts

LEMMA ClientKeeps ==
  ASSUME WorkersInv, NEW w \in Workers,
         ClientStart(w) \/ ClientReadFail(w) \/ ClientSend(w)
  PROVE  WorkersInv'
<1> DEFINE pc == IF worker[w].pc = "start" THEN "read"
                 ELSE IF worker[w].pc = "read" THEN "signal_error"
                 ELSE IF worker[w].pc = "end" THEN "signal" ELSE "read"
           cursor == IF worker[w].pc \in {"start", "read"}
                     THEN worker[w].cursor ELSE 0
           nones == worker[w].nones
<1>1. /\ FrontType /\ ConnInv /\ \A v \in Workers : BufferInv(v)
  BY DEF WorkersInv
<1>2. /\ worker[w].pc \in {"start", "read", "data", "end"}
      /\ UNCHANGED <<to_server, accepted, stopped, client_of, next_client_id,
                     heartbeats, unread, multiplex_control>>
      /\ read_faults' \in 0 .. MaxReadFaults
  <2>1. read_faults \in 0 .. MaxReadFaults /\ MaxReadFaults \in Nat
    BY <1>1, SenderFacts DEF FrontType
  <2>2. CASE ClientStart(w) BY <2>1, <2>2 DEF ClientStart
  <2>3. CASE ClientReadFail(w)
    <3>1. read_faults' = read_faults + 1 /\ read_faults < MaxReadFaults
      BY <2>3 DEF ClientReadFail
    <3> QED BY <2>1, <2>3, <3>1 DEF ClientReadFail
  <2>4. CASE ClientSend(w) BY <2>1, <2>4 DEF ClientSend
  <2> QED BY <2>2, <2>3, <2>4
<1>3. Becomes(w, pc, worker[w].conn, worker[w].client, cursor, nones)
  <2>1. CASE ClientStart(w)
    BY <1>1, <2>1, Moves DEF ClientStart
  <2>2. CASE ClientReadFail(w)
    BY <1>1, <2>2, Moves DEF ClientReadFail
  <2>3. CASE ClientSend(w)
    BY <1>1, <2>3, Moves DEF ClientSend
  <2> QED BY <2>1, <2>2, <2>3
<1>4. /\ pc \in {"read", "signal", "signal_error"}
      /\ cursor \in 0 .. BufferLen /\ nones \in 0 .. N
  <2>1. 0 \in 0 .. BufferLen BY SenderFacts
  <2> QED BY <1>1, <2>1, WorkerFacts
<1>5. /\ worker[w].pc = "start" => cursor = 0
      /\ pc = "read" => cursor <= Read(w)
  <2>1. HasConn(w) BY <1>2 DEF HasConn, HasClient
  <2>2. worker[w].conn \in Connections
    BY <1>1, <2>1 DEF ConnInv, FrontType, Connections
  <2>3. Read(w) \in Nat
    BY <1>1, <2>2, SenderFacts DEF Read, FrontType
  <2>4. worker[w].pc = "start" => worker[w].cursor = 0
    BY <1>1 DEF BufferInv
  <2> QED BY <2>3, <2>4
<1> HIDE DEF pc, cursor, nones
<1>6. /\ worker' \in [Workers -> State]
      /\ worker'[w].pc = pc /\ worker'[w].conn = worker[w].conn
      /\ worker'[w].client = worker[w].client /\ worker'[w].cursor = cursor
      /\ \A v \in Workers \ {w} : worker'[v] = worker[v]
  BY <1>1, <1>3, <1>4, Goes
<1>7. Read(w)' = Read(w) BY <1>2, <1>6 DEF Read
<1>8. BufferInv(w)' BY <1>4, <1>5, <1>6, <1>7 DEF BufferInv
<1>9. /\ Holds(worker[w].pc) /\ Holds(worker'[w].pc)
      /\ HasClient(w) /\ HasClient(w)'
  BY <1>2, <1>4, <1>6 DEF Holds, HasClient
<1> QED BY <1>2, <1>6, <1>8, <1>9, WorkerKeeps

LEMMA ClientReadKeeps ==
  ASSUME WorkersInv, NEW w \in Workers, ClientRead(w)
  PROVE  WorkersInv'
<1> DEFINE c == worker[w].conn
           nones == worker[w].nones
<1>1. /\ FrontType /\ ConnInv /\ \A v \in Workers : BufferInv(v)
  BY DEF WorkersInv
<1>2. /\ worker[w].pc = "read"
      /\ UNCHANGED <<to_server, accepted, stopped, client_of, next_client_id,
                     heartbeats, read_faults, multiplex_control>>
  BY DEF ClientRead
<1>3. HasClient(w) /\ HasConn(w) /\ c \in Connections
  <2>1. HasClient(w) /\ HasConn(w) BY <1>2 DEF HasConn, HasClient
  <2> QED BY <1>1, <2>1 DEF ConnInv, FrontType, Connections
<1>4. PICK read \in 0 .. BufferLen - worker[w].cursor :
        /\ read <= unread[c]
        /\ read = 0 <=> unread[c] = 0
        /\ unread' = [unread EXCEPT ![c] = @ - read]
        /\ Becomes(w, IF read = 0 THEN "end"
                      ELSE IF BlockIsDue(worker[w].cursor + read) THEN "data"
                      ELSE "read",
                   c, worker[w].client, worker[w].cursor + read, nones)
  BY <1>1, Moves
<1> DEFINE cursor == worker[w].cursor + read
           pc == IF read = 0 THEN "end"
                 ELSE IF BlockIsDue(cursor) THEN "data" ELSE "read"
<1>5. /\ cursor \in 0 .. BufferLen /\ nones \in 0 .. N
      /\ worker[w].cursor \in Nat /\ read \in Nat
  <2>1. /\ worker[w].cursor \in 0 .. BufferLen /\ nones \in 0 .. N
        /\ BufferLen \in Nat
    BY <1>1, WorkerFacts, SenderFacts
  <2> QED BY <2>1
<1>6. /\ unread' \in [Connections -> Nat]
      /\ unread'[c] = unread[c] - read /\ unread[c] \in Nat
      /\ \A d \in Connections : unread'[d] <= StreamLengths[d]
      /\ \A d \in Connections \ {c} : unread'[d] = unread[d]
  <2>1. /\ unread \in [Connections -> Nat]
        /\ \A d \in Connections : unread[d] <= StreamLengths[d]
    BY <1>1 DEF FrontType
  <2>2. unread[c] \in Nat /\ unread[c] - read \in Nat
    BY <1>3, <1>4, <1>5, <2>1
  <2>3. /\ unread' \in [Connections -> Nat]
        /\ unread'[c] = unread[c] - read
        /\ \A d \in Connections \ {c} : unread'[d] = unread[d]
    BY <1>3, <1>4, <2>1, <2>2
  <2>4. \A d \in Connections : unread'[d] <= StreamLengths[d]
    <3>1. \A d \in Connections : unread'[d] <= unread[d]
      BY <1>5, <2>2, <2>3
    <3>2. \A d \in Connections : /\ unread'[d] \in Nat /\ unread[d] \in Nat
                                 /\ StreamLengths[d] \in Nat
      BY <2>1, <2>3, SenderFacts
    <3> QED BY <2>1, <3>1, <3>2
  <2> QED BY <2>2, <2>3, <2>4
<1>7. worker[w].cursor <= Read(w) BY <1>1, <1>2 DEF BufferInv
<1>8. /\ pc \in {"read", "data", "end"}
      /\ pc = "end" => unread[c] - read = 0
      /\ pc = "data" /\ ~ Flush => cursor = BufferLen
  <2>1. pc \in {"read", "data", "end"} OBVIOUS
  <2>2. pc = "end" => unread[c] - read = 0 BY <1>4, <1>6
  <2>3. pc = "data" /\ ~ Flush => cursor = BufferLen
    BY <1>5, SenderFacts DEF BlockIsDue
  <2> QED BY <2>1, <2>2, <2>3
<1>9. Becomes(w, pc, c, worker[w].client, cursor, nones) BY <1>4
<1> HIDE DEF pc
<1>10. /\ worker' \in [Workers -> State]
       /\ worker'[w].pc = pc /\ worker'[w].conn = c
       /\ worker'[w].client = worker[w].client /\ worker'[w].cursor = cursor
       /\ \A v \in Workers \ {w} : worker'[v] = worker[v]
  <2> HIDE DEF cursor, nones
  <2> QED BY <1>1, <1>5, <1>8, <1>9, Goes
<1>11. cursor <= Read(w)'
  <2>1. StreamLengths[c] \in Nat BY <1>3, SenderFacts
  <2> QED BY <1>5, <1>6, <1>7, <1>10, <2>1 DEF Read
<1>12. BufferInv(w)' BY <1>6, <1>8, <1>10, <1>11 DEF BufferInv
<1>13. /\ Holds(worker[w].pc) /\ Holds(worker'[w].pc) /\ HasClient(w)'
  BY <1>2, <1>8, <1>10 DEF Holds, HasClient
<1>14. read_faults' \in 0 .. MaxReadFaults BY <1>1, <1>2 DEF FrontType
<1> QED BY <1>2, <1>3, <1>6, <1>10, <1>12, <1>13, <1>14, WorkerKeeps

LEMMA ServerKeeps ==
  ASSUME WorkersInv, NEW w \in Workers,
         ServerSendNone(w) \/ ServerSignal(w) \/ ServerAbort(w)
  PROVE  WorkersInv'
<1>1. /\ FrontType /\ ConnInv /\ \A v \in Workers : BufferInv(v)
  BY DEF WorkersInv
<1>2. /\ UNCHANGED <<to_server, accepted, stopped, client_of, next_client_id,
                     heartbeats, unread, read_faults>>
      /\ read_faults' \in 0 .. MaxReadFaults
  BY <1>1 DEF ServerSendNone, ServerSignal, ServerAbort, FrontType
<1>3. CASE ServerSendNone(w)
  <2> DEFINE x == worker[w]
             pc == IF x.nones = 1 THEN "done" ELSE "stopping"
             nones == x.nones - 1
  <2>1. x.pc = "stopping" /\ multiplex_control' = multiplex_control
    BY <1>3 DEF ServerSendNone
  <2>2. x.nones > 0 /\ x.nones \in 0 .. N /\ x.cursor \in 0 .. BufferLen
    BY <1>1, <2>1, WorkerFacts DEF BufferInv
  <2>3. nones \in 0 .. N /\ pc \in {"done", "stopping"}
    BY <2>2, SenderFacts
  <2>4. Becomes(w, pc, x.conn, x.client, x.cursor, nones)
    BY <1>1, <1>3, <2>1, Moves
  <2>5. pc = "stopping" => nones > 0 BY <2>2
  <2> HIDE DEF pc, nones
  <2>6. /\ worker' \in [Workers -> State] /\ worker'[w].pc = pc
        /\ worker'[w].nones = nones
        /\ \A v \in Workers \ {w} : worker'[v] = worker[v]
    BY <1>1, <2>2, <2>3, <2>4, Goes
  <2>7. BufferInv(w)' BY <2>3, <2>5, <2>6 DEF BufferInv
  <2>8. ~ Holds(x.pc) /\ ~ Holds(worker'[w].pc) /\ ~ HasConn(w)'
    BY <2>1, <2>3, <2>6 DEF Holds, HasConn, HasClient
  <2> QED BY <1>2, <2>1, <2>6, <2>7, <2>8, WorkerKeeps
<1>4. ASSUME Becomes(w, "recv", None, None, 0, 0),
             worker[w].pc \in {"signal", "abort"},
             multiplex_control' = IF worker[w].pc = "signal"
                                  THEN multiplex_control + 1
                                  ELSE multiplex_control
      PROVE  WorkersInv'
  <2>1. /\ worker' \in [Workers -> State] /\ worker'[w].pc = "recv"
        /\ \A v \in Workers \ {w} : worker'[v] = worker[v]
    BY <1>1, <1>4, Returns
  <2>2. BufferInv(w)' BY <2>1 DEF BufferInv
  <2>3. /\ Holds(worker[w].pc) <=> worker[w].pc = "signal"
        /\ ~ Holds(worker'[w].pc) /\ ~ HasConn(w)'
    BY <1>4, <2>1 DEF Holds, HasConn, HasClient
  <2> QED BY <1>2, <1>4, <2>1, <2>2, <2>3, WorkerKeeps
<1>5. CASE ServerAbort(w) BY <1>1, <1>4, <1>5, Moves DEF ServerAbort
<1>6. CASE ServerSignal(w) /\ worker[w].pc = "signal"
  BY <1>1, <1>4, <1>6, Moves DEF ServerSignal
<1>7. CASE ServerSignal(w) /\ worker[w].pc # "signal"
  <2> DEFINE x == worker[w]
  <2>1. /\ x.pc = "signal_error"
        /\ multiplex_control' = multiplex_control + 1
    BY <1>7 DEF ServerSignal
  <2>2. Becomes(w, "abort", x.conn, x.client, x.cursor, x.nones)
    BY <1>1, <1>7, Moves
  <2>3. x.nones \in 0 .. N /\ x.cursor \in 0 .. BufferLen
    BY <1>1, WorkerFacts
  <2>4. /\ worker' \in [Workers -> State] /\ worker'[w].pc = "abort"
        /\ worker'[w].conn = x.conn /\ worker'[w].client = x.client
        /\ \A v \in Workers \ {w} : worker'[v] = worker[v]
    BY <1>1, <2>2, <2>3, Goes
  <2>5. BufferInv(w)' BY <2>4 DEF BufferInv
  <2>6. /\ Holds(x.pc) /\ ~ Holds(worker'[w].pc)
        /\ HasClient(w) /\ HasClient(w)'
    BY <2>1, <2>4 DEF Holds, HasClient
  <2> QED BY <1>2, <2>1, <2>4, <2>5, <2>6, WorkerKeeps
<1> QED BY <1>3, <1>5, <1>6, <1>7

(* Every step of Sender keeps the invariant of the front end.              *)
LEMMA WorkersStep ==
  ASSUME WorkersInv, [SenderNext]_senderVars
  PROVE  WorkersInv'
<1>1. CASE NewClient \/ Stop BY <1>1, ListenerKeeps
<1>2. ASSUME NEW w \in Workers, WorkerStep(w) PROVE WorkersInv'
  <2>1. CASE ServerRecv(w) BY <2>1, ServerRecvKeeps
  <2>2. CASE ServerWait(w) BY <2>2, ServerWaitKeeps
  <2>3. CASE ClientRead(w) BY <2>3, ClientReadKeeps
  <2>4. CASE ClientStart(w) \/ ClientReadFail(w) \/ ClientSend(w)
    BY <2>4, ClientKeeps
  <2>5. CASE ServerSendNone(w) \/ ServerSignal(w) \/ ServerAbort(w)
    BY <2>5, ServerKeeps
  <2> QED BY <1>2, <2>1, <2>2, <2>3, <2>4, <2>5 DEF WorkerStep
<1>3. ASSUME UNCHANGED <<to_server, accepted, stopped, multiplex_control,
                         next_client_id, worker, unread, client_of,
                         read_faults>>,
             heartbeats' \in 0 .. Heartbeats
      PROVE  WorkersInv'
  <2>1. /\ FrontType /\ ConnInv /\ ClientInv /\ PermitInv
        /\ \A v \in Workers : BufferInv(v)
    BY DEF WorkersInv
  <2>2. FrontType' BY <1>3, <2>1 DEF FrontType
  <2>3. \A v \in Workers : /\ HasConn(v)' <=> HasConn(v)
                           /\ HasClient(v)' <=> HasClient(v)
                           /\ Read(v)' = Read(v)
    BY <1>3 DEF HasConn, HasClient, Read
  <2>4. ConnInv' BY <1>3, <2>1, <2>3 DEF ConnInv
  <2>5. ClientInv' /\ PermitInv'
    BY <1>3, <2>1 DEF ClientInv, Served, PermitInv, Holders
  <2>6. \A v \in Workers : BufferInv(v)' BY <1>3, <2>1, <2>3 DEF BufferInv
  <2> QED BY <2>2, <2>4, <2>5, <2>6 DEF WorkersInv
<1>4. heartbeats \in 0 .. Heartbeats /\ Heartbeats \in Nat
  BY SenderFacts DEF WorkersInv, FrontType
<1>5. CASE Heartbeat
  <2>1. heartbeats' = heartbeats + 1 /\ heartbeats < Heartbeats
    BY <1>5 DEF Heartbeat
  <2>2. heartbeats' \in 0 .. Heartbeats BY <1>4, <2>1
  <2> QED BY <1>3, <1>5, <2>2 DEF Heartbeat
<1>6. CASE PipelineStep \/ UNCHANGED senderVars
  BY <1>3, <1>4, <1>6 DEF PipelineStep, frontVars, senderVars
<1> QED BY <1>1, <1>2, <1>5, <1>6 DEF SenderNext

LEMMA WorkersCorrect == SenderSpec => []WorkersInv
BY WorkersInit, WorkersStep, PTL DEF SenderSpec

(* A worker that has received a connection finds a permit                  *)
(* (send/server.rs), whatever fails.                                       *)
THEOREM PermitAvailableCorrect == SenderSpec => []PermitAvailable
<1>1. WorkersInv => PermitAvailable
  <2> SUFFICES ASSUME WorkersInv, NEW w \in Workers, worker[w].pc = "wait"
               PROVE  multiplex_control > 0
    BY DEF PermitAvailable
  <2>1. w \in Workers \ Holders /\ Holders \subseteq Workers BY DEF Holders
  <2>2. /\ IsFiniteSet(Workers) /\ IsFiniteSet(Holders)
        /\ Cardinality(Holders) \in Nat /\ MaxClients \in Nat
    BY <2>1, SenderAssumption, FS_Subset, FS_CardinalityType, SenderFacts
  <2>3. Cardinality(Holders) < MaxClients
    <3>1. Cardinality(Holders) <= MaxClients
      BY <2>1, <2>2, FS_Subset DEF MaxClients
    <3>2. Cardinality(Holders) # MaxClients
      BY <2>1, <2>2, FS_Subset DEF MaxClients
    <3> QED BY <2>2, <3>1, <3>2
  <2> QED BY <2>2, <2>3 DEF WorkersInv, PermitInv
<1> QED BY <1>1, WorkersCorrect, PTL
-----------------------------------------------------------------------------
(* A message that a worker or the heartbeat submits is a step of the       *)
(* pipeline.                                                               *)
LEMMA SubmitStep ==
  ASSUME NEW m \in Block \cup {None}, SubmitTo(m), UNCHANGED restOfPipeline
  PROVE  Submit
BY DEF Submit, restOfPipeline, orderingVars, udpVars

LEMMA DueBlockIsBlock ==
  ASSUME WorkersInv, NEW w \in Workers, worker[w].pc \in {"data", "end"}
  PROVE  DueBlock(w) \in Block
<1> DEFINE c == worker[w].conn
           cursor == worker[w].cursor
<1>1. FrontType /\ ConnInv /\ BufferInv(w) BY DEF WorkersInv
<1>2. HasClient(w) /\ HasConn(w) BY DEF HasConn, HasClient
<1>3. c \in Connections /\ worker[w].client \in ClientId
  <2>1. worker[w].client \in ClientId
    BY <1>1, <1>2, WorkerFacts DEF ConnInv
  <2> QED BY <1>1, <1>2, <2>1 DEF ConnInv, FrontType, Connections
<1>4. /\ cursor \in 0 .. BufferLen /\ cursor <= StreamLengths[c] - unread[c]
      /\ unread[c] \in Nat /\ StreamLengths[c] \in Nat
  BY <1>1, <1>3, WorkerFacts, SenderFacts DEF BufferInv, Read, FrontType
<1> HIDE DEF c, cursor
<1>5. StreamLengths[c] - unread[c] - cursor \in 0 .. StreamLengths[c]
  BY <1>4, SenderFacts
<1>6. StreamLengths[c] - unread[c] - cursor \in Offsets
  BY <1>3, <1>5, SenderFacts
<1>7. DueBlock(w) = [type |-> worker[w].pc, client |-> worker[w].client,
                     off |-> StreamLengths[c] - unread[c] - cursor,
                     len |-> cursor]
  BY DEF DueBlock, BufferedBlock, c, cursor
<1> QED BY <1>3, <1>4, <1>6, <1>7, BlockAssumption DEF ProtocolBlock

(* Every message is a block or None.                                       *)
LEMMA SubmitsBlocks ==
  ASSUME WorkersInv
  PROVE  /\ \A w \in Workers :
              /\ ClientStart(w) => EmptyBlock("start", worker[w].client) \in Block
              /\ ClientSend(w) => DueBlock(w) \in Block
              /\ ServerAbort(w) => EmptyBlock("abort", worker[w].client) \in Block
         /\ EmptyBlock("heartbeat", 0) \in Block
<1>1. FrontType /\ ConnInv BY DEF WorkersInv
<1>2. 0 \in ClientId BY SenderFacts DEF ClientId
<1>3. ASSUME NEW w \in Workers, ClientStart(w) \/ ServerAbort(w)
      PROVE  worker[w].client \in ClientId
  <2>1. HasClient(w) BY <1>3 DEF HasClient, ClientStart, ServerAbort
  <2> QED BY <1>1, <2>1, WorkerFacts DEF ConnInv
<1>4. ASSUME NEW w \in Workers, ClientSend(w) PROVE DueBlock(w) \in Block
  BY <1>4, DueBlockIsBlock DEF ClientSend
<1> QED BY <1>2, <1>3, <1>4, BlockFacts

LEMMA StepOfPipeline ==
  ASSUME WorkersInv, [SenderNext]_senderVars
  PROVE  [Next]_pipelineVars
<1>1. CASE NewClient \/ Stop BY <1>1 DEF NewClient, Stop
<1>2. CASE Heartbeat
  <2>1. SubmitTo(EmptyBlock("heartbeat", 0)) /\ UNCHANGED restOfPipeline
    BY <1>2 DEF Heartbeat
  <2> QED BY <2>1, SubmitsBlocks, SubmitStep DEF Next
<1>3. CASE PipelineStep BY <1>3 DEF PipelineStep, Next
<1>4. CASE UNCHANGED senderVars BY <1>4 DEF senderVars
<1>5. ASSUME NEW w \in Workers, WorkerStep(w) PROVE [Next]_pipelineVars
  <2>1. CASE ServerRecv(w) \/ ServerWait(w) \/ ClientRead(w)
              \/ ClientReadFail(w) \/ ServerSignal(w)
    BY <2>1 DEF ServerRecv, ServerWait, ClientRead, ClientReadFail,
                ServerSignal
  <2>2. CASE ServerSendNone(w)
    <3>1. SubmitTo(None) /\ UNCHANGED restOfPipeline
      BY <2>2 DEF ServerSendNone
    <3> QED BY <3>1, SubmitStep DEF Next
  <2>3. CASE ClientStart(w)
    <3>1. /\ SubmitTo(EmptyBlock("start", worker[w].client))
          /\ UNCHANGED restOfPipeline
      BY <2>3 DEF ClientStart
    <3> QED BY <2>3, <3>1, SubmitsBlocks, SubmitStep DEF Next
  <2>4. CASE ClientSend(w)
    <3>1. SubmitTo(DueBlock(w)) /\ UNCHANGED restOfPipeline
      BY <2>4 DEF ClientSend
    <3> QED BY <2>4, <3>1, SubmitsBlocks, SubmitStep DEF Next
  <2>5. CASE ServerAbort(w)
    <3>1. /\ SubmitTo(EmptyBlock("abort", worker[w].client))
          /\ UNCHANGED restOfPipeline
      BY <2>5 DEF ServerAbort
    <3> QED BY <2>5, <3>1, SubmitsBlocks, SubmitStep DEF Next
  <2> QED BY <1>5, <2>1, <2>2, <2>3, <2>4, <2>5 DEF WorkerStep
<1> QED BY <1>1, <1>2, <1>3, <1>4, <1>5 DEF SenderNext

(* The front end uses the pipeline as SendPipeline describes it: whatever  *)
(* the clients do, what holds of the pipeline holds in the sender.         *)
THEOREM SenderImplementsPipeline == SenderSpec => Spec
<1>1. SenderInit => Init BY DEF SenderInit
<1>2. WorkersInv /\ [SenderNext]_senderVars => [Next]_pipelineVars
  BY StepOfPipeline
<1> QED BY <1>1, <1>2, WorkersCorrect, PTL DEF SenderSpec, Spec

-----------------------------------------------------------------------------
(* The blocks in the order in which the ordering worker gets them.         *)
LEMMA SubmittedType ==
  ASSUME TypeInv
  PROVE  /\ Submitted \in Seq(Block \cup {None})
         /\ Numbered \in Seq(Block \cup {None})
         /\ Held \in Seq(Block \cup {None})
         /\ to_ordering \in Seq(Block \cup {None})
         /\ Len(Numbered) = Len(ordered)
         /\ \A i \in 1 .. Len(ordered) : Numbered[i] = ordered[i].block
<1>1. /\ ordered \in Seq(Item) /\ Len(ordered) \in Nat
      /\ ordering_held \in Block \cup {None}
      /\ to_ordering \in Seq(Block \cup {None})
  BY DEF TypeInv, TypeOK
<1>2. \A i \in 1 .. Len(ordered) : ordered[i].block \in Block
  <2>1. \A i \in 1 .. Len(ordered) : ordered[i] \in Item
    BY <1>1, ElementOfSeq
  <2> QED BY <2>1 DEF Item
<1>3. Numbered \in Seq(Block \cup {None}) /\ Len(Numbered) = Len(ordered)
  BY <1>1, <1>2 DEF Numbered
<1>4. Held \in Seq(Block \cup {None})
  <2> DEFINE T == Block \cup {None}
  <2>1. ordering_held \in T BY <1>1
  <2> HIDE DEF T
  <2>2. <<>> \in Seq(T) /\ <<ordering_held>> \in Seq(T) BY <2>1
  <2> QED BY <2>2 DEF Held, T
<1>5. Submitted \in Seq(Block \cup {None})
  BY <1>1, <1>3, <1>4, ConcatProperties DEF Submitted
<1> QED BY <1>1, <1>3, <1>4, <1>5 DEF Numbered

LEMMA SubmittedAppend ==
  ASSUME TypeInv, NEW m \in Block \cup {None}, SubmitTo(m),
         UNCHANGED <<orderingVars, ordered>>
  PROVE  Submitted' = Append(Submitted, m)
<1> DEFINE T == Block \cup {None}
           s == Numbered \o Held
<1>1. /\ Numbered \in Seq(T) /\ Held \in Seq(T) /\ to_ordering \in Seq(T)
      /\ <<m>> \in Seq(T) /\ s \in Seq(T) /\ s \o to_ordering \in Seq(T)
  BY SubmittedType, ConcatProperties
<1>2. Numbered' = Numbered /\ Held' = Held
  BY DEF Numbered, Held, orderingVars
<1>3. to_ordering' = to_ordering \o <<m>>
  BY <1>1, AppendIsConcat DEF SubmitTo
<1>4. s \o (to_ordering \o <<m>>) = (s \o to_ordering) \o <<m>>
  BY <1>1, ConcatAssociative
<1>5. (s \o to_ordering) \o <<m>> = Append(s \o to_ordering, m)
  BY <1>1, AppendIsConcat
<1> QED BY <1>2, <1>3, <1>4, <1>5 DEF Submitted

(* What the workers of the pipeline do with the blocks keeps their order.  *)
LEMMA SubmittedKept ==
  ASSUME TypeInv, Pipeline \/ UNCHANGED pipelineVars
  PROVE  Submitted' = Submitted
<1> DEFINE T == Block \cup {None}
<1>1. /\ Numbered \in Seq(T) /\ to_ordering \in Seq(T)
      /\ ordering_held \in T
      /\ ordered \in Seq(Item)
  BY SubmittedType DEF TypeInv, TypeOK
<1>2. CASE OrderingRecv
  <2>1. /\ Held = <<>> /\ Held' = <<Head(to_ordering)>>
        /\ to_ordering' = Tail(to_ordering) /\ to_ordering # <<>>
        /\ Numbered' = Numbered
    BY <1>2 DEF OrderingRecv, Held, Numbered
  <2>2. Head(to_ordering) \in T /\ Tail(to_ordering) \in Seq(T)
    BY <1>1, <2>1
  <2>3. to_ordering = <<Head(to_ordering)>> \o Tail(to_ordering)
    BY <1>1, <2>1, <2>2
  <2>4. /\ Numbered \o <<>> = Numbered
        /\ (Numbered \o <<Head(to_ordering)>>) \o Tail(to_ordering)
             = Numbered \o (<<Head(to_ordering)>> \o Tail(to_ordering))
    BY <1>1, <2>2, ConcatEmptySeq, ConcatAssociative
  <2> QED BY <2>1, <2>3, <2>4 DEF Submitted
<1>3. CASE OrderingSend
  <2>1. /\ Held = <<ordering_held>> /\ Held' = <<>>
        /\ to_ordering' = to_ordering
        /\ \E item : /\ item.block = ordering_held
                     /\ ordered' = Append(ordered, item)
    BY <1>3 DEF OrderingSend, Held
  <2>2. PICK item : /\ item.block = ordering_held
                    /\ ordered' = Append(ordered, item)
    BY <2>1
  <2>3. Numbered' = Append(Numbered, ordering_held)
    BY <1>1, <2>2 DEF Numbered
  <2>4. /\ Numbered' = Numbered \o <<ordering_held>>
        /\ Numbered' \o <<>> = Numbered'
    BY <1>1, <2>3, AppendIsConcat, ConcatEmptySeq
  <2> QED BY <2>1, <2>4 DEF Submitted
<1>4. CASE ~ OrderingRecv /\ ~ OrderingSend
  <2>1. UNCHANGED <<ordered, to_ordering, ordering_held>>
        /\ (ordering_pc = "recv" <=> ordering_pc' = "recv")
    BY <1>4 DEF Pipeline, OrderingStop, EncodingRecv, EncodingSend, PassOn,
                UdpSend, UdpFail, UdpNone, pipelineVars, orderingVars
  <2> QED BY <2>1 DEF Submitted, Numbered, Held
<1> QED BY <1>2, <1>3, <1>4

-----------------------------------------------------------------------------
(* What one block more makes of the latest block of a client.              *)
LEMMA LatestAppend ==
  ASSUME NEW T, NEW s \in Seq(T), NEW b \in T
  PROVE  /\ \A i \in 1 .. Len(s) : \A client :
              Mine(Append(s, b), i, client) <=> Mine(s, i, client)
         /\ \A n \in 0 .. Len(s) : \A client, i :
              Latest(Append(s, b), n, client, i) <=> Latest(s, n, client, i)
         /\ \A client, i : ~ (IsBlock(b) /\ b.client = client) =>
              (Latest(Append(s, b), Len(s) + 1, client, i)
                 <=> Latest(s, Len(s), client, i))
         /\ IsBlock(b) => Latest(Append(s, b), Len(s) + 1, b.client, Len(s) + 1)
<1> DEFINE t == Append(s, b)
<1>1. /\ Len(s) \in Nat /\ Len(t) = Len(s) + 1 /\ t[Len(s) + 1] = b
      /\ \A i \in 1 .. Len(s) : t[i] = s[i]
  BY AppendProperties
<1> HIDE DEF t
<1>2. \A i \in 1 .. Len(s) : \A client : Mine(t, i, client) <=> Mine(s, i, client)
  BY <1>1 DEF Mine
<1>3. \A client : Mine(t, Len(s) + 1, client) <=> IsBlock(b) /\ b.client = client
  BY <1>1 DEF Mine
<1>4. ASSUME NEW n \in 0 .. Len(s), NEW client, NEW i
      PROVE  Latest(t, n, client, i) <=> Latest(s, n, client, i)
  <2>1. \A j \in 1 .. n : Mine(t, j, client) <=> Mine(s, j, client)
    BY <1>1, <1>2
  <2> QED BY <2>1 DEF Latest
<1>5. ASSUME NEW client, NEW i, ~ (IsBlock(b) /\ b.client = client)
      PROVE  Latest(t, Len(s) + 1, client, i) <=> Latest(s, Len(s), client, i)
  <2>1. ~ Mine(t, Len(s) + 1, client) BY <1>3, <1>5
  <2>2. \A j : j \in 1 .. Len(s) + 1 <=> j \in 1 .. Len(s) \/ j = Len(s) + 1
    BY <1>1
  <2> QED BY <1>2, <2>1, <2>2 DEF Latest
<1>6. ASSUME IsBlock(b)
      PROVE  Latest(t, Len(s) + 1, b.client, Len(s) + 1)
  <2>1. Mine(t, Len(s) + 1, b.client) BY <1>3, <1>6
  <2> QED BY <1>1, <2>1 DEF Latest
<1> QED BY <1>2, <1>4, <1>5, <1>6 DEF t

LEMMA LatestUnique ==
  ASSUME NEW n \in Nat, NEW s, NEW client, NEW i, NEW j,
         Latest(s, n, client, i), Latest(s, n, client, j)
  PROVE  i = j
BY DEF Latest

(* A block that continues the stream of its client keeps Intact.           *)
LEMMA IntactAppend ==
  ASSUME NEW T, NEW s \in Seq(T), NEW b \in T, Intact(s),
         IsBlock(b) =>
           /\ b.type = "start" <=> \A i \in 1 .. Len(s) : ~ Mine(s, i, b.client)
           /\ b.type = "start" => b.off = 0 /\ b.len = 0
           /\ \A i \in 1 .. Len(s) :
                Latest(s, Len(s), b.client, i) => Follows(b, s[i])
  PROVE  Intact(Append(s, b))
<1> DEFINE t == Append(s, b)
<1>1. /\ Len(s) \in Nat /\ Len(t) = Len(s) + 1 /\ t[Len(s) + 1] = b
      /\ \A i \in 1 .. Len(s) : t[i] = s[i]
  BY AppendProperties
<1>2. /\ \A i \in 1 .. Len(s) : \A client : Mine(t, i, client) <=> Mine(s, i, client)
      /\ \A n \in 0 .. Len(s) : \A client, i :
           Latest(t, n, client, i) <=> Latest(s, n, client, i)
  BY LatestAppend
<1> HIDE DEF t
<1> SUFFICES ASSUME NEW j \in 1 .. Len(t), IsBlock(t[j])
    PROVE  /\ t[j].type = "start"
                <=> \A i \in 1 .. j - 1 : ~ Mine(t, i, t[j].client)
           /\ t[j].type = "start" => t[j].off = 0 /\ t[j].len = 0
           /\ \A i \in 1 .. j - 1 :
                Latest(t, j - 1, t[j].client, i) => Follows(t[j], t[i])
  BY DEF Intact, t
<1>3. /\ j - 1 \in 0 .. Len(s)
      /\ \A i \in 1 .. j - 1 : i \in 1 .. Len(s) /\ t[i] = s[i]
  BY <1>1
<1>4. /\ \A i \in 1 .. j - 1 : \A client : Mine(t, i, client) <=> Mine(s, i, client)
      /\ \A i, client : Latest(t, j - 1, client, i)
                          <=> Latest(s, j - 1, client, i)
  BY <1>2, <1>3
<1>5. CASE j = Len(s) + 1
  <2>1. t[j] = b /\ j - 1 = Len(s) BY <1>1, <1>5
  <2> QED BY <1>3, <1>4, <2>1
<1>6. CASE j # Len(s) + 1
  <2>1. j \in 1 .. Len(s) /\ t[j] = s[j] BY <1>1, <1>6
  <2>2. /\ s[j].type = "start"
             <=> \A i \in 1 .. j - 1 : ~ Mine(s, i, s[j].client)
        /\ s[j].type = "start" => s[j].off = 0 /\ s[j].len = 0
        /\ \A i \in 1 .. j - 1 :
             Latest(s, j - 1, s[j].client, i) => Follows(s[j], s[i])
    BY <2>1 DEF Intact
  <2> QED BY <1>3, <1>4, <2>1, <2>2
<1> QED BY <1>5, <1>6

(* What is submitted, be it a block or not, keeps StreamsInv.              *)
LEMMA StreamsKept ==
  ASSUME TypeInv, StreamsInv, UNCHANGED <<client_of, next_client_id>>,
         NEW m \in Block \cup {None}, Submitted' = Append(Submitted, m),
         IsBlock(m) =>
           /\ m.client < next_client_id
           /\ m.type = "start" <=>
                \A i \in 1 .. Len(Submitted) : ~ Mine(Submitted, i, m.client)
           /\ m.type = "start" => m.off = 0 /\ m.len = 0
           /\ \A i \in 1 .. Len(Submitted) :
                Latest(Submitted, Len(Submitted), m.client, i)
                  => Follows(m, Submitted[i])
           /\ m.type = "end" =>
                \A c \in Connections :
                  client_of[c] = m.client => m.off + m.len = StreamLengths[c]
           /\ m.type = "data" /\ ~ Flush => m.len = BufferLen
  PROVE  StreamsInv'
<1> DEFINE s == Submitted
           t == Submitted'
<1>1. /\ s \in Seq(Block \cup {None}) /\ Len(s) \in Nat
      /\ Len(t) = Len(s) + 1 /\ t[Len(s) + 1] = m
      /\ \A i \in 1 .. Len(s) : t[i] = s[i]
  BY SubmittedType, AppendProperties
<1>2. Intact(t) BY <1>1, IntactAppend DEF StreamsInv
<1>3. \A j \in 1 .. Len(t) : \/ j \in 1 .. Len(s) /\ t[j] = s[j]
                             \/ t[j] = m
  BY <1>1
<1> HIDE DEF s, t
<1>4. \A j \in 1 .. Len(t) : IsBlock(t[j]) =>
        /\ t[j].client < next_client_id
        /\ t[j].type = "end" => \A c \in Connections :
             client_of[c] = t[j].client => t[j].off + t[j].len = StreamLengths[c]
        /\ t[j].type = "data" /\ ~ Flush => t[j].len = BufferLen
  <2>1. \A j \in 1 .. Len(s) : IsBlock(s[j]) =>
          /\ s[j].client < next_client_id
          /\ s[j].type = "end" => \A c \in Connections :
               client_of[c] = s[j].client =>
                 s[j].off + s[j].len = StreamLengths[c]
          /\ s[j].type = "data" /\ ~ Flush => s[j].len = BufferLen
    BY DEF StreamsInv, KnownInv, EndsInv, FullInv, s
  <2> QED BY <1>3, <2>1
<1>5. KnownInv' /\ EndsInv' /\ FullInv'
  BY <1>4 DEF KnownInv, EndsInv, FullInv, t
<1> QED BY <1>2, <1>5 DEF StreamsInv, t

(* Another worker's step leaves what this one has sent as it was.          *)
LEMMA SentKept ==
  ASSUME TypeInv, NEW v \in Workers, SentInv(v), worker'[v] = worker[v],
         HasClient(v) => Read(v)' = Read(v),
         \/ Submitted' = Submitted
         \/ \E m \in Block \cup {None} :
              /\ Submitted' = Append(Submitted, m)
              /\ IsBlock(m) /\ HasClient(v) => m.client # worker[v].client
  PROVE  SentInv(v)'
<1> DEFINE s == Submitted
           t == Submitted'
           client == worker[v].client
<1>1. s \in Seq(Block \cup {None}) /\ Len(s) \in Nat BY SubmittedType
<1>2. CASE Submitted' = Submitted
  BY <1>2 DEF SentInv, HasClient
<1>3. ASSUME NEW m \in Block \cup {None}, t = Append(s, m), HasClient(v),
             ~ (IsBlock(m) /\ m.client = client)
      PROVE  SentInv(v)'
  <2>1. /\ Len(t) = Len(s) + 1 /\ t[Len(s) + 1] = m
        /\ \A i \in 1 .. Len(s) : t[i] = s[i]
    BY <1>1, <1>3, AppendProperties
  <2>2. /\ \A i \in 1 .. Len(s) : Mine(t, i, client) <=> Mine(s, i, client)
        /\ \A i : Latest(t, Len(t), client, i) <=> Latest(s, Len(s), client, i)
    BY <1>1, <1>3, <2>1, LatestAppend
  <2>3. ~ Mine(t, Len(t), client) BY <1>3, <2>1 DEF Mine
  <2> HIDE DEF s, t
  <2>4. worker[v].pc = "start" =>
          /\ Read(v)' = 0 /\ \A j \in 1 .. Len(t) : ~ Mine(t, j, client)
    <3>1. worker[v].pc = "start" =>
            /\ Read(v) = 0 /\ \A j \in 1 .. Len(s) : ~ Mine(s, j, client)
      BY DEF SentInv, s
    <3> QED BY <1>1, <1>3, <2>1, <2>2, <2>3, <3>1
  <2>5. worker[v].pc \in {"read", "data", "end", "signal_error", "abort"} =>
          \E i \in 1 .. Len(t) :
            /\ Latest(t, Len(t), client, i)
            /\ t[i].type \in {"start", "data"}
            /\ worker[v].pc \in {"read", "data", "end"} =>
                 t[i].off + t[i].len = Read(v)' - worker[v].cursor
    <3> SUFFICES ASSUME worker[v].pc \in {"read", "data", "end",
                                          "signal_error", "abort"}
        PROVE  \E i \in 1 .. Len(t) :
                 /\ Latest(t, Len(t), client, i)
                 /\ t[i].type \in {"start", "data"}
                 /\ worker[v].pc \in {"read", "data", "end"} =>
                      t[i].off + t[i].len = Read(v)' - worker[v].cursor
      OBVIOUS
    <3>1. PICK i \in 1 .. Len(s) :
            /\ Latest(s, Len(s), client, i)
            /\ s[i].type \in {"start", "data"}
            /\ worker[v].pc \in {"read", "data", "end"} =>
                 s[i].off + s[i].len = Read(v) - worker[v].cursor
      BY DEF SentInv, s
    <3>2. i \in 1 .. Len(t) /\ t[i] = s[i] BY <1>1, <2>1
    <3> QED BY <1>3, <2>2, <3>1, <3>2
  <2> QED BY <2>4, <2>5 DEF SentInv, t
<1>4. CASE ~ HasClient(v)
  BY <1>4 DEF SentInv, HasClient
<1> QED BY <1>2, <1>3, <1>4

(* Two workers do not serve the same client.                               *)
LEMMA OtherClients ==
  ASSUME WorkersInv, NEW v \in Workers, NEW w \in Workers, v # w,
         HasClient(v), HasClient(w)
  PROVE  /\ worker[v].client # worker[w].client
         /\ worker[v].conn # worker[w].conn
<1>1. /\ ConnInv /\ FrontType /\ ClientInv /\ HasConn(v) /\ HasConn(w)
  BY DEF WorkersInv, HasConn
<1>2. worker[v].conn # worker[w].conn BY <1>1 DEF ConnInv
<1>3. ASSUME NEW u \in Workers, HasClient(u)
      PROVE  worker[u].conn \in Served /\ client_of[worker[u].conn] = worker[u].client
  <2>1. HasConn(u) /\ worker[u].pc # "wait" BY <1>3 DEF HasConn, HasClient
  <2>2. /\ client_of[worker[u].conn] = worker[u].client
        /\ worker[u].client # None /\ worker[u].conn \in 1 .. accepted
    BY <1>1, <1>3, <2>1 DEF ConnInv
  <2>3. worker[u].conn \in Connections
    BY <1>1, <2>2 DEF FrontType, Connections
  <2> QED BY <2>2, <2>3 DEF Served
<1> QED BY <1>1, <1>2, <1>3 DEF ClientInv

(* A worker submits the next block of its client.                          *)
LEMMA BlockSubmitted ==
  ASSUME WorkersInv, TypeInv, BlocksInv, NEW w \in Workers, HasClient(w),
         \A v \in Workers \ {w} : worker'[v] = worker[v],
         UNCHANGED <<unread, client_of, next_client_id>>,
         NEW m \in Block, m.client = worker[w].client, m.type # "heartbeat",
         Submitted' = Append(Submitted, m),
         m.type = "start" => worker[w].pc = "start" /\ m.off = 0 /\ m.len = 0,
         m.type # "start" => worker[w].pc \in {"data", "end", "abort"},
         m.type \in {"data", "end"} => m.type = worker[w].pc /\ m = DueBlock(w),
         SentInv(w)'
  PROVE  BlocksInv'
<1> DEFINE s == Submitted
           client == worker[w].client
           c == worker[w].conn
<1>1. /\ ConnInv /\ FrontType /\ ClientInv /\ BufferInv(w) /\ SentInv(w)
      /\ StreamsInv /\ \A v \in Workers : SentInv(v)
  BY DEF WorkersInv, BlocksInv
<1>2. m # None /\ IsBlock(m) BY BlockFacts DEF IsBlock
<1>3. /\ c \in Served /\ c \in Connections /\ client_of[c] = client
  <2>1. HasConn(w) /\ worker[w].pc # "wait" BY DEF HasConn, HasClient
  <2>2. /\ client_of[c] = client /\ client # None /\ c \in 1 .. accepted
    BY <1>1, <2>1 DEF ConnInv
  <2>3. c \in Connections BY <1>1, <2>2 DEF FrontType, Connections
  <2> QED BY <2>2, <2>3 DEF Served
<1>4. client < next_client_id BY <1>1, <1>3 DEF ClientInv
<1>5. s \in Seq(Block \cup {None}) /\ Len(s) \in Nat BY SubmittedType
<1>6. m.type \in {"data", "end"} =>
        /\ m.off = Read(w) - worker[w].cursor /\ m.len = worker[w].cursor
  BY DEF DueBlock, BufferedBlock, Read
<1>7. /\ m.type = "start" => \A i \in 1 .. Len(s) : ~ Mine(s, i, client)
      /\ m.type # "start" =>
           \E i \in 1 .. Len(s) :
             /\ Latest(s, Len(s), client, i)
             /\ s[i].type \in {"start", "data"}
             /\ m.type \in {"data", "end"} =>
                  s[i].off + s[i].len = Read(w) - worker[w].cursor
  BY <1>1 DEF SentInv
<1>8. m.type = "start" <=> \A i \in 1 .. Len(s) : ~ Mine(s, i, m.client)
  BY <1>7 DEF Latest
<1>9. ASSUME NEW i \in 1 .. Len(s), Latest(s, Len(s), m.client, i)
      PROVE  Follows(m, s[i])
  <2>1. m.type # "start" BY <1>8, <1>9 DEF Latest
  <2>2. PICK k \in 1 .. Len(s) :
          /\ Latest(s, Len(s), client, k)
          /\ s[k].type \in {"start", "data"}
          /\ m.type \in {"data", "end"} =>
               s[k].off + s[k].len = Read(w) - worker[w].cursor
    BY <1>7, <2>1
  <2>3. k = i BY <1>5, <1>9, <2>2, LatestUnique
  <2> QED BY <1>6, <2>2, <2>3 DEF Follows
<1>10. ASSUME m.type = "end", NEW d \in Connections, client_of[d] = m.client
       PROVE  m.off + m.len = StreamLengths[d]
  <2>1. d = c
    <3>1. d \in Served BY <1>3, <1>10 DEF Served
    <3> QED BY <1>1, <1>3, <1>10, <3>1 DEF ClientInv
  <2>2. unread[c] = 0 BY <1>1, <1>10 DEF BufferInv
  <2>3. StreamLengths[c] \in Nat /\ worker[w].cursor \in 0 .. BufferLen
    BY <1>1, <1>3, WorkerFacts, SenderFacts
  <2> QED BY <1>6, <1>10, <2>1, <2>2, <2>3 DEF Read
<1>11. m.type = "data" /\ ~ Flush => m.len = BufferLen
  BY <1>1, <1>6 DEF BufferInv
<1>12. StreamsInv'
  BY <1>1, <1>2, <1>4, <1>8, <1>9, <1>10, <1>11, StreamsKept
<1>13. ASSUME NEW v \in Workers PROVE SentInv(v)'
  <2>1. CASE v = w BY <2>1
  <2>2. CASE v # w
    <3>1. worker'[v] = worker[v] /\ Read(v)' = Read(v) BY <2>2 DEF Read
    <3>2. HasClient(v) => m.client # worker[v].client
      BY <2>2, OtherClients
    <3>3. SentInv(v) BY <1>1
    <3> QED BY <3>1, <3>2, <3>3, SentKept
  <2> QED BY <2>1, <2>2
<1> QED BY <1>12, <1>13 DEF BlocksInv

(* A step that submits no block of a client.                               *)
LEMMA NothingSubmitted ==
  ASSUME TypeInv, BlocksInv, UNCHANGED <<client_of, next_client_id>>,
         \/ Submitted' = Submitted
         \/ \E m \in Block \cup {None} :
              ~ IsBlock(m) /\ Submitted' = Append(Submitted, m),
         \A v \in Workers : \/ SentInv(v)'
                            \/ /\ worker'[v] = worker[v]
                               /\ HasClient(v) => Read(v)' = Read(v)
  PROVE  BlocksInv'
<1>1. StreamsInv /\ \A v \in Workers : SentInv(v) BY DEF BlocksInv
<1>2. StreamsInv'
  <2>1. CASE Submitted' = Submitted
    BY <1>1, <2>1 DEF StreamsInv, KnownInv, EndsInv, FullInv
  <2>2. ASSUME NEW m \in Block \cup {None}, ~ IsBlock(m),
               Submitted' = Append(Submitted, m)
        PROVE  StreamsInv'
    BY <1>1, <2>2, StreamsKept
  <2> QED BY <2>1, <2>2
<1>3. ASSUME NEW v \in Workers PROVE SentInv(v)'
  <2>1. CASE SentInv(v)' BY <2>1
  <2>2. CASE /\ worker'[v] = worker[v]
             /\ HasClient(v) => Read(v)' = Read(v)
    <3>1. SentInv(v) BY <1>1
    <3> QED BY <2>2, <3>1, SentKept
  <2> QED BY <2>1, <2>2
<1> QED BY <1>2, <1>3 DEF BlocksInv

LEMMA SentAfter ==
  ASSUME TypeInv, NEW w \in Workers, NEW m \in Block,
         m.type \in {"start", "data"}, Submitted' = Append(Submitted, m),
         worker'[w].pc = "read", worker'[w].client = m.client,
         m.off + m.len = Read(w)' - worker'[w].cursor
  PROVE  SentInv(w)'
<1> DEFINE s == Submitted
           t == Submitted'
<1>1. IsBlock(m) BY BlockFacts DEF IsBlock
<1>2. /\ s \in Seq(Block \cup {None}) /\ Len(s) \in Nat
      /\ Len(t) = Len(s) + 1 /\ t[Len(s) + 1] = m
  BY SubmittedType, AppendProperties
<1>3. Latest(t, Len(s) + 1, m.client, Len(s) + 1)
  BY <1>1, <1>2, LatestAppend
<1> HIDE DEF s, t
<1>4. /\ Len(t) \in 1 .. Len(t) /\ Latest(t, Len(t), worker'[w].client, Len(t))
      /\ t[Len(t)].type \in {"start", "data"}
      /\ t[Len(t)].off + t[Len(t)].len = Read(w)' - worker'[w].cursor
  BY <1>2, <1>3
<1> QED BY <1>4 DEF SentInv, t

LEMMA StartSubmitted ==
  ASSUME WorkersInv, TypeInv, BlocksInv, NEW w \in Workers, ClientStart(w)
  PROVE  BlocksInv'
<1> DEFINE x == worker[w]
           m == EmptyBlock("start", x.client)
<1>1. FrontType /\ ConnInv /\ BufferInv(w) /\ SentInv(w)
  BY DEF WorkersInv, BlocksInv
<1>2. /\ x.pc = "start" /\ SubmitTo(m) /\ UNCHANGED restOfPipeline
      /\ UNCHANGED <<unread, client_of, next_client_id>>
  BY DEF ClientStart
<1>3. HasClient(w) BY <1>2 DEF HasClient
<1>4. /\ m \in Block /\ m.client = x.client /\ m.type = "start" /\ m.off = 0
      /\ m.len = 0
  BY SubmitsBlocks DEF EmptyBlock
<1>5. x.cursor \in 0 .. BufferLen /\ x.nones \in 0 .. N BY <1>1, WorkerFacts
<1>6. /\ worker'[w].pc = "read" /\ worker'[w].conn = x.conn
      /\ worker'[w].client = x.client /\ worker'[w].cursor = x.cursor
      /\ \A v \in Workers \ {w} : worker'[v] = worker[v]
  <2>1. Becomes(w, "read", x.conn, x.client, x.cursor, x.nones)
    BY <1>1, Moves
  <2> QED BY <1>1, <1>5, <2>1, Goes
<1>7. Submitted' = Append(Submitted, m)
  BY <1>2, <1>4, SubmittedAppend DEF restOfPipeline
<1>8. Read(w)' = 0 /\ x.cursor = 0
  BY <1>1, <1>2, <1>6 DEF SentInv, BufferInv, Read
<1> HIDE DEF m
<1>9. SentInv(w)' BY <1>4, <1>6, <1>7, <1>8, SentAfter DEF x
<1> QED BY <1>2, <1>3, <1>4, <1>6, <1>7, <1>9, BlockSubmitted

LEMMA DueSubmitted ==
  ASSUME WorkersInv, TypeInv, BlocksInv, NEW w \in Workers, ClientSend(w)
  PROVE  BlocksInv'
<1> DEFINE x == worker[w]
           m == DueBlock(w)
           pc == IF x.pc = "end" THEN "signal" ELSE "read"
<1>1. FrontType /\ ConnInv /\ BufferInv(w) /\ SentInv(w)
  BY DEF WorkersInv, BlocksInv
<1>2. /\ x.pc \in {"data", "end"} /\ SubmitTo(m) /\ UNCHANGED restOfPipeline
      /\ UNCHANGED <<unread, client_of, next_client_id>>
  BY DEF ClientSend
<1>3. HasClient(w) /\ HasConn(w) BY <1>2 DEF HasClient, HasConn
<1>4. /\ m \in Block /\ m.client = x.client /\ m.type = x.pc
      /\ m.off = Read(w) - x.cursor /\ m.len = x.cursor
  BY SubmitsBlocks DEF DueBlock, BufferedBlock, Read
<1>5. /\ x.cursor \in 0 .. BufferLen /\ x.nones \in 0 .. N
      /\ 0 \in 0 .. BufferLen /\ pc \in {"signal", "read"}
  <2>1. 0 \in 0 .. BufferLen BY SenderFacts
  <2> QED BY <1>1, <2>1, WorkerFacts
<1>6. /\ worker'[w].pc = pc /\ worker'[w].conn = x.conn
      /\ worker'[w].client = x.client /\ worker'[w].cursor = 0
      /\ \A v \in Workers \ {w} : worker'[v] = worker[v]
  <2>1. Becomes(w, pc, x.conn, x.client, 0, x.nones)
    BY <1>1, Moves
  <2> HIDE DEF pc
  <2> QED BY <1>1, <1>5, <2>1, Goes
<1>7. Submitted' = Append(Submitted, m)
  BY <1>2, <1>4, SubmittedAppend DEF restOfPipeline
<1>8. Read(w)' = Read(w) /\ Read(w) \in Int
  <2>1. x.conn \in Connections
    BY <1>1, <1>3 DEF ConnInv, FrontType, Connections
  <2> QED BY <1>1, <1>2, <1>6, <2>1, SenderFacts DEF Read, FrontType
<1>9. SentInv(w)'
  <2> HIDE DEF m
  <2>1. CASE x.pc = "end" BY <1>6, <2>1 DEF SentInv
  <2>2. CASE x.pc = "data"
    <3>1. m.off + m.len = Read(w)' - worker'[w].cursor
      BY <1>4, <1>5, <1>6, <1>8
    <3>2. /\ worker'[w].pc = "read" /\ m.type = "data"
          /\ worker'[w].client = m.client
      BY <1>4, <1>6, <2>2
    <3> QED BY <1>4, <1>7, <3>1, <3>2, SentAfter
  <2> QED BY <1>2, <2>1, <2>2
<1>10. m.type # "start" /\ m.type # "heartbeat" BY <1>2, <1>4
<1>11. m = DueBlock(w) OBVIOUS
<1> HIDE DEF m
<1> QED
  BY <1>2, <1>3, <1>4, <1>6, <1>7, <1>9, <1>10, <1>11, BlockSubmitted

LEMMA AbortSubmitted ==
  ASSUME WorkersInv, TypeInv, BlocksInv, NEW w \in Workers, ServerAbort(w)
  PROVE  BlocksInv'
<1> DEFINE m == EmptyBlock("abort", worker[w].client)
<1>1. FrontType BY DEF WorkersInv
<1>2. /\ worker[w].pc = "abort" /\ SubmitTo(m) /\ UNCHANGED restOfPipeline
      /\ UNCHANGED <<unread, client_of, next_client_id>>
  BY DEF ServerAbort
<1>3. HasClient(w) BY <1>2 DEF HasClient
<1>4. m \in Block /\ m.client = worker[w].client /\ m.type = "abort"
  BY SubmitsBlocks DEF EmptyBlock
<1>5. /\ worker'[w].pc = "recv"
      /\ \A v \in Workers \ {w} : worker'[v] = worker[v]
  BY <1>1, Moves, Returns
<1>6. Submitted' = Append(Submitted, m)
  BY <1>2, <1>4, SubmittedAppend DEF restOfPipeline
<1>7. SentInv(w)' BY <1>5 DEF SentInv
<1> HIDE DEF m
<1> QED BY <1>2, <1>3, <1>4, <1>5, <1>6, <1>7, BlockSubmitted

(* The steps of a worker that submit nothing.                              *)
LEMMA ServedKeepsBlocks ==
  ASSUME WorkersInv, TypeInv, BlocksInv, NEW w \in Workers, ServerWait(w)
  PROVE  BlocksInv'
<1> DEFINE x == worker[w]
<1>1. /\ FrontType /\ ConnInv /\ ClientInv /\ StreamsInv
      /\ \A v \in Workers : SentInv(v)
  BY DEF WorkersInv, BlocksInv
<1>2. /\ x.pc = "wait" /\ UNCHANGED pipelineVars /\ unread' = unread
      /\ next_client_id' = next_client_id + 1
      /\ client_of' = [client_of EXCEPT ![x.conn] = next_client_id]
  BY DEF ServerWait
<1>3. /\ x.conn \in Connections /\ client_of[x.conn] = None
  <2>1. HasConn(w) BY <1>2 DEF HasConn
  <2> QED BY <1>1, <1>2, <2>1 DEF ConnInv, FrontType, Connections
<1>4. next_client_id \in ClientId /\ next_client_id \in Nat
  BY <1>1 DEF FrontType, ClientId
<1>5. /\ worker'[w].pc = "start" /\ worker'[w].conn = x.conn
      /\ worker'[w].client = next_client_id
      /\ \A v \in Workers \ {w} : worker'[v] = worker[v]
  <2>1. worker \in [Workers -> State] /\ x \in State
    BY <1>1 DEF FrontType
  <2>2. worker' = [worker EXCEPT ![w].pc = "start",
                                 ![w].client = next_client_id]
    BY DEF ServerWait
  <2> QED BY <2>1, <2>2 DEF State
<1>6. Submitted' = Submitted BY <1>2, SubmittedKept
<1>7. \A j \in 1 .. Len(Submitted) : IsBlock(Submitted[j]) =>
        Submitted[j].client < next_client_id /\ Submitted[j].client \in Nat
  <2>1. \A j \in 1 .. Len(Submitted) : Submitted[j] \in Block \cup {None}
    BY SubmittedType, ElementOfSeq
  <2> QED BY <1>1, <2>1, BlockFacts DEF StreamsInv, KnownInv, IsBlock
<1>8. StreamsInv'
  <2>1. KnownInv' BY <1>2, <1>4, <1>6, <1>7 DEF KnownInv
  <2>2. EndsInv'
    <3>1. ASSUME NEW j \in 1 .. Len(Submitted), IsBlock(Submitted[j]),
                 NEW c \in Connections, client_of'[c] = Submitted[j].client
          PROVE  client_of[c] = Submitted[j].client
      BY <1>1, <1>2, <1>3, <1>4, <1>7, <3>1 DEF FrontType
    <3> QED BY <1>1, <1>6, <3>1 DEF StreamsInv, EndsInv
  <2> QED BY <1>1, <1>6, <2>1, <2>2 DEF StreamsInv, FullInv
<1>9. ASSUME NEW v \in Workers PROVE SentInv(v)'
  <2>1. CASE v = w
    <3>1. Read(w)' = 0
      <4>1. unread[x.conn] = StreamLengths[x.conn] BY <1>1, <1>3 DEF ConnInv
      <4>2. StreamLengths[x.conn] \in Nat BY <1>3, SenderFacts
      <4> QED BY <1>2, <1>5, <4>1, <4>2 DEF Read
    <3>2. \A j \in 1 .. Len(Submitted) : ~ Mine(Submitted, j, next_client_id)
      BY <1>4, <1>7 DEF Mine
    <3> QED BY <1>5, <1>6, <2>1, <3>1, <3>2 DEF SentInv
  <2>2. CASE v # w
    <3>1. worker'[v] = worker[v] /\ Read(v)' = Read(v)
      BY <1>2, <1>5, <2>2 DEF Read
    <3>2. SentInv(v) BY <1>1
    <3> QED BY <1>6, <3>1, <3>2, SentKept
  <2> QED BY <2>1, <2>2
<1> QED BY <1>8, <1>9 DEF BlocksInv

LEMMA ReadKeepsBlocks ==
  ASSUME WorkersInv, TypeInv, BlocksInv, NEW w \in Workers, ClientRead(w)
  PROVE  BlocksInv'
<1> DEFINE c == worker[w].conn
           nones == worker[w].nones
<1>1. FrontType /\ ConnInv /\ SentInv(w) BY DEF WorkersInv, BlocksInv
<1>2. /\ worker[w].pc = "read" /\ UNCHANGED pipelineVars
      /\ UNCHANGED <<client_of, next_client_id>>
  BY DEF ClientRead
<1>3. HasClient(w) /\ c \in Connections
  <2>1. HasClient(w) /\ HasConn(w) BY <1>2 DEF HasConn, HasClient
  <2> QED BY <1>1, <2>1 DEF ConnInv, FrontType, Connections
<1>4. PICK read \in 0 .. BufferLen - worker[w].cursor :
        /\ unread' = [unread EXCEPT ![c] = @ - read]
        /\ Becomes(w, IF read = 0 THEN "end"
                      ELSE IF BlockIsDue(worker[w].cursor + read) THEN "data"
                      ELSE "read",
                   c, worker[w].client, worker[w].cursor + read, nones)
  BY <1>1, Moves
<1> DEFINE cursor == worker[w].cursor + read
           pc == IF read = 0 THEN "end"
                 ELSE IF BlockIsDue(cursor) THEN "data" ELSE "read"
<1>5. /\ cursor \in 0 .. BufferLen /\ nones \in 0 .. N
      /\ worker[w].cursor \in Nat /\ read \in Nat
      /\ pc \in {"read", "data", "end"}
  <2>1. /\ worker[w].cursor \in 0 .. BufferLen /\ nones \in 0 .. N
        /\ BufferLen \in Nat
    BY <1>1, WorkerFacts, SenderFacts
  <2> QED BY <2>1
<1>6. /\ unread'[c] = unread[c] - read /\ unread[c] \in Nat
      /\ \A d \in Connections \ {c} : unread'[d] = unread[d]
  BY <1>1, <1>3, <1>4 DEF FrontType
<1>7. Becomes(w, pc, c, worker[w].client, cursor, nones) BY <1>4
<1> HIDE DEF pc
<1>8. /\ worker'[w].pc = pc /\ worker'[w].conn = c
      /\ worker'[w].client = worker[w].client /\ worker'[w].cursor = cursor
      /\ \A v \in Workers \ {w} : worker'[v] = worker[v]
  <2> HIDE DEF cursor, nones
  <2> QED BY <1>1, <1>5, <1>7, Goes
<1>9. Submitted' = Submitted BY <1>2, SubmittedKept
<1>10. Read(w)' - cursor = Read(w) - worker[w].cursor
  <2>1. StreamLengths[c] \in Nat BY <1>3, SenderFacts
  <2> QED BY <1>5, <1>6, <1>8, <2>1 DEF Read
<1>11. SentInv(w)'
  <2>1. PICK i \in 1 .. Len(Submitted) :
          /\ Latest(Submitted, Len(Submitted), worker[w].client, i)
          /\ Submitted[i].type \in {"start", "data"}
          /\ Submitted[i].off + Submitted[i].len = Read(w) - worker[w].cursor
    BY <1>1, <1>2 DEF SentInv
  <2> HIDE DEF cursor
  <2>2. pc # "start" BY <1>5
  <2> QED BY <1>5, <1>8, <1>9, <1>10, <2>1, <2>2 DEF SentInv
<1>12. ASSUME NEW v \in Workers \ {w}
       PROVE  /\ worker'[v] = worker[v]
              /\ HasClient(v) => Read(v)' = Read(v)
  <2>1. worker'[v] = worker[v] BY <1>8
  <2>2. ASSUME HasClient(v) PROVE Read(v)' = Read(v)
    <3>1. worker[v].conn # c BY <1>3, <2>2, OtherClients
    <3>2. worker[v].conn \in Connections
      BY <1>1, <2>2 DEF ConnInv, HasConn, FrontType, Connections
    <3> QED BY <1>6, <2>1, <3>1, <3>2 DEF Read
  <2> QED BY <2>1, <2>2
<1> QED BY <1>2, <1>9, <1>11, <1>12, NothingSubmitted

LEMMA QuietKeepsBlocks ==
  ASSUME WorkersInv, TypeInv, BlocksInv, NEW w \in Workers,
         ServerRecv(w) \/ ClientReadFail(w) \/ ServerSignal(w)
  PROVE  BlocksInv'
<1> DEFINE x == worker[w]
<1>1. FrontType /\ SentInv(w) BY DEF WorkersInv, BlocksInv
<1>2. /\ UNCHANGED pipelineVars
      /\ UNCHANGED <<unread, client_of, next_client_id>>
  BY DEF ServerRecv, ClientReadFail, ServerSignal
<1>3. Submitted' = Submitted BY <1>2, SubmittedKept
<1>4. worker \in [Workers -> State] /\ x \in State BY <1>1 DEF FrontType
<1>5. /\ \A v \in Workers \ {w} : worker'[v] = worker[v]
      /\ \/ worker'[w].pc \in {"stopping", "wait", "recv"}
         \/ /\ worker'[w].client = x.client
            /\ \/ x.pc = "read" /\ worker'[w].pc = "signal_error"
               \/ x.pc = "signal_error" /\ worker'[w].pc = "abort"
  <2>1. CASE ServerRecv(w)
    <3>1. worker' =
            [worker EXCEPT ![w] =
               IF Head(to_server) = None
               THEN [Idle EXCEPT !.pc = "stopping", !.nones = N]
               ELSE [Idle EXCEPT !.pc = "wait", !.conn = Head(to_server)]]
      BY <2>1 DEF ServerRecv
    <3> QED BY <1>4, <3>1 DEF Idle
  <2>2. CASE ClientReadFail(w)
    <3>1. /\ worker' = [worker EXCEPT ![w].pc = "signal_error"]
          /\ x.pc = "read"
      BY <2>2 DEF ClientReadFail
    <3> QED BY <1>4, <3>1 DEF State
  <2>3. CASE ServerSignal(w)
    <3>1. /\ worker' = [worker EXCEPT
                          ![w] = IF x.pc = "signal" THEN Idle
                                 ELSE [x EXCEPT !.pc = "abort"]]
          /\ x.pc \in {"signal", "signal_error"}
      BY <2>3 DEF ServerSignal
    <3> QED BY <1>4, <3>1 DEF State, Idle
  <2> QED BY <2>1, <2>2, <2>3
<1>6. SentInv(w)' BY <1>1, <1>3, <1>5 DEF SentInv
<1>7. ASSUME NEW v \in Workers \ {w}
      PROVE  worker'[v] = worker[v] /\ Read(v)' = Read(v)
  BY <1>2, <1>5 DEF Read
<1> QED BY <1>2, <1>3, <1>6, <1>7, NothingSubmitted

LEMMA OtherKeepsBlocks ==
  ASSUME WorkersInv, TypeInv, BlocksInv,
         \/ NewClient \/ Stop \/ Heartbeat \/ PipelineStep
         \/ UNCHANGED senderVars
         \/ \E w \in Workers : ServerSendNone(w)
  PROVE  BlocksInv'
<1>1. FrontType BY DEF WorkersInv
<1>2. CASE NewClient \/ Stop \/ PipelineStep \/ UNCHANGED senderVars
  <2>1. Submitted' = Submitted
    BY <1>2, SubmittedKept DEF NewClient, Stop, PipelineStep, senderVars
  <2>2. UNCHANGED <<worker, unread, client_of, next_client_id>>
    BY <1>2 DEF NewClient, Stop, PipelineStep, senderVars, frontVars
  <2>3. \A v \in Workers : worker'[v] = worker[v] /\ Read(v)' = Read(v)
    BY <2>2 DEF Read
  <2> QED BY <2>1, <2>2, <2>3, NothingSubmitted
<1>3. CASE Heartbeat
  <2> DEFINE m == EmptyBlock("heartbeat", 0)
  <2>1. /\ SubmitTo(m) /\ UNCHANGED restOfPipeline
        /\ UNCHANGED <<worker, unread, client_of, next_client_id>>
    BY <1>3 DEF Heartbeat
  <2>2. m \in Block /\ ~ IsBlock(m)
    BY SubmitsBlocks DEF IsBlock, EmptyBlock
  <2> HIDE DEF m
  <2>3. Submitted' = Append(Submitted, m)
    BY <2>1, <2>2, SubmittedAppend DEF restOfPipeline
  <2>4. \A v \in Workers : worker'[v] = worker[v] /\ Read(v)' = Read(v)
    BY <2>1 DEF Read
  <2> QED BY <2>1, <2>2, <2>3, <2>4, NothingSubmitted
<1>4. ASSUME NEW w \in Workers, ServerSendNone(w) PROVE BlocksInv'
  <2>1. /\ SubmitTo(None) /\ UNCHANGED restOfPipeline
        /\ worker[w].pc = "stopping"
        /\ UNCHANGED <<unread, client_of, next_client_id>>
    BY <1>4 DEF ServerSendNone
  <2>2. Submitted' = Append(Submitted, None)
    BY <2>1, SubmittedAppend DEF restOfPipeline
  <2>3. /\ worker'[w].pc \in {"stopping", "done"}
        /\ \A v \in Workers \ {w} : worker'[v] = worker[v]
    <3>1. worker \in [Workers -> State] /\ worker[w] \in State
      BY <1>1 DEF FrontType
    <3>2. worker' =
            [worker EXCEPT ![w].nones = @ - 1,
                           ![w].pc = IF worker[w].nones = 1 THEN "done" ELSE @]
      BY <1>4 DEF ServerSendNone
    <3> QED BY <2>1, <3>1, <3>2 DEF State
  <2>4. SentInv(w)' BY <2>3 DEF SentInv
  <2>5. \A v \in Workers \ {w} : worker'[v] = worker[v] /\ Read(v)' = Read(v)
    BY <2>1, <2>3 DEF Read
  <2>6. ~ IsBlock(None) BY DEF IsBlock
  <2> QED BY <2>1, <2>2, <2>4, <2>5, <2>6, NothingSubmitted
<1> QED BY <1>2, <1>3, <1>4

LEMMA BlocksStep ==
  ASSUME WorkersInv, TypeInv, BlocksInv, [SenderNext]_senderVars
  PROVE  BlocksInv'
<1>1. ASSUME NEW w \in Workers, WorkerStep(w) PROVE BlocksInv'
  <2>1. CASE ServerRecv(w) \/ ClientReadFail(w) \/ ServerSignal(w)
    BY <2>1, QuietKeepsBlocks
  <2>2. CASE ServerWait(w) BY <2>2, ServedKeepsBlocks
  <2>3. CASE ClientRead(w) BY <2>3, ReadKeepsBlocks
  <2>4. CASE ClientStart(w) BY <2>4, StartSubmitted
  <2>5. CASE ClientSend(w) BY <2>5, DueSubmitted
  <2>6. CASE ServerAbort(w) BY <2>6, AbortSubmitted
  <2>7. CASE ServerSendNone(w) BY <2>7, OtherKeepsBlocks
  <2> QED
    BY <1>1, <2>1, <2>2, <2>3, <2>4, <2>5, <2>6, <2>7 DEF WorkerStep
<1> QED BY <1>1, OtherKeepsBlocks DEF SenderNext

LEMMA BlocksInit == SenderInit => BlocksInv
<1> SUFFICES ASSUME SenderInit PROVE BlocksInv OBVIOUS
<1>1. /\ ordered = <<>> /\ to_ordering = <<>> /\ ordering_pc = "recv"
      /\ worker = [w \in Workers |-> Idle]
  BY DEF SenderInit, Init
<1>2. Len(Submitted) = 0
  <2>1. TypeInv BY TypeInit DEF SenderInit
  <2>2. Len(Numbered) = 0 /\ Len(Held) = 0 /\ Len(to_ordering) = 0
    BY <1>1, <2>1, SubmittedType DEF Held
  <2> DEFINE T == Block \cup {None}
  <2>3. Numbered \in Seq(T) /\ Held \in Seq(T) /\ to_ordering \in Seq(T)
    BY <2>1, SubmittedType
  <2> HIDE DEF T
  <2>4. Numbered \o Held \in Seq(T) /\ Len(Numbered \o Held) = 0
    BY <2>2, <2>3, ConcatProperties
  <2> QED BY <2>2, <2>3, <2>4, ConcatProperties DEF Submitted
<1>3. StreamsInv
  BY <1>2 DEF StreamsInv, KnownInv, Intact, EndsInv, FullInv
<1>4. \A w \in Workers : SentInv(w) BY <1>1 DEF SentInv, Idle
<1> QED BY <1>3, <1>4 DEF BlocksInv

(* The invariant of the sender.                                            *)
SenderInv == WorkersInv /\ IInv /\ BlocksInv

LEMMA SenderInvCorrect == SenderSpec => []SenderInv
<1>1. SenderInit => SenderInv
  BY WorkersInit, InvInit, BlocksInit DEF SenderInv, SenderInit
<1>2. SenderInv /\ [SenderNext]_senderVars => SenderInv'
  <2> SUFFICES ASSUME SenderInv, [SenderNext]_senderVars PROVE SenderInv'
    OBVIOUS
  <2>1. WorkersInv /\ IInv /\ BlocksInv /\ TypeInv BY DEF SenderInv, IInv
  <2>2. WorkersInv' BY <2>1, WorkersStep
  <2>3. IInv' BY <2>1, StepOfPipeline, InvStep
  <2>4. BlocksInv' BY <2>1, BlocksStep
  <2> QED BY <2>2, <2>3, <2>4 DEF SenderInv
<1> QED BY <1>1, <1>2, PTL DEF SenderSpec
-----------------------------------------------------------------------------
(* Every reachable state of the sender is well typed.                      *)
THEOREM SenderTypeCorrect == SenderSpec => []SenderTypeOK
<1>1. SenderInv => SenderTypeOK
  <2> SUFFICES ASSUME SenderInv PROVE SenderTypeOK OBVIOUS
  <2>1. FrontType /\ TypeOK
    BY DEF SenderInv, WorkersInv, IInv, TypeInv
  <2>2. unread \in [Connections -> Offsets]
    <3>1. /\ unread \in [Connections -> Nat]
          /\ \A c \in Connections : /\ unread[c] <= StreamLengths[c]
                                    /\ StreamLengths[c] \in Nat
      BY <2>1, SenderFacts DEF FrontType
    <3>2. \A c \in Connections : unread[c] \in 0 .. StreamLengths[c] BY <3>1
    <3>3. \A c \in Connections : unread[c] \in Offsets BY <3>2, SenderFacts
    <3> QED BY <3>1, <3>3
  <2> QED BY <2>1, <2>2 DEF SenderTypeOK, FrontType, State
<1> QED BY <1>1, SenderInvCorrect, PTL

(* The link carries a beginning of what was submitted.                     *)
LEMMA WireIsSubmitted ==
  ASSUME IInv
  PROVE  /\ Len(wire) \in Nat /\ Len(Submitted) \in Nat
         /\ Len(wire) <= Len(Submitted)
         /\ \A i \in 1 .. Len(wire) : /\ wire[i].block = Submitted[i]
                                      /\ wire[i].block \in Block
<1> DEFINE T == Block \cup {None}
<1>1. /\ TypeInv /\ Len(wire) <= passed /\ passed <= Len(ordered)
      /\ \A i \in 1 .. Len(wire) : wire[i] = ordered[i]
      /\ wire \in Seq(Item) /\ ordered \in Seq(Item)
      /\ Len(wire) \in Nat /\ passed \in Nat /\ Len(ordered) \in Nat
  BY DEF IInv, TypeInv, TypeOK, QueueInv, WireInv
<1>2. /\ Numbered \in Seq(T) /\ Held \in Seq(T) /\ to_ordering \in Seq(T)
      /\ Len(Numbered) = Len(ordered)
      /\ \A i \in 1 .. Len(ordered) : Numbered[i] = ordered[i].block
  BY <1>1, SubmittedType
<1> HIDE DEF T
<1>3. /\ Numbered \o Held \in Seq(T)
      /\ Len(Numbered \o Held) = Len(Numbered) + Len(Held)
      /\ \A i \in 1 .. Len(Numbered) : (Numbered \o Held)[i] = Numbered[i]
      /\ Len(Held) \in Nat /\ Len(to_ordering) \in Nat
  <2>1. /\ Len(Numbered) \in Nat /\ Len(Held) \in Nat
        /\ Len(to_ordering) \in Nat
    BY <1>2, LenProperties
  <2>2. /\ Numbered \o Held \in Seq(T)
        /\ Len(Numbered \o Held) = Len(Numbered) + Len(Held)
        /\ \A i \in 1 .. Len(Numbered) + Len(Held) :
             (Numbered \o Held)[i] = IF i <= Len(Numbered) THEN Numbered[i]
                                     ELSE Held[i - Len(Numbered)]
    BY <1>2, ConcatProperties
  <2> QED BY <2>1, <2>2
<1>4. /\ Len(Submitted) = Len(Numbered \o Held) + Len(to_ordering)
      /\ \A i \in 1 .. Len(Numbered \o Held) :
           Submitted[i] = (Numbered \o Held)[i]
  BY <1>2, <1>3, ConcatProperties DEF Submitted
<1>5. Len(Submitted) \in Nat /\ Len(wire) <= Len(Submitted)
  BY <1>1, <1>2, <1>3, <1>4
<1>6. ASSUME NEW i \in 1 .. Len(wire)
      PROVE  wire[i].block = Submitted[i] /\ wire[i].block \in Block
  <2>1. i \in 1 .. Len(Numbered) /\ i \in 1 .. Len(Numbered \o Held)
    BY <1>1, <1>2, <1>3
  <2>2. wire[i] \in Item BY <1>1, ElementOfSeq
  <2>3. wire[i].block \in Block BY <2>2 DEF Item
  <2> QED BY <1>1, <1>2, <1>3, <1>4, <2>1, <2>3
<1> QED BY <1>1, <1>5, <1>6

(* Without --flush only the last block of a stream is not full             *)
(* (send/client.rs, the continue of the read loop).                        *)
THEOREM FullBlocksCorrect == SenderSpec => []FullBlocks
<1>1. SenderInv => FullBlocks
  <2> SUFFICES ASSUME SenderInv, ~ Flush, NEW i \in 1 .. Len(wire),
                      wire[i].block.type = "data"
               PROVE  wire[i].block.len = BufferLen
    BY DEF FullBlocks
  <2>1. IInv /\ FullInv BY DEF SenderInv, BlocksInv, StreamsInv
  <2>2. /\ i \in 1 .. Len(Submitted) /\ wire[i].block = Submitted[i]
        /\ wire[i].block # None
    BY <2>1, WireIsSubmitted, BlockFacts
  <2> QED BY <2>1, <2>2 DEF FullInv, IsBlock
<1> QED BY <1>1, SenderInvCorrect, PTL

(* The blocks of each connection on the link are a Start, then contiguous  *)
(* pieces of its stream, the last one an End that reaches the end of the   *)
(* stream or an Abort (send/client.rs, send/server.rs).                    *)
THEOREM StreamIntactCorrect == SenderSpec => []StreamIntact
<1>1. SenderInv => StreamIntact
  <2> DEFINE s == Submitted
             b(j) == wire[j].block
             Earlier(j) == {i \in 1 .. j - 1 : IsOf(i, b(j).client)}
  <2> SUFFICES ASSUME SenderInv, NEW j \in 1 .. Len(wire),
                      b(j).type # "heartbeat"
      PROVE  /\ b(j).type = "start" <=> Earlier(j) = {}
             /\ b(j).type = "start" => b(j).off = 0 /\ b(j).len = 0
             /\ \A i \in Earlier(j) : (\A k \in Earlier(j) : k <= i) =>
                  Follows(b(j), b(i))
             /\ b(j).type = "end" =>
                  \A c \in Connections : client_of[c] = b(j).client =>
                    b(j).off + b(j).len = StreamLengths[c]
    BY DEF StreamIntact, Follows
  <2>1. IInv /\ Intact(s) /\ EndsInv BY DEF SenderInv, BlocksInv, StreamsInv
  <2>2. /\ Len(wire) \in Nat /\ Len(s) \in Nat /\ Len(wire) <= Len(s)
        /\ \A i \in 1 .. Len(wire) : b(i) = s[i] /\ b(i) \in Block
    BY <2>1, WireIsSubmitted
  <2>3. j \in 1 .. Len(s) /\ b(j) = s[j] /\ IsBlock(s[j])
    BY <2>2, BlockFacts DEF IsBlock
  <2>4. ASSUME NEW i \in 1 .. j - 1
        PROVE  /\ IsOf(i, b(j).client) <=> Mine(s, i, s[j].client)
               /\ b(i) = s[i]
    <3>1. i \in 1 .. Len(wire) BY <2>2
    <3>2. b(i) = s[i] /\ s[i] # None BY <2>2, <3>1, BlockFacts
    <3> QED BY <2>3, <3>2 DEF IsOf, Mine, IsBlock
  <2> HIDE DEF s, b
  <2>5. /\ s[j].type = "start"
             <=> \A i \in 1 .. j - 1 : ~ Mine(s, i, s[j].client)
        /\ s[j].type = "start" => s[j].off = 0 /\ s[j].len = 0
        /\ \A i \in 1 .. j - 1 :
             Latest(s, j - 1, s[j].client, i) => Follows(s[j], s[i])
    BY <2>1, <2>3 DEF Intact
  <2>6. b(j).type = "start" <=> Earlier(j) = {} BY <2>3, <2>4, <2>5
  <2>7. ASSUME NEW i \in Earlier(j), \A k \in Earlier(j) : k <= i
        PROVE  Follows(b(j), b(i))
    <3>1. Latest(s, j - 1, s[j].client, i) BY <2>4, <2>7 DEF Latest
    <3> QED BY <2>3, <2>4, <2>5, <3>1
  <2>8. b(j).type = "end" =>
          \A c \in Connections : client_of[c] = b(j).client =>
            b(j).off + b(j).len = StreamLengths[c]
    BY <2>1, <2>3 DEF EndsInv, s
  <2> QED BY <2>3, <2>5, <2>6, <2>7, <2>8
<1> QED BY <1>1, SenderInvCorrect, PTL
=============================================================================
