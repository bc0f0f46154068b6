------------------------------- MODULE Sender -------------------------------
(***************************************************************************)
(* The whole of diode-send.  Listeners hand connections to max_clients     *)
(* client workers through to_server (send/mod.rs, send/server.rs); a       *)
(* worker reads its connection into a buffer and cuts the stream into      *)
(* blocks (send/client.rs); the heartbeat worker inserts its own blocks    *)
(* (send/heartbeat.rs); everything goes through the ordering, encoding and *)
(* udp workers of SendPipeline.                                            *)
(*                                                                         *)
(* The bytes of a connection are abstracted to their positions: a block    *)
(* records which interval of the stream it carries, taken from what was    *)
(* read from the socket, not from the blocks already sent.                 *)
(***************************************************************************)
EXTENDS SendPipeline

CONSTANTS
  Workers,        \* the client workers, max_clients of them
  StreamLengths,  \* for each connection, in order of arrival, its length
  BufferLen,      \* Block::max_data_len: bytes of a block's payload
  Flush,          \* --flush: send whatever a read returns
  Heartbeats,     \* bound: heartbeat blocks sent
  MaxReadFaults,  \* bound: how many reads may fail
  Oneshot         \* diode-oneshot-send: stop is called after the last client

MaxClients == Cardinality(Workers)
Connections == 1 .. Len(StreamLengths)

ASSUME SenderAssumption ==
  /\ IsFiniteSet(Workers) /\ Workers # {}
  /\ StreamLengths \in Seq(Nat)
  /\ BufferLen \in Nat \ {0}
  /\ Flush \in BOOLEAN /\ Oneshot \in BOOLEAN
  /\ Heartbeats \in Nat /\ MaxReadFaults \in Nat

VARIABLES
  to_server,         \* channel: Option<C>
  accepted,          \* how many connections new_client was called with
  stopped,           \* whether stop was called
  multiplex_control, \* the permits of the semaphore
  next_client_id,    \* CLIENT_ID_COUNTER
  worker,            \* the state of each client worker
  unread,            \* for each connection, the bytes not read yet
  client_of,         \* history: for each connection, its client id, or None
  read_faults,       \* failed reads so far
  heartbeats         \* heartbeat blocks sent so far

ClientId == 0 .. Len(StreamLengths)
Offsets == {0} \cup UNION {0 .. StreamLengths[c] : c \in Connections}

(* A protocol block: off and len say which bytes of the stream it carries. *)
ProtocolBlock ==
  [type : {"heartbeat", "start", "data", "abort", "end"}, client : ClientId,
   off : Offsets, len : 0 .. BufferLen]

ASSUME BlockAssumption == Block = ProtocolBlock /\ None \notin ClientId

(* What submitting a block leaves alone in the pipeline.                   *)
restOfPipeline ==
  <<orderingVars, to_encoding, encoding, block_to_send, to_send, udpVars,
    ordered, passed>>

frontVars == <<to_server, accepted, stopped, multiplex_control,
               next_client_id, worker, unread, client_of, read_faults,
               heartbeats>>
senderVars == <<pipelineVars, frontVars>>

(* A worker waiting for a connection.                                      *)
Idle == [pc |-> "recv", conn |-> None, client |-> None, cursor |-> 0,
         nones |-> 0]

EmptyBlock(type, client) ==
  [type |-> type, client |-> client, off |-> 0, len |-> 0]

(* The bytes in the buffer are the last cursor bytes read.                 *)
BufferedBlock(type, w) ==
  [type |-> type, client |-> worker[w].client,
   off |-> StreamLengths[worker[w].conn] - unread[worker[w].conn]
             - worker[w].cursor,
   len |-> worker[w].cursor]
-----------------------------------------------------------------------------
SenderInit ==
  /\ Init
  /\ to_server = <<>>
  /\ accepted = 0
  /\ stopped = FALSE
  /\ multiplex_control = MaxClients
  /\ next_client_id = 0
  /\ worker = [w \in Workers |-> Idle]
  /\ unread = StreamLengths
  /\ client_of = [c \in Connections |-> None]
  /\ read_faults = 0
  /\ heartbeats = 0

(* Sender::new_client, called by a listener: the channel holds one.        *)
NewClient ==
  /\ accepted < Len(StreamLengths)
  /\ to_server = <<>>
  /\ accepted' = accepted + 1
  /\ to_server' = <<accepted + 1>>
  /\ UNCHANGED <<pipelineVars, stopped, multiplex_control, next_client_id,
                 worker, unread, client_of, read_faults, heartbeats>>

(* Sender::stop, called by diode-oneshot-send after new_client.            *)
Stop ==
  /\ Oneshot
  /\ accepted = Len(StreamLengths)
  /\ ~ stopped
  /\ to_server = <<>>
  /\ stopped' = TRUE
  /\ to_server' = <<None>>
  /\ UNCHANGED <<pipelineVars, accepted, multiplex_control, next_client_id,
                 worker, unread, client_of, read_faults, heartbeats>>

(* server: receive a connection, or None, upon which as many Nones as      *)
(* there are encoding workers are sent to the ordering worker.             *)
ServerRecv(w) ==
  /\ worker[w].pc = "recv"
  /\ to_server # <<>>
  /\ to_server' = <<>>
  /\ worker' =
       [worker EXCEPT ![w] =
          IF Head(to_server) = None
          THEN [Idle EXCEPT !.pc = "stopping", !.nones = N]
          ELSE [Idle EXCEPT !.pc = "wait", !.conn = Head(to_server)]]
  /\ UNCHANGED <<pipelineVars, accepted, stopped, multiplex_control,
                 next_client_id, unread, client_of, read_faults, heartbeats>>

ServerSendNone(w) ==
  /\ worker[w].pc = "stopping"
  /\ SubmitTo(None)
  /\ worker' =
       [worker EXCEPT ![w].nones = @ - 1,
                      ![w].pc = IF worker[w].nones = 1 THEN "done" ELSE @]
  /\ UNCHANGED <<restOfPipeline, to_server, accepted, stopped,
                 multiplex_control, next_client_id, unread, client_of,
                 read_faults, heartbeats>>

(* Broken variant: all connections have the same client id.                *)
ServerWaitSameId(w) ==
  /\ worker[w].pc = "wait"
  /\ multiplex_control > 0
  /\ multiplex_control' = multiplex_control - 1
  /\ client_of' = [client_of EXCEPT ![worker[w].conn] = next_client_id]
  /\ worker' = [worker EXCEPT ![w].pc = "start", ![w].client = next_client_id]
  /\ UNCHANGED <<pipelineVars, to_server, accepted, stopped, next_client_id,
                 unread, read_faults, heartbeats>>

(* server: take a permit, then a client id.                                *)
ServerWait(w) ==
  /\ worker[w].pc = "wait"
  /\ multiplex_control > 0
  /\ multiplex_control' = multiplex_control - 1
  /\ next_client_id' = next_client_id + 1
  /\ client_of' = [client_of EXCEPT ![worker[w].conn] = next_client_id]
  /\ worker' = [worker EXCEPT ![w].pc = "start", ![w].client = next_client_id]
  /\ UNCHANGED <<pipelineVars, to_server, accepted, stopped, unread,
                 read_faults, heartbeats>>

(* client: the Start block.                                                *)
ClientStart(w) ==
  /\ worker[w].pc = "start"
  /\ SubmitTo(EmptyBlock("start", worker[w].client))
  /\ worker' = [worker EXCEPT ![w].pc = "read"]
  /\ UNCHANGED <<restOfPipeline, to_server, accepted, stopped,
                 multiplex_control, next_client_id, unread, client_of,
                 read_faults, heartbeats>>

(* Broken variant: a block after every read.                               *)
BlockIsDueAlways(cursor) == TRUE

(* client: under --flush a block is due at once, otherwise when the buffer *)
(* is full.                                                                *)
BlockIsDue(cursor) == Flush \/ cursor >= BufferLen

(* client: a read of at most what is left of the buffer.  A read of no     *)
(* byte is the end of the stream.                                          *)
ClientRead(w) ==
  /\ worker[w].pc = "read"
  /\ LET c == worker[w].conn
         cursor == worker[w].cursor
     IN \E read \in 0 .. BufferLen - cursor :
          /\ read <= unread[c]
          /\ read = 0 <=> unread[c] = 0
          /\ unread' = [unread EXCEPT ![c] = @ - read]
          /\ worker' =
               [worker EXCEPT
                  ![w].cursor = cursor + read,
                  ![w].pc = IF read = 0 THEN "end"
                            ELSE IF BlockIsDue(cursor + read) THEN "data"
                            ELSE "read"]
  /\ UNCHANGED <<pipelineVars, to_server, accepted, stopped,
                 multiplex_control, next_client_id, client_of, read_faults,
                 heartbeats>>

(* client: a read fails, the worker returns with what it had buffered.     *)
ClientReadFail(w) ==
  /\ worker[w].pc = "read"
  /\ read_faults < MaxReadFaults
  /\ read_faults' = read_faults + 1
  /\ worker' = [worker EXCEPT ![w].pc = "signal_error"]
  /\ UNCHANGED <<pipelineVars, to_server, accepted, stopped,
                 multiplex_control, next_client_id, unread, client_of,
                 heartbeats>>

(* Broken variant: the End block without what is left in the buffer.       *)
DueBlockNoTail(w) ==
  IF worker[w].pc = "end" THEN EmptyBlock("end", worker[w].client)
  ELSE BufferedBlock("data", w)

DueBlock(w) == BufferedBlock(worker[w].pc, w)

(* client: a Data block, or the End block, with the content of the buffer. *)
ClientSend(w) ==
  /\ worker[w].pc \in {"data", "end"}
  /\ SubmitTo(DueBlock(w))
  /\ worker' =
       [worker EXCEPT ![w].cursor = 0,
                      ![w].pc = IF @ = "end" THEN "signal" ELSE "read"]
  /\ UNCHANGED <<restOfPipeline, to_server, accepted, stopped,
                 multiplex_control, next_client_id, unread, client_of,
                 read_faults, heartbeats>>

(* Broken variants: the error path returns early, before the permit is     *)
(* given back or before the Abort block.                                   *)
ServerSignalLeaks(w) ==
  /\ worker[w].pc \in {"signal", "signal_error"}
  /\ multiplex_control' = IF worker[w].pc = "signal"
                          THEN multiplex_control + 1 ELSE multiplex_control
  /\ worker' = [worker EXCEPT
                  ![w] = IF worker[w].pc = "signal" THEN Idle
                         ELSE [worker[w] EXCEPT !.pc = "abort"]]
  /\ UNCHANGED <<pipelineVars, to_server, accepted, stopped,
                 next_client_id, unread, client_of, read_faults, heartbeats>>

ServerSignalNoAbort(w) ==
  /\ worker[w].pc \in {"signal", "signal_error"}
  /\ multiplex_control' = multiplex_control + 1
  /\ worker' = [worker EXCEPT ![w] = Idle]
  /\ UNCHANGED <<pipelineVars, to_server, accepted, stopped,
                 next_client_id, unread, client_of, read_faults, heartbeats>>

(* server: give the permit back, after a success or an error.              *)
ServerSignal(w) ==
  /\ worker[w].pc \in {"signal", "signal_error"}
  /\ multiplex_control' = multiplex_control + 1
  /\ worker' = [worker EXCEPT
                  ![w] = IF worker[w].pc = "signal" THEN Idle
                         ELSE [worker[w] EXCEPT !.pc = "abort"]]
  /\ UNCHANGED <<pipelineVars, to_server, accepted, stopped,
                 next_client_id, unread, client_of, read_faults, heartbeats>>

(* Broken variant: the permit is given back once more.                     *)
ServerAbortSignals(w) ==
  /\ worker[w].pc = "abort"
  /\ SubmitTo(EmptyBlock("abort", worker[w].client))
  /\ worker' = [worker EXCEPT ![w] = Idle]
  /\ multiplex_control' = multiplex_control + 1
  /\ UNCHANGED <<restOfPipeline, to_server, accepted, stopped,
                 next_client_id, unread, client_of, read_faults, heartbeats>>

(* server: the Abort block, sent without a permit.                         *)
ServerAbort(w) ==
  /\ worker[w].pc = "abort"
  /\ SubmitTo(EmptyBlock("abort", worker[w].client))
  /\ worker' = [worker EXCEPT ![w] = Idle]
  /\ UNCHANGED <<restOfPipeline, to_server, accepted, stopped,
                 multiplex_control, next_client_id, unread, client_of,
                 read_faults, heartbeats>>

(* heartbeat: one more block, whenever the duration has elapsed.           *)
Heartbeat ==
  /\ heartbeats < Heartbeats
  /\ heartbeats' = heartbeats + 1
  /\ SubmitTo(EmptyBlock("heartbeat", 0))
  /\ UNCHANGED <<restOfPipeline, to_server, accepted, stopped,
                 multiplex_control, next_client_id, worker, unread, client_of,
                 read_faults>>

WorkerStep(w) ==
  \/ ServerRecv(w)
  \/ ServerSendNone(w)
  \/ ServerWait(w)
  \/ ClientStart(w)
  \/ ClientRead(w)
  \/ ClientReadFail(w)
  \/ ClientSend(w)
  \/ ServerSignal(w)
  \/ ServerAbort(w)

PipelineStep == Pipeline /\ UNCHANGED frontVars

SenderNext ==
  \/ NewClient
  \/ Stop
  \/ \E w \in Workers : WorkerStep(w)
  \/ Heartbeat
  \/ PipelineStep

SenderSpec == SenderInit /\ [][SenderNext]_senderVars

(* Every worker is a thread that runs as long as it is not blocked in a    *)
(* channel, the semaphore or the condition variable; a peer that has       *)
(* connected ends its stream at last.                                      *)
Fairness ==
  /\ WF_senderVars(NewClient)
  /\ \A w \in Workers : WF_senderVars(WorkerStep(w))
  /\ WF_senderVars(Heartbeat)
  /\ WF_senderVars((OrderingRecv \/ OrderingSend \/ OrderingStop)
                     /\ UNCHANGED frontVars)
  /\ \A e \in Encoders :
       WF_senderVars((EncodingRecv(e) \/ EncodingSend(e))
                       /\ UNCHANGED frontVars)
  /\ WF_senderVars((UdpSend \/ UdpNone) /\ UNCHANGED frontVars)

FairSpec == SenderSpec /\ Fairness
-----------------------------------------------------------------------------
SenderTypeOK ==
  /\ TypeOK
  /\ to_server \in {<<>>, <<None>>} \cup {<<c>> : c \in Connections}
  /\ accepted \in 0 .. Len(StreamLengths)
  /\ stopped \in BOOLEAN
  /\ multiplex_control \in 0 .. MaxClients
  /\ next_client_id \in ClientId
  /\ worker \in
       [Workers -> [pc : {"recv", "wait", "start", "read", "data", "end",
                          "signal", "signal_error", "abort", "stopping",
                          "done"},
                    conn : Connections \cup {None},
                    client : ClientId \cup {None},
                    cursor : 0 .. BufferLen,
                    nones : 0 .. N]]
  /\ unread \in [Connections -> Offsets]
  /\ client_of \in [Connections -> ClientId \cup {None}]
  /\ read_faults \in 0 .. MaxReadFaults
  /\ heartbeats \in 0 .. Heartbeats

(* Position i of the link holds a block of this client.                    *)
IsOf(i, client) ==
  wire[i].block.type # "heartbeat" /\ wire[i].block.client = client

(* Whatever the reads return and however the clients interleave, the       *)
(* blocks of each connection on the link are a Start, then contiguous      *)
(* pieces of its stream, the last one possibly an End, which reaches the   *)
(* end of the stream, or an Abort, after which nothing comes               *)
(* (send/client.rs, send/server.rs).                                       *)
StreamIntact ==
  \A j \in 1 .. Len(wire) : wire[j].block.type # "heartbeat" =>
    LET b == wire[j].block
        earlier == {i \in 1 .. j - 1 : IsOf(i, b.client)}
    IN /\ b.type = "start" <=> earlier = {}
       /\ b.type = "start" => b.off = 0 /\ b.len = 0
       /\ \A i \in earlier : (\A k \in earlier : k <= i) =>
            /\ wire[i].block.type \in {"start", "data"}
            /\ b.type \in {"data", "end"} =>
                 b.off = wire[i].block.off + wire[i].block.len
       /\ b.type = "end" =>
            \A c \in Connections :
              client_of[c] = b.client => b.off + b.len = StreamLengths[c]

(* Without --flush only the last block of a stream is not full             *)
(* (send/client.rs, the continue of the read loop).                        *)
FullBlocks ==
  ~ Flush => \A i \in 1 .. Len(wire) :
               wire[i].block.type = "data" => wire[i].block.len = BufferLen

(* A worker that has received a connection finds a permit: an error path   *)
(* that kept one would block a later client for ever (send/server.rs).     *)
PermitAvailable ==
  \A w \in Workers : worker[w].pc = "wait" => multiplex_control > 0

(* Without socket errors every connection accepted ends on the link, by    *)
(* its End or by its Abort; if stop is called, with two encoders or more:  *)
(* with one, OneshotSendsEverything is violated, and so is this.           *)
EveryTransferEnds ==
  \A c \in Connections :
    accepted >= c ~>
      \E i \in 1 .. Len(wire) :
        /\ wire[i].block.client = client_of[c]
        /\ wire[i].block.type \in {"end", "abort"}

(* diode-oneshot-send reads stdin and sends it: when the udp worker has    *)
(* returned, on the None of stop, every block that was numbered before it  *)
(* is on the link (send/ordering.rs, send/udp.rs).                         *)
OneshotSendsEverything ==
  udp_pc = "done" => Len(wire) = Len(ordered)
=============================================================================
