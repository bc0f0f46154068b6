------------------------------ MODULE Dispatch ------------------------------
(***************************************************************************)
(* diode-receive, from the decoders to the client sockets: the dispatch    *)
(* worker opens a queue for each Start block and forwards the other blocks *)
(* to the queue of their client (receive/dispatch.rs); max_clients workers *)
(* take the queues in turn (receive/clients.rs), connect a client and      *)
(* write to it what comes out of the queue (receive/client.rs).            *)
(*                                                                         *)
(* The environment is the rest of the diode: senders, restarted from time  *)
(* to time with a fresh CLIENT_ID_COUNTER, whose blocks come in order; one *)
(* may be lost, with or without the None of the decoders.  Heartbeats only *)
(* feed a log message and are left out.                                    *)
(***************************************************************************)
EXTENDS Integers, Sequences, FiniteSets, SequencesExt

CONSTANTS
  Workers,      \* the client workers, max_clients of them
  Transfers,    \* in the order of their Start: see TransfersAssumption
  AbortTimeout, \* --abort-timeout: whether there is one
  MaxFaults,    \* bound: how often connecting or writing fails
  MaxLost,      \* bound: blocks lost and reported, and transfers damaged
  None

(* For each transfer the number its sender gave it, which run of the       *)
(* sender that was, how many blocks follow Start and which one is last.    *)
(* No two transfers of a run have the same number (CLIENT_ID_COUNTER).     *)
ASSUME TransfersAssumption ==
  /\ Transfers \in Seq([client : Nat, run : Nat, last : Nat \ {0},
                         ends : {"end", "abort"}])
  /\ \A s, t \in DOMAIN Transfers :
       /\ Transfers[s].run = Transfers[t].run
       /\ Transfers[s].client = Transfers[t].client
       => s = t

ASSUME DispatchAssumption ==
  /\ IsFiniteSet(Workers) /\ Workers # {}
  /\ AbortTimeout \in BOOLEAN
  /\ MaxFaults \in Nat /\ MaxLost \in Nat

VARIABLES
  run,               \* senders: the current run
  next,              \* senders: for each transfer, its next block
  reported,          \* senders: blocks lost and reported so far
  damaged,           \* senders: the transfers that lost a block silently
  for_dispatch,      \* channel: Option<Block>
  active_transfers,  \* for each client id, the transfer whose queue it is
  ended_transfers,   \* the same, for the queues kept until they are empty
  queue,             \* channels: the blocks queued for each transfer
  to_clients,        \* channel: the queues opened
  worker,            \* the state of each client worker
  multiplex_control, \* the permits of the semaphore
  written,           \* history: what each transfer wrote to its client
  outcome,           \* history: how it ended
  faults             \* failures so far

linkVars == <<run, next, reported, damaged>>
dispatchVars == <<active_transfers, ended_transfers>>
clientVars == <<worker, multiplex_control, written, outcome, faults>>
vars == <<linkVars, for_dispatch, dispatchVars, queue, to_clients, clientVars>>

T == DOMAIN Transfers
Runs == {Transfers[t].run : t \in T}
ClientIds == {Transfers[t].client : t \in T}

Type(t, pos) ==
  IF pos = 0 THEN "start"
  ELSE IF pos = Transfers[t].last THEN Transfers[t].ends ELSE "data"

(* transfer and pos only serve to tell payloads apart.                     *)
Block(t, pos) ==
  [type |-> Type(t, pos), client |-> Transfers[t].client,
   transfer |-> t, pos |-> pos]

AbortBlock(c) == [type |-> "abort", client |-> c, transfer |-> 0, pos |-> 0]

Blocks ==
  {Block(t, pos) : t \in T, pos \in UNION {0 .. Transfers[s].last : s \in T}}
    \cup {AbortBlock(c) : c \in ClientIds}

Outcomes == {"finished", "aborted", "failed"}

ASSUME NoneAssumption ==
  None \notin T /\ None \notin Blocks /\ None \notin Outcomes

(* Broken variant: the payload of the last block is ignored.               *)
HasPayloadDataOnly(block) == block.type = "data"

HasPayload(block) == block.type \in {"data", "end"}

(* The two ends of the queue of a transfer: the worker drops its end when  *)
(* it is done, dispatch when the transfer is in neither map.               *)
ReceiverAlive(t) ==
  t \in ToSet(to_clients) \/ \E w \in Workers : worker[w].transfer = t

SenderAlive(t) ==
  \E c \in ClientIds : active_transfers[c] = t \/ ended_transfers[c] = t

Idle == [pc |-> "recv", transfer |-> None]
-----------------------------------------------------------------------------
Init ==
  /\ run = 1
  /\ next = [t \in T |-> 0]
  /\ reported = 0
  /\ damaged = {}
  /\ for_dispatch = <<>>
  /\ active_transfers = [c \in ClientIds |-> None]
  /\ ended_transfers = [c \in ClientIds |-> None]
  /\ queue = [t \in T |-> <<>>]
  /\ to_clients = <<>>
  /\ worker = [w \in Workers |-> Idle]
  /\ multiplex_control = Cardinality(Workers)
  /\ written = [t \in T |-> <<>>]
  /\ outcome = [t \in T |-> None]
  /\ faults = 0

(* Senders: the next block of a transfer comes, or gets lost.  Transfers   *)
(* start in order.                                                         *)
Due(t) ==
  /\ Transfers[t].run = run
  /\ next[t] <= Transfers[t].last
  /\ \A s \in T : s < t /\ Transfers[s].run = run => next[s] > 0
  /\ next' = [next EXCEPT ![t] = @ + 1]

Arrive(t) ==
  /\ Due(t)
  /\ for_dispatch' = Append(for_dispatch, Block(t, next[t]))
  /\ UNCHANGED <<run, reported, damaged, dispatchVars, queue, to_clients,
                 clientVars>>

LoseReported(t) ==
  /\ Due(t)
  /\ reported + Cardinality(damaged) < MaxLost
  /\ reported' = reported + 1
  /\ for_dispatch' = Append(for_dispatch, None)
  /\ UNCHANGED <<run, damaged, dispatchVars, queue, to_clients, clientVars>>

LoseSilently(t) ==
  /\ Due(t)
  /\ reported + Cardinality(damaged \cup {t}) <= MaxLost
  /\ damaged' = damaged \cup {t}
  /\ UNCHANGED <<run, reported, for_dispatch, dispatchVars, queue, to_clients,
                 clientVars>>

(* Senders: diode-send is stopped, whatever it was sending, and restarted. *)
SenderRestart ==
  /\ run + 1 \in Runs
  /\ run' = run + 1
  /\ UNCHANGED <<next, reported, damaged, for_dispatch, dispatchVars, queue,
                 to_clients, clientVars>>

(* Broken variant: the None of the decoders is ignored.                    *)
SynchronizationLostIgnored ==
  /\ for_dispatch # <<>>
  /\ Head(for_dispatch) = None
  /\ for_dispatch' = Tail(for_dispatch)
  /\ UNCHANGED <<linkVars, dispatchVars, queue, to_clients, clientVars>>

(* dispatch: after a None every active transfer is sent an Abort.          *)
SynchronizationLost ==
  /\ for_dispatch # <<>>
  /\ Head(for_dispatch) = None
  /\ for_dispatch' = Tail(for_dispatch)
  /\ queue' =
       [t \in T |->
          LET c == Transfers[t].client
          IN IF active_transfers[c] = t /\ ReceiverAlive(t)
             THEN Append(queue[t], AbortBlock(c)) ELSE queue[t]]
  /\ active_transfers' = [c \in ClientIds |-> None]
  /\ UNCHANGED <<linkVars, ended_transfers, to_clients, clientVars>>

(* Broken variant: the queue of an earlier transfer with the same id is    *)
(* used on.                                                                *)
StartTransferReuses ==
  /\ for_dispatch # <<>>
  /\ Head(for_dispatch) # None
  /\ LET block == Head(for_dispatch)
         t == IF active_transfers[block.client] = None THEN block.transfer
              ELSE active_transfers[block.client]
     IN /\ block.type = "start"
        /\ active_transfers' = [active_transfers EXCEPT ![block.client] = t]
        /\ queue' = [queue EXCEPT ![t] = Append(@, block)]
        /\ to_clients' = IF t = block.transfer THEN Append(to_clients, t)
                         ELSE to_clients
  /\ for_dispatch' = Tail(for_dispatch)
  /\ UNCHANGED <<linkVars, ended_transfers, clientVars>>

(* dispatch: a Start block opens a queue, in the place of the one its      *)
(* client id may still have.  A worker that gives up before the block is   *)
(* queued is only noticed with the next block: nothing in between looks.   *)
StartTransfer ==
  /\ for_dispatch # <<>>
  /\ Head(for_dispatch) # None
  /\ LET block == Head(for_dispatch)
         t == block.transfer
     IN /\ block.type = "start"
        /\ active_transfers' = [active_transfers EXCEPT ![block.client] = t]
        /\ queue' = [queue EXCEPT ![t] = <<block>>]
        /\ to_clients' = Append(to_clients, t)
  /\ for_dispatch' = Tail(for_dispatch)
  /\ UNCHANGED <<linkVars, ended_transfers, clientVars>>

(* Broken variant: an ended transfer stays active.                         *)
EndTransferStays(c, t) ==
  /\ ended_transfers' = [ended_transfers EXCEPT ![c] = t]
  /\ UNCHANGED active_transfers

(* dispatch: at the end of a transfer, forget the ended ones whose queue   *)
(* is empty and remember this one.                                         *)
EndTransfer(c, t) ==
  /\ active_transfers' = [active_transfers EXCEPT ![c] = None]
  /\ ended_transfers' =
       [d \in ClientIds |->
          IF d = c THEN t
          ELSE IF ended_transfers[d] # None /\ queue[ended_transfers[d]] = <<>>
          THEN None ELSE ended_transfers[d]]

(* dispatch: forward any other block, if its client is active; a queue     *)
(* whose worker has given up is forgotten.                                 *)
ForwardBlock ==
  /\ for_dispatch # <<>>
  /\ Head(for_dispatch) # None
  /\ LET block == Head(for_dispatch)
         c == block.client
         t == active_transfers[c]
     IN /\ block.type # "start"
        /\ \/ /\ t = None
              /\ UNCHANGED <<queue, dispatchVars>>
           \/ /\ t # None
              /\ ~ ReceiverAlive(t)
              /\ active_transfers' = [active_transfers EXCEPT ![c] = None]
              /\ UNCHANGED <<queue, ended_transfers>>
           \/ /\ t # None
              /\ ReceiverAlive(t)
              /\ queue' = [queue EXCEPT ![t] = Append(@, block)]
              /\ IF block.type = "data" THEN UNCHANGED dispatchVars
                 ELSE EndTransfer(c, t)
  /\ for_dispatch' = Tail(for_dispatch)
  /\ UNCHANGED <<linkVars, to_clients, clientVars>>

(* clients: receive a queue, then a permit.                                *)
ClientsRecv(w) ==
  /\ worker[w].pc = "recv"
  /\ to_clients # <<>>
  /\ to_clients' = Tail(to_clients)
  /\ worker' = [worker EXCEPT ![w] =
                  [pc |-> "wait", transfer |-> Head(to_clients)]]
  /\ UNCHANGED <<linkVars, for_dispatch, dispatchVars, queue,
                 multiplex_control, written, outcome, faults>>

(* Broken variant: the permit is looked at but not taken.                  *)
ClientsWaitFree(w) ==
  /\ worker[w].pc = "wait"
  /\ multiplex_control > 0
  /\ worker' = [worker EXCEPT ![w].pc = "new"]
  /\ UNCHANGED <<linkVars, for_dispatch, dispatchVars, queue, to_clients,
                 multiplex_control, written, outcome, faults>>

ClientsWait(w) ==
  /\ worker[w].pc = "wait"
  /\ multiplex_control > 0
  /\ multiplex_control' = multiplex_control - 1
  /\ worker' = [worker EXCEPT ![w].pc = "new"]
  /\ UNCHANGED <<linkVars, for_dispatch, dispatchVars, queue, to_clients,
                 written, outcome, faults>>

Ends(w, how) ==
  /\ worker' = [worker EXCEPT ![w].pc = "signal"]
  /\ outcome' = [outcome EXCEPT ![worker[w].transfer] = how]

(* client: client_new connects, or fails.                                  *)
ClientNew(w) ==
  /\ worker[w].pc = "new"
  /\ worker' = [worker EXCEPT ![w].pc = "run"]
  /\ UNCHANGED <<linkVars, for_dispatch, dispatchVars, queue, to_clients,
                 multiplex_control, written, outcome, faults>>

(* Broken variant: the error path also gives the permit back itself.       *)
ClientNewFailSignals(w) ==
  /\ worker[w].pc = "new"
  /\ faults < MaxFaults
  /\ faults' = faults + 1
  /\ multiplex_control' = multiplex_control + 1
  /\ Ends(w, "failed")
  /\ UNCHANGED <<linkVars, for_dispatch, dispatchVars, queue, to_clients,
                 written>>

ClientNewFail(w) ==
  /\ worker[w].pc = "new"
  /\ faults < MaxFaults
  /\ faults' = faults + 1
  /\ Ends(w, "failed")
  /\ UNCHANGED <<linkVars, for_dispatch, dispatchVars, queue, to_clients,
                 multiplex_control, written>>

(* What client_end is told of a last block.                                *)
OutcomeOf(block) == IF block.type = "end" THEN "finished" ELSE "aborted"

(* client: receive a block and write its payload; the last block ends the  *)
(* transfer.  What BufWriter keeps back counts as written: it is flushed   *)
(* when the worker returns, at the latest.                                 *)
ClientRecv(w) ==
  /\ worker[w].pc = "run"
  /\ LET t == worker[w].transfer
     IN /\ queue[t] # <<>>
        /\ queue' = [queue EXCEPT ![t] = Tail(@)]
        /\ written' =
             IF HasPayload(Head(queue[t]))
             THEN [written EXCEPT ![t] = Append(@, Head(queue[t]))]
             ELSE written
        /\ IF Head(queue[t]).type \in {"abort", "end"}
           THEN Ends(w, OutcomeOf(Head(queue[t])))
           ELSE UNCHANGED <<worker, outcome>>
  /\ UNCHANGED <<linkVars, for_dispatch, dispatchVars, to_clients,
                 multiplex_control, faults>>

(* client: the write fails, or the flush of what BufWriter has kept back,  *)
(* with which an Abort ends the transfer, too (into_inner).                *)
ClientWriteFail(w) ==
  /\ worker[w].pc = "run"
  /\ LET t == worker[w].transfer
     IN /\ queue[t] # <<>>
        /\ \/ HasPayload(Head(queue[t]))
           \/ Head(queue[t]).type = "abort" /\ written[t] # <<>>
        /\ queue' = [queue EXCEPT ![t] = Tail(@)]
  /\ faults < MaxFaults
  /\ faults' = faults + 1
  /\ Ends(w, "failed")
  /\ UNCHANGED <<linkVars, for_dispatch, dispatchVars, to_clients,
                 multiplex_control, written>>

(* Broken variant: wait without a timeout.                                 *)
ClientGivesUpOnDisconnect(w) ==
  /\ worker[w].pc = "run"
  /\ queue[worker[w].transfer] = <<>>
  /\ ~ SenderAlive(worker[w].transfer)
  /\ Ends(w, "failed")
  /\ UNCHANGED <<linkVars, for_dispatch, dispatchVars, queue, to_clients,
                 multiplex_control, written, faults>>

(* client: nothing came for abort_timeout, or nothing can come any more.   *)
(* client_end is not called.                                               *)
ClientGivesUp(w) ==
  /\ worker[w].pc = "run"
  /\ queue[worker[w].transfer] = <<>>
  /\ AbortTimeout \/ ~ SenderAlive(worker[w].transfer)
  /\ Ends(w, "failed")
  /\ UNCHANGED <<linkVars, for_dispatch, dispatchVars, queue, to_clients,
                 multiplex_control, written, faults>>

(* Broken variant: an error returns before the permit is given back.       *)
ClientsSignalLeaks(w) ==
  /\ worker[w].pc = "signal"
  /\ multiplex_control' =
       IF outcome[worker[w].transfer] = "failed" THEN multiplex_control
       ELSE multiplex_control + 1
  /\ queue' = [queue EXCEPT ![worker[w].transfer] = <<>>]
  /\ worker' = [worker EXCEPT ![w] = Idle]
  /\ UNCHANGED <<linkVars, for_dispatch, dispatchVars, to_clients, written,
                 outcome, faults>>

(* clients: give the permit back and drop the end of the queue.            *)
ClientsSignal(w) ==
  /\ worker[w].pc = "signal"
  /\ multiplex_control' = multiplex_control + 1
  /\ queue' = [queue EXCEPT ![worker[w].transfer] = <<>>]
  /\ worker' = [worker EXCEPT ![w] = Idle]
  /\ UNCHANGED <<linkVars, for_dispatch, dispatchVars, to_clients, written,
                 outcome, faults>>

Senders ==
  \/ \E t \in T : Arrive(t) \/ LoseReported(t) \/ LoseSilently(t)
  \/ SenderRestart

DispatchStep == SynchronizationLost \/ StartTransfer \/ ForwardBlock

WorkerStep(w) ==
  \/ ClientsRecv(w)
  \/ ClientsWait(w)
  \/ ClientNew(w)
  \/ ClientNewFail(w)
  \/ ClientRecv(w)
  \/ ClientWriteFail(w)
  \/ ClientGivesUp(w)
  \/ ClientsSignal(w)

Next == Senders \/ DispatchStep \/ \E w \in Workers : WorkerStep(w)

Spec == Init /\ [][Next]_vars

(* The workers are threads that run while they are not blocked; nothing is *)
(* assumed of the senders.                                                 *)
Fairness ==
  /\ WF_vars(DispatchStep)
  /\ \A w \in Workers : WF_vars(WorkerStep(w))

FairSpec == Spec /\ Fairness
-----------------------------------------------------------------------------
TypeOK ==
  /\ run \in {1} \cup Runs
  /\ next \in [T -> Nat]
  /\ \A t \in T : next[t] <= Transfers[t].last + 1
  /\ reported \in 0 .. MaxLost
  /\ damaged \in SUBSET T
  /\ for_dispatch \in Seq(Blocks \cup {None})
  /\ active_transfers \in [ClientIds -> T \cup {None}]
  /\ ended_transfers \in [ClientIds -> T \cup {None}]
  /\ queue \in [T -> Seq(Blocks)]
  /\ to_clients \in Seq(T)
  /\ worker \in [Workers -> [pc : {"recv", "wait", "new", "run", "signal"},
                             transfer : T \cup {None}]]
  /\ multiplex_control \in 0 .. Cardinality(Workers)
  /\ written \in [T -> Seq(Blocks)]
  /\ outcome \in [T -> Outcomes \cup {None}]
  /\ faults \in 0 .. MaxFaults

(* No block was lost silently under the client id of the transfer.         *)
Sound(t) == \A s \in damaged : Transfers[s].client # Transfers[t].client

Complete(t) ==
  /\ Transfers[t].ends = "end"
  /\ written[t] = [i \in 1 .. Transfers[t].last |-> Block(t, i)]

(* What a client gets is a prefix of its own transfer, whatever the other  *)
(* transfers, their silent losses included, the failures and the losses    *)
(* that were reported, and even if a restarted sender uses the same client *)
(* ids again (receive/dispatch.rs, active_transfers).                      *)
OwnPrefix ==
  \A t \in T : Sound(t) =>
    \A i \in 1 .. Len(written[t]) : written[t][i] = Block(t, i)

(* Unless a block was lost silently, client_end is told true only for a    *)
(* transfer of which every block was written (receive/client.rs).          *)
FinishedIsCompleteIfSound ==
  \A t \in T : Sound(t) /\ outcome[t] = "finished" => Complete(t)

(* The same without the condition: a lost block marks the transfer as      *)
(* failed (receive/dispatch.rs, "Marking all active transfers as failed"). *)
FinishedIsComplete ==
  \A t \in T : outcome[t] = "finished" => Complete(t)

(* A worker that has received a queue finds a permit (receive/clients.rs). *)
PermitAvailable ==
  \A w \in Workers : worker[w].pc = "wait" => multiplex_control > 0

(* A queue that can still receive blocks has a worker to read it: dispatch *)
(* never keeps a transfer active whose queue nobody will ever take, unless *)
(* the worker has given up since the last block (receive/dispatch.rs).     *)
ActiveIsServed ==
  \A c \in ClientIds :
    LET t == active_transfers[c]
    IN t # None /\ ~ ReceiverAlive(t) => outcome[t] = "failed"

(* With an abort timeout every queue opened is done with at last, even if  *)
(* its sender is gone, so that a later transfer finds a worker.            *)
EveryTransferEnds ==
  \A t \in T : t \in ToSet(to_clients) ~> outcome[t] # None
=============================================================================
