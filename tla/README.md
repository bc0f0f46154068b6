# lidi in TLA+

lidi transfers TCP or Unix streams over a one-way UDP link ("diode"). This
directory holds a TLA+ model of its two core programs, `diode-send` and
`diode-receive`, and of the file transfer built on them, the TLC
configurations that check it on small instances, and TLAPS proofs of the parts
that matter for every number of threads and block numbers. `PROJECT.json` maps
each definition to the lines it was translated from, and lists the runs, the
hazards, the findings and the theorems. Paths below are relative to the
repository (`src/send/...` is the Rust crate).

- [1. The system](#1-the-system)
- [2. The modules](#2-the-modules)
- [3. The runs](#3-the-runs)
- [4. Findings](#4-findings)
- [5. The proofs](#5-the-proofs)
- [6. What is not modelled](#6-what-is-not-modelled)
- [7. The plan](#7-the-plan)

## 1. The system

### Sender (`src/send`)

```
accept loops --C--> server/client x max_clients --Block--> ordering
                                  heartbeat     --Block-->    |
                     (id, Block)                              v
   diode <-- udp <--packets-- encoding x nb_encode_threads <--+
```

| component | state | operations | how it interacts |
|---|---|---|---|
| accept loops (`bin/diode-send.rs`), `new_client`, `stop` | none | hand a connection, or None, over | `to_server`, bounded(1) |
| server worker (`send/server.rs`), one per client slot | connection, client id | take a permit, get a client id, run the client worker, give the permit back, send Abort after an error | semaphore `multiplex_control`, global `CLIENT_ID_COUNTER`, `to_ordering` |
| client worker (`send/client.rs`) | buffer, cursor | Start, reads, Data when the buffer is full or at once with `--flush`, End with what is left | `to_ordering`, bounded(nb_encode_threads) |
| heartbeat (`send/heartbeat.rs`) | none | one Heartbeat block per interval | `to_ordering` |
| ordering (`send/ordering.rs`) | `id: u8` | number the blocks; pass a None on and return | `to_encoding`, `to_send` |
| encoding (`send/encoding.rs`), nb_encode_threads | the block it holds | encode, wait for its turn, send, let the next one pass | mutex and condition variable `block_to_send`, `to_send` |
| udp (`send/udp.rs`, `udp.rs`) | `count` of Nones to come | send the packets; return on a socket error or after the last None | the diode |

Correctness: each stream is on the link as Start, contiguous pieces, End or
Abort, whatever the reads return; blocks leave in the order of their numbers,
without a hole; the encoding workers do not wait for each other; permits
survive errors; every accepted connection ends on the link.
Hard: the parallel workers behind an 8-bit counter, the error paths, the
bounded channels, the None of `stop` that goes through all of it.

### Receiver (`src/receive`)

```
diode --> udp --> reblock --> decode x nb_decode_threads --> dispatch
                     |  block_to_dispatch  |                    |
                     +---------------------+     one queue per transfer
                                                                v
                         client sockets <-- clients/client x max_clients
```

| component | state | operations | how it interacts |
|---|---|---|---|
| udp (`receive/udp.rs`, `udp.rs`) | none | receive a datagram or a batch | unbounded channel |
| reblock (`receive/reblock.rs`) | `blocks_data`, `blocks_ignore`, `cur_id`, `reset` | collect packets by 8-bit number in a window of 127, hand complete blocks over in order, start afresh after `reset_timeout` | `to_decode`; overwrites `block_to_dispatch` |
| decode (`receive/decode.rs`), nb_decode_threads | the block it holds | decode; wait for its turn and pass the block on, or send None at once | mutex and condition variable `block_to_dispatch`, `to_dispatch` |
| dispatch (`receive/dispatch.rs`) | `active_transfers`, `ended_transfers`, `last_heartbeat` | open a queue per Start, forward, close; after a None, abort all active transfers | `to_clients`, one unbounded queue per transfer |
| clients, client (`receive/clients.rs`, `client.rs`), max_clients | permit, queue, client socket | connect, write, `client_end(.., true/false)`, give up after `abort_timeout` or an error | semaphore `multiplex_control` |

Correctness: what is handed to the decoders is made of one block of the sender
each, in order; blocks reach dispatch in that order and without a hole; a
client gets a prefix of its own transfer and is told "finished" only when it
got all of it; every queue is served or done with; permits survive errors.
Hard: losses, delays and reordering of packets, numbers that wrap, restarts of
reblock under the decoders' feet, failures to decode, senders that restart and
use the same client ids again, workers that give up while blocks still come.

### File transfer (`src/aux/file`)

```
diode-send-file --header, content, footer--> diode-send ... diode-receive
                                                                 |
      output_dir <-- one thread per connection (diode-receive-file)
```

| component | state | operations | how it interacts |
|---|---|---|---|
| `send_files` (`aux/file/send.rs`) | buffer, cursor, hasher | per file: connect, header with the length, chunks of `--buffer-size`, the rest, footer with the hash | one connection per file to `diode-send`; nothing comes back |
| `receive_files` (`aux/file/receive.rs`) | count of connections | accept, spawn a thread | listens where `diode-receive` connects |
| `receive_file`, one thread per connection | buffer, cursor, remaining, hasher | header, refuse a name that exists, create or truncate, content up to the announced length, footer, compare | the directory, shared by all threads |

Correctness: a file reported as received is the one that was sent, and stays
so on disk; both ends hash alike whatever the reads return; a file that nothing
disturbs is accepted; no thread waits for ever.
Hard: a connection that ends anywhere, a source file that changes after its
length was sent, two files of one name at once, hashes that depend on how both
ends cut the stream.

### Around them

`src/protocol.rs` (block layout, client ids, RaptorQ parameters), `src/udp.rs`
and `src/sock_utils.rs` (system calls), `src/aux/udp` (datagrams over a lidi
connection), the command lines in `src/bin`, Python bindings.

## 2. The modules

| module | what it models |
|---|---|
| `OrderedPipe` | abstract specification of a parallel stage: items leave in the order in which they entered, at most once each |
| `Delivery` | abstract specification of a receiver: a client gets blocks of its own transfer in order, each at most once, and one outcome |
| `SendPipeline` | ordering, encoding and udp workers of the sender; shown to implement `OrderedPipe` |
| `Sender` | the whole of `diode-send`: accept loops, server, client and heartbeat workers, extending `SendPipeline` |
| `Reblock` | link, udp and reblock workers of the receiver |
| `Decode` | decoding workers, extending `Reblock`; shown to implement `OrderedPipe` |
| `Dispatch` | dispatch worker, client workers and the senders they serve |
| `Receiver` | the whole of `diode-receive`: `Decode` (INSTANCE D) feeds `Dispatch` (INSTANCE X); shown to implement `Delivery` |
| `Protocol` | parameters of RaptorQ and layout of a block, as operators |
| `FileTransfer` | `diode-send-file` and `diode-receive-file`, over an abstract diode |
| `ModularLemmas` | arithmetic modulo m, proved |
| `SendPipeline_proofs`, `Sender_proofs`, `Decode_proofs`, `Dispatch_proofs`, `Receiver_proofs`, `FileTransfer_proofs`, `Protocol_proofs` | theorems and proofs |
| `MC*` | bounded instances for TLC |

Conventions. Variables have the names of the code. A channel is a sequence; a
bounded one has a capacity guard (`HasRoom`). A worker is a `pc` and what it
holds; an action is what it does from one blocking point to the next, all its
effects included. The critical section of an encoding or decoding worker
(wait_while, send, increment) is one action because the mutex is held
throughout; in `SendPipeline` its guard includes room in `to_send`, a worker
that waits for room under the mutex being no different from one that has not
got in yet. An operator that follows the comment "Broken variant" is not part
of the model: it is what the operator after it would be with a plausible bug,
and is there to show that each property notices one (PROJECT.json, mutants).
Histories (`ordered`, `wire`, `passed`, `first`, `lossy`, `client_of`,
`written`, `outcome`) are marked as such and guard no action, with one
exception: `first`'s length numbers the restarts in the messages `Reblock`
sends.

**SendPipeline.** `ordered` is what ordering has numbered, `wire` what udp has
sent. `IdCount` stands for 256. Encoding is data: it takes time (any number of
steps of the others) and changes nothing. The producers are free to submit any
block or None at any time.

**Sender.** A connection is its length; a read takes any positive number of
bytes up to the room in the buffer, and 0 exactly at the end; a block records
which interval of the stream it carries, computed from what was read from the
socket, not from what was sent, so that a forgotten, doubled or misplaced
interval is visible on `wire`. The module extends `SendPipeline`: the steps of
the pipeline are its own, what the producers submit there is what the workers
send here, and `SenderImplementsPipeline` is the theorem that says so. Its
initial state, steps and specification have names that begin with `Sender`.

**Reblock.** `pending[s]` counts the packets of the s-th block of the sender
in flight. The link loses by never delivering and reorders over `MaxSkew`
blocks; the receiver sees the position modulo `IdCount`. `WindowWidth` is
computed as in the code, (IdCount - 1) div 2. The channel from udp to reblock
is merged with the link. `to_decode` is kept as the log of what was sent to it;
`Decode` consumes it by an index. A timeout happens when nothing came for
seconds: what was in flight by then is lost.

**Decode.** `DecodeFail` may strike any block, as RaptorQ decoding may fail
with exactly `min_nb_packets` packets. `SlowDecoders = FALSE` says that
`reset_timeout` elapses only when every decoder waits: the decoders are
faster than seconds. The theorem `LossIsNeverReported` is why the decoders'
branch for `Reassembled::Error` needs no action. The module extends `Reblock`,
of which it restricts one action (`DecodeTimeout`) and leaves the others as
they are, so that what is proved of reblock holds under the decoders; its own
initial state, steps and specification have names that begin with `Decode`.
`NoHole` holds as long as blocks go out `InSequence`: after failures that,
with the blocks held, make more than a lap of the numbers, a block that waits
is let through a lap late.

**Dispatch.** A transfer is its client id, the run of the sender it belongs
to, how many blocks follow Start and how it ends; within a run no id is used
twice, as `CLIENT_ID_COUNTER` only counts up (`TransfersAssumption`). The
senders produce blocks in
order and interleaved; a block can be lost with a None in its place
(`LoseReported`: it failed to decode) or without (`LoseSilently`: what a reset
of reblock loses). The queue of a transfer has two ends, and dropping one is
noticed at the other as in crossbeam: `ReceiverAlive`, `SenderAlive`. What
`BufWriter` still holds counts as written: it is flushed when the worker
returns. The Start block is queued after the queue was handed over, here in
one step: the only thing that can happen in between is that the worker gives
up, which dispatch then notices one block later than in the code, and nothing
looks in between.

**Receiver.** The channel between the halves is `to_dispatch`, the log of what
the decoders sent; `dispatched` counts what dispatch has received of it. The
variable `for_dispatch` of `Dispatch` is an expression over both, and what
`Dispatch` assumed of senders and losses is gone: losses are those of
`Reblock`, Nones those of `Decode`. A packet being a block number and an
order of arrival, `Traffic` says which block each number is.

**Protocol.** No state. A byte has `Byte` values, a u16 two bytes, a u32 four;
what the code computes in these widths is computed modulo. `MCReblock` takes
`NbPackets` and `MinPackets` from it (mtu 88, blocks of 112 bytes, `--repair`
60, `--min-repair` 40), and its ASSUME has TLC evaluate `EnoughIsSent` and
`BlockRoundTrip` over five mtus, eleven block sizes and six percentages each,
with bytes of 16 values, including every payload length of blocks up to 40
bytes. The options that underflow or overflow in `RaptorQ::new` (an mtu below
40, more than 100 percent) are excluded by `ProtocolAssumption`. Those with
which the sum of `min_nb_packets` overflows its u16 are not: `RaptorQ::new`
accepts them, and `EnoughIsSent` says what becomes of them
(`MinNbPacketsFits`); `WrapsHere` makes sure that TLC tries some.

**FileTransfer.** A connection is the sequence of what is in flight: a header,
bytes that know their file and place, a footer in two halves. The diode may cut
it anywhere, at most once, and take a piece out, as `diode-receive` does with
the transfers that `Receiver` shows with holes. A hash is what was hashed, the
lengths that Rust's `Hash` for slices adds included, so that two hashes agree
only if both ends cut the stream alike. A file on disk is what the threads
wrote at their offsets, and `write_all` past the end leaves zeros. `raced`
records the threads between `exists` and `open`, which the code does not
exclude; `damage` records what disturbed whom. Both are histories that guard
nothing but their own bound.

## 3. The runs

| run | instance | checks | shows |
|---|---|---|---|
| `SendPipeline` | 3 workers, 4 numbers, 6 submissions, 1 socket error | `WireInOrder`, `WireIdsConsecutive`, `SomeEncoderMayPass`, `ImplementsOrderedPipe` | order, numbering and progress across a wrap, with as many workers as the numbers allow |
| `Sender` | 2 workers, streams of 3 and 0 bytes, buffer of 2, 2 encoders, a heartbeat, a failing read, a failing send | `StreamIntact`, `FullBlocks`, no deadlock | all splits of the streams, all interleavings, every error path |
| `SenderLive` | 1 worker, 2 encoders, streams of 2 and 1 bytes, `--flush`, stop at the end | `StreamIntact`, `PermitAvailable`, `EveryTransferEnds` | the second connection is served after the first one, even if that one fails, and both end on the link |
| `SenderOneshot` | 1 worker, 1 encoder | `OneshotSendsEverything` | *violated*, see below |
| `Reblock` | 6 numbers (window of 2), 8 blocks of 3 packets, 2 enough, batches of 2, skew of 2, 3 restarts | `WindowFollowsCurrent`, `IgnoredSlotsAreEmpty`, `NoErrorSent`, `ConsecutiveIds`, `InOrderWithoutHole`, `KeepsUp` | the window goes round more than once, with any losses; on a good link what is handed over is what was sent |
| `ReblockLaps` | the same with 7 blocks | `BlocksAreNotMixed` | *violated* |
| `Decode` | 2 decoders, 5 numbers, 7 blocks, 3 restarts, 1 failure | `SomeDecoderMayPass`, `NoHole`, `DispatchedAsSent`, `ImplementsOrderedPipe`, `EveryBlockDispatched` | parallel decoding keeps the order, across restarts and a wrap; on a good link what is dispatched is what was sent |
| `DecodeFault` | 2 decoders, 1 failure, 2 restarts | `RestartRecovers` | *violated* |
| `Dispatch` | 2 workers, 3 transfers over 2 sender runs with one id used twice, 1 loss, 1 failure, abort timeout | `OwnPrefix`, `FinishedIsCompleteIfSound`, `PermitAvailable`, `ActiveIsServed`, `EveryTransferEnds` | transfers are kept apart, outcomes are true, workers are never lost |
| `Receiver` | 2 decoders, 2 workers, 5 blocks of two transfers, a skew of 2, any losses, 1 restart, 1 failure | `ImplementsDelivery`, `FinishedIsCompleteIfClean`, `HandedOverIsFinished` | whatever is lost, overtakes or restarts, clients get their own blocks in order; without losses and failures all of them, and at last |
| `ReceiverFault` | the same with a skew of 1 | `FailureMarksTransfers` | *violated* |
| `FileTransfer` | two files of one name, lengths 3 and 1, buffers of 2 and 3 against 2, with and without `--hash`, any 2 disturbances | `AcceptedIsSent`, `FileIntact`, `UndisturbedIsAccepted`, `EveryReceptionEnds` | what is accepted is what was sent; what is not disturbed is accepted; no thread hangs |

Each passing run also checks the type invariant of its module, `TypeOK`,
`SenderTypeOK` or `DecodeTypeOK` (`SenderLive` relies on the one of `Sender`).

**Bounds.** The numbers of workers, ids and packets are the smallest for which
workers overtake each other, numbers wrap while old ones are in use, and a
block can be complete, incomplete or over-complete. `MaxSubmitted`,
`MaxBlocks`, `MaxRestarts`, `MaxQueue` bound TLC's instances and live in the
MC modules; `MaxUdpFaults`, `MaxReadFaults`, `MaxDecodeFaults`, `MaxFaults`,
`MaxLost`, `MaxDamage`, `Heartbeats` bound events of the environment and are
constants of the modules. `FileTransfer` needs a file of more than one buffer
and one of less, a length that is no multiple of a buffer, and two
disturbances: a hole that a growing file fills takes both. In `Receiver` five blocks are the least for a transfer of two Data
blocks that is interleaved with another one. The window of 2 with 6 numbers keeps the shape of 127 with 256:
less than half of the circle, with two numbers left over (WindowWidth is
(IdCount - 1) div 2 in both). Model values are not declared symmetric: most
instances check liveness or are small enough.

**Deadlock** is checked in `Sender`, where `MCSender` lets a system that is
quiet, or whose udp worker has failed, stutter: any other state without a
successor would be reported. The other instances stop at their bounds.

**Fairness.** Each thread is weakly fair for what it does when it is not
blocked. That suffices although threads compete for channels, permits and the
mutex: a step that another thread can disable for ever would need unbounded
traffic, and in every instance connections, blocks, heartbeats and restarts
are bounded, so that a thread that waits is the only one left in the end; no
order of service is assumed of crossbeam channels, semaphores or condition
variables. Failures and the link are never fair: nothing has to be lost, fail or arrive.
A peer that has connected to `diode-send` is assumed to end its stream, as
there is no timeout on reads in the code. `EveryTransferEnds` of `Dispatch`
needs the abort timeout; `HandedOverIsFinished` of `Receiver` does without,
as all the blocks are there. `EveryReceptionEnds` assumes of the diode that
the connection of a file ends when its sender is done or has failed, which is
what `EveryTransferEnds` shows of the sender and of dispatch.

## 4. Findings

Four statements of the documentation and of comments are refuted by what the
code does; each has a run whose counterexample is a behaviour of the program.

1. **`SenderOneshot`.** `ordering` forwards the None of `stop` directly to
   `to_send` (`src/send/ordering.rs:10`), past `to_encoding` and the encoding
   workers. With one encoding thread udp returns at once, before the blocks in
   the encoding stage, the End among them, are sent. With more, udp waits for
   one None per encoding worker and only one ever comes. In both cases the
    encoding workers never see a None, and the process does not exit. That
   `EveryTransferEnds` holds in `SenderLive`, stop included, is due to its two
   encoders. `diode-send` never calls `stop`, only `diode-oneshot-send` does.
2. **`ReblockLaps`.** Packets of a block that was never completed stay in
   their slot, and a lap later the packets of another block complete the group
   (`src/receive/reblock.rs:84-98`).
3. **`DecodeFault`.** A block that fails to decode leaves `block_to_dispatch`
   behind it (`src/receive/decode.rs:15`). Once all decoders hold blocks after
   it, a reset does not free them, and nothing is ever dispatched again.
4. **`ReceiverFault`.** The None of a block that fails to decode does not wait
   for its turn (`src/receive/decode.rs:17`): it fails the transfers active at
   that moment, which may be before blocks received earlier have been
   dispatched. The decoder with the next block waits for a counter that stays
   behind (`src/receive/decode.rs:15`) until a reset of reblock lets later
   blocks pass: the transfer of the block that waits ends as a success without
   it.

The same outcome, a transfer that ends as "finished" with a hole, has three
more ways, which the instances show when a condition is dropped. Losses: the
two tests for a lost block in reblock can never succeed
(`src/receive/reblock.rs:34,120`, theorem `LossIsNeverReported`), so that a
block lost around a reset is reported by nobody (`FinishedIsComplete` without
`Sound` or `~ lossy`). Slow decoders: a reset overwrites `block_to_dispatch`
(`src/receive/reblock.rs:69`) although blocks handed over before are waiting,
which then wait for a whole lap (`EveryBlockDispatched` and
`FinishedIsCompleteIfClean` with `SlowDecoders`; the channels are unbounded).
Reordering at a reset: the first datagram fixes `cur_id`
(`src/receive/reblock.rs:63`), and an earlier block that it overtook is
dropped (`FinishedIsCompleteIfClean` without `StartsInTurn`).

Read in the code and not checked by a run: `0` does not disable
`--abort-timeout` nor `--heartbeat` although the help says so
(`src/bin/diode-receive.rs:96,126`, `src/bin/diode-send.rs:71`); End blocks
carry data although `src/protocol.rs:32-33` says they do not; the channels of
the receiver are unbounded although `src/receive/mod.rs:4` says bounded; the
heartbeat warning needs total silence (`src/receive/dispatch.rs:22-36`),
whereas `doc/parameters.rst:172` speaks of missing heartbeat messages. With block sizes of more than 32767 symbols and a high
`--min-repair` the receiver waits for fewer packets than a block has symbols
(`MinNbPacketsFits`). In the
file transfer, the error `InvalidFileSize` never comes up: the footer is read
first, and it is not there when the content is short
(`src/aux/file/receive.rs:168-177`); a file that fails stays on disk under its
final name, where it makes the receiver refuse another attempt, which
`UndisturbedIsAccepted` allows; two files of one name that are received at once
may both pass `exists` and are then written over each other
(`src/aux/file/receive.rs:122-134`; `FileIntact` excludes these transfers,
`raced`, and no others); `--max-files`
counts connections, not files received; both ends must have the same
`--buffer-size` for hashes to agree (`HashesAgree`).

## 5. The proofs

`SendPipeline_proofs`, for any finite set of encoding workers smaller than
`IdCount` (`EncodersAssumption`, `IdCountAssumption`), any blocks and any
number of socket errors:

- `TypeCorrect`: `Spec => []TypeOK`; the 8-bit counters stay in range.
- `InvCorrect`: the inductive invariant `IInv`. It numbers the blocks from 1
  on and says where each one is: `1 .. Len(wire)` on the link, up to `passed`
  in `to_send`, from there to `Taken` with the encoding workers, one each
  (`HeldInv`), the rest in `to_encoding` (`QueueInv`); 8-bit numbers are
  positions modulo `IdCount` (`IdInv`). The step that needs it is
  `EncodingSend`: a worker whose 8-bit number equals the counter holds the
  block `passed + 1` and not one of another lap, because there are fewer
  workers than numbers and the blocks held are consecutive. `StopInv` and
  `SendInv` carry the None through `to_send`.
- `WireInOrderCorrect`, `WireIdsCorrect`, `SomeEncoderMayPassCorrect`: the
  three invariants of the run `SendPipeline`, each a consequence of `IInv`.
- `RefinesOrderedPipe`: `Spec => ImplementsOrderedPipe`, with `ordered` as
  `accepted` and `wire` as `delivered`.

`Sender_proofs`, for any streams, any number of client workers, any buffer,
with or without `--flush`, any failures (`SenderAssumption`);
`BlockAssumption` gives `SendPipeline` the blocks of `Sender`. Three layers:

- `WorkersInv`, about the front end alone. A connection is in one place
  (`ConnInv`); client ids are given once each (`ClientInv`: the counter is the
  number of connections served, so that it stays in `ClientId`); what is in a
  buffer was read (`BufferInv`); permits and `Holders` are `max_clients`
  (`PermitInv`). From it `PermitAvailableCorrect`: a worker that waits is not
  a holder.
- `StepOfPipeline`: with `WorkersInv`, each message is a block or None, so that
  each step is one of `SendPipeline` or leaves its variables alone. Hence
  `SenderImplementsPipeline`, and `IInv` of `SendPipeline_proofs` holds.
- `BlocksInv`, about `Submitted`, all that ordering was ever sent in its order:
  what it has numbered, what it holds, what it will receive. No step of the
  pipeline changes it (`SubmittedKept`), a worker appends to it
  (`SubmittedAppend`). `SentInv` ties the position of a worker in its stream to
  the latest block of its client in `Submitted`, `Intact` says of each block
  that it continues the one before it of the same client. Workers do not
  disturb each other because no two have the same client (`OtherClients`).

`wire` is a beginning of `Submitted` (`WireIsSubmitted`, from `WireInv` of the
pipeline), which gives `StreamIntactCorrect` and `FullBlocksCorrect`; with
`IInv` and `WorkersInv`, `SenderTypeCorrect`.

`Decode_proofs`, first part, about module `Reblock`: for any `IdCount > 3`,
any link and any batch:

- `TypeCorrect`: `Spec => []TypeOK`.
- `InvCorrect`: `IInv`, which joins `WindowFollowsCurrent`,
  `IgnoredSlotsAreEmpty` and `NoErrorSent` to the types they need; before the
  first datagram every slot is ignored.
- `WindowCorrect`, `IgnoredSlotsCorrect`, `LossIsNeverReported`. None of them
  is inductive alone: that the opposite slot is empty when it enters the
  window follows from `IgnoredSlotsAreEmpty`, that ignored slots stay empty
  from the position of the window, and that the window moves by exactly one
  from the opposite slot having been empty.
- `ConsecutiveIdsCorrect`, from `IdInv`: `cur_id` follows the last block
  handed over since the restart, or is the number of the first datagram.
- `InOrderWithoutHoleCorrect` and `KeepsUpCorrect`, from `LinkInv` and
  `SlotInv` (`LinkCorrect`): on a link that has lost no more than the repair
  packets, slot `cur_id + k` holds what has come of block `DueBlock + k`, and
  nothing else. What the window adds is a slot for every block that may still
  be in flight: 8-bit numbers tell two of them apart because they are less
  than a lap from each other. Both theorems assume `MaxSkew <= WindowWidth`,
  the link reorders over no more blocks than the window (127) holds; a packet
  that comes later than that is dropped by the code.

`Decode_proofs`, second part, for any number of decoders below `IdCount` (a u8
on the command line, `DecodersAssumption`):

- `DecodeTypeCorrect`: `DecodeSpec => []DecodeTypeOK`.
- `SomeDecoderMayPassCorrect`, `NoHoleCorrect`, from `OrderInv`
  (`OrderCorrect`): while blocks go out in sequence, every position from
  `Done + 1` to `taken` is held by one decoder or belongs to a block that
  failed (`HeldInv`), and `block_to_dispatch` is the number of position
  `Done + 1`, `cur_id` that of the position after the last (`TurnInv`). There
  are fewer of them than numbers, so that only the holder of `Done + 1` may
  pass; and when reblock overwrites the counter nothing is left before it
  (`NothingLeft`).
- `RefinesOrderedPipe`: `DecodeSpec => ImplementsOrderedPipe`. What is
  delivered is what goes out before the first None (`BeforeFault`); `FirstFault`
  says that this prefix grows with `to_dispatch` until then and stays as it is
  afterwards.
- `DispatchedAsSentCorrect`: the above joined to `SlotInv` of the
  first part.

All but the first assume `~ SlowDecoders`: `reset_timeout` is counted in
seconds and decoding a block takes milliseconds. Without it the statements are
false of the code (section 4, slow decoders); TLC shows it.

`Dispatch_proofs`, for any transfers of any sender runs, any number of workers,
losses and failures. Three layers, each inductive on top of the one before:

- `WorkersInv`: types, and permits plus holders are `max_clients`
  (`PermitInv`). `TypeCorrect`, `PermitCorrect` (`[]PermitAvailable`): a worker
  that waits is not a holder, hence there are fewer holders than permits.
- `ServiceInv`: the queue of a transfer is in one place, `to_clients` or one
  worker, and has an outcome exactly when that worker is done (`ServedInv`);
  nobody touches a transfer before its Start is dispatched (`FreshInv`); blocks
  arrive by runs and each transfer's in order (`LinkInv`); an active transfer
  has its worker, no last block in its queue, and no block of an earlier run
  behind it (`ActiveInv`). `ActiveIsServedCorrect`.
- `FlowInv`: `StartFlow` and `ActiveFlow` say of each transfer that may use a
  client id from now on that its blocks come without a gap, or a None comes
  first, starting from the block that dispatch has got to; `QueueInv` that a
  queue is what the worker needs next, up to a last block or an Abort.
  `OwnPrefixCorrect`, `FinishedIsCompleteCorrect`. The point of the argument
  is client ids that a restarted sender uses again: the Start of the new
  transfer comes before any other block of it, or a None takes the old
  transfer out of `active_transfers`; and a block without an active transfer
  is dropped.

`Decode_proofs`, third part, what `Receiver_proofs` needs: `LapInv`, as long as
less than a lap of blocks was sent (`LapStep`), and `FirstInv`, that on a good
link no silence of `reset_timeout` falls between the first datagram and the
first hand-over (`FirstStep`: enough packets have come by then).

`Receiver_proofs`, about both halves together, for any traffic, any link, any
restarts of reblock, any failures, any number of decoders and workers:

- `ReceiverCorrect`: `Spec => []ReceiverInv`. Its parts are `TypeInv` and
  `LapInv` of the first half, `WorkersInv` and `ServiceInv` of the second one,
  and `DeliveryInv`. The lemmas about a step of `Decode_proofs` and
  `Dispatch_proofs` are used through INSTANCE (`DP`, `XP`). For `Dispatch` the
  sender is replaced by `Reached`, the position after the last block that the
  decoders have sent of each transfer, and its channel by `Undispatched`; so a
  step of `dispatch` or of a client worker is one of `Dispatch`
  (`DispatchSteps`, `WorkerSteps`). What the decoders send is not: blocks may be
  missing anywhere (`ReachedGrows`, `ServiceGrows`). `LapInv` says that a
  number stands for one block and that the numbers that reach dispatch only
  grow: a restart never goes back, since nothing of an earlier block is in
  flight any more after a silence (`RestartsAhead`). `DeliveryInv` says that
  what is written and what is queued for a transfer are blocks of it that
  dispatch has received, each further than the one before.
- `TypeCorrect`; `RefinesDelivery`: `Spec => ImplementsDelivery`, with
  `written` as `delivered`.
- `FinishedIsCompleteCorrect`, if `~ SlowDecoders` and
  `MaxSkew <= WindowWidth`: `FinishedIsCompleteIfClean`, from `CleanInv`. As
  long as no more is lost than the repair packets, nothing fails to decode and
  reblock starts in turn (`Clean`), the n-th message to the decoders is the
  n-th block of the traffic (`HandedInTurn`, from `SlotInv` and `FirstInv`),
  and so is the n-th message to dispatch (`CleanIsTraffic`, from `OrderInv`).
  Then a decoder that sends is a sender of `Dispatch` of which nothing is lost
  (`CleanArrive`), and `FlowInv` of `Dispatch_proofs` holds. What is clean was
  clean before (`CleanBefore`), so this is an invariant although losses may
  come later.

The assumptions are those of the two halves (`HalvesAssumption`) and
`TrafficAssumption`: one run of the sender, its transfers started in order,
the blocks of each in their order (`StreamIntactCorrect` on the sender's side),
and less than a lap of blocks. The last one is what the code needs and does
not have: a block that the link delays, or that a decoder holds while reblock
starts afresh, passes for the one of the same number a lap later
(`ReblockLaps`).

`FileTransfer_proofs`, for any transfers (`TransfersAssumption`: names,
lengths, processes, buffers of at least one byte, with or without `--hash`),
any buffer of the receiver (`FilesAssumption`), any number of disturbances;
`AbsentAssumption` only says that the value for "no such file" is no content
of a file. `IInv` says of each transfer (`TransferInv`) and of the directory:

- `StreamOK`: what the receiver took or may still take is what the sender has
  written, of which `k` bytes are missing behind the first `a`, and maybe some
  at the end. A piece is missing only after a `Hole`, the end only after a
  `Cut`. `HeaderOK` and `LengthOK` tie the positions of both ends to the length
  in the header.
- `SenderHashOK`, `ReceiverHashOK`: a hasher holds the file so far, cut into
  full buffers and a rest. `HashedUnique`: a hash has one content and one way
  of being cut, so equal hashes mean equal files, and `HashedSame`: equal files
  have equal hashes if both ends cut alike or never fill a buffer.
- `DiskInv`: a thread that has passed `exists` and is not in `raced` shares the
  name with no other one that writes, and what is on disk is what it has taken
  less what is in its buffer.

From it `TypeCorrect`, `AcceptedIsSentCorrect`, `FileIntactCorrect` and
`UndisturbedIsAcceptedCorrect`. The step that needs all of it is `RecvFooter`
(`FooterAccepts`): a file with a hole has the announced length only if the
footer, or a file that grew, made up for the bytes that are missing; in the
first case there is no footer left to read, in the second the hash, if
checked, differs.

`Protocol_proofs`, for any options within `ProtocolAssumption`:

- `EnoughIsAlwaysSent`, for options that `RaptorQ::new` accepts and `--repair`
  no less than `--min-repair`: what the sender, which does not know
  `--min-repair`, puts on the link of a block is enough for the receiver to
  hand it over; and what the receiver waits for is enough to decode if and only
  if `symbol_count + min_nb_repair_packets` fits a u16 (`MinNbPacketsFits`),
  which the code does not check (`src/protocol.rs:144`). The argument: a
  percentage up to 100 of a u32 does not overflow (`PercentageOf`), truncating
  divisions keep the order (`DivMonotone`), and a sum that wraps is less than
  either of its terms.

`ModularLemmas` holds the arithmetic they rest on (`DivMod`, `ModUnique`, ...).

Model-checked only: liveness (`EveryTransferEnds`, `EveryBlockDispatched`,
`RestartRecovers`, `EveryReceptionEnds`, `HandedOverIsFinished`), which is
beyond TLAPS; and `BlockRoundTrip`, which speaks of bytes. Every other
invariant that a passing run checks, and every refinement, is stated by a
theorem.

## 6. What is not modelled

- The RaptorQ code: a block either has enough packets or not. The bytes of a
  block are in `Protocol` only; elsewhere a block is a record.
- Partial sends, socket buffers and the system calls of `src/udp.rs`: a block
  is sent as a whole or not at all; the link may lose any of its packets.
- `src/aux/udp`: a framing without state between two datagrams. The one-shot
  receiver's exit and its standard output, shared by successive transfers;
  command lines, logging, CPU affinity, Python bindings.
- In `FileTransfer`, the loss of the block that holds the header (the bytes
  that follow would be read as one, with any name and length), a source file
  that is overwritten in place, file modes.
- Heartbeats on the receiving side: a log message.
- What a hole does to a transfer that misses blocks without a None:
  `diode-receive` does not notice it, and the properties on completeness
  exclude it (`Sound`, `~ lossy`).
- A sender that restarts within `reset_timeout` has no action of its own in
  `Reblock`: to the receiver it is a sender of which the rest of the lap is
  lost, since its next block has the number 0 again, and any block may be
  lost. `Dispatch` restarts the sender for the client ids.
- `--encode-threads 0`, with which nothing is ever encoded.

## 7. The plan

Done, in this order: `SendPipeline`, `OrderedPipe`, `Reblock`, `Sender`,
`Decode`, `Dispatch`, `FileTransfer`, `Receiver`, `Protocol`. Next:

1. `Diode`: `Sender`'s wire into `Receiver` through an abstract link, with the
   end-to-end promise (a client gets a prefix of one stream) as the abstract
   specification, `Delivery` being the half of it that `Receiver` implements.
2. The one-shot receiver: one worker, standard output, exit.
3. Partial `sendmmsg` and the heartbeat with its interval.

Proofs: those of section 5 are done, which leaves no safety property of a
passing run without a theorem. Next: `Diode`, from `StreamIntactCorrect` and
`RefinesDelivery`; `Receiver` for several runs of the sender.
