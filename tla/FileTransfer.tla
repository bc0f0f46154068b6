---------------------------- MODULE FileTransfer ----------------------------
(***************************************************************************)
(* diode-send-file and diode-receive-file: each file is a connection       *)
(* through the diode that carries a header, the bytes of the file and a    *)
(* footer (aux/file/protocol.rs).  Nothing comes back: the sending end     *)
(* goes on to its next file (aux/file/send.rs) while the receiving end,    *)
(* a thread per connection, may still be writing (aux/file/receive.rs).    *)
(*                                                                         *)
(* The diode is the environment: it may stop a connection anywhere and,    *)
(* when a block is lost silently, cut a piece out of it (module Receiver). *)
(* The source files may grow or shrink while they are read.                *)
(***************************************************************************)
EXTENDS Integers, Sequences, FiniteSets, FiniteSetsExt

CONSTANTS
  Transfers,   \* the files to send, see TransfersAssumption
  BufferSize,  \* --buffer-size of diode-receive-file
  MaxFiles,    \* --max-files, 0 for no limit
  MaxLength,   \* bound: length of a source file that changes
  MaxDamage,   \* bound: events that disturb the transfers
  Absent       \* no such file on disk

(* The transfers of one process are sent one after the other, those of     *)
(* several processes at any time.                                          *)
ASSUME TransfersAssumption ==
  Transfers \in Seq([process : Nat, name : STRING, length : Nat,
                     buffer_size : Nat \ {0}, hash : BOOLEAN])

ASSUME FilesAssumption ==
  /\ BufferSize \in Nat \ {0} /\ MaxFiles \in Nat
  /\ MaxLength \in Nat /\ MaxDamage \in Nat

VARIABLES
  verify,    \* --hash of diode-receive-file
  length,    \* the length of each source file
  sender,    \* for each transfer the state of send_file
  stream,    \* for each transfer what is in the diode
  receiver,  \* for each transfer the state of receive_file
  disk,      \* the files of output_dir
  outcome,   \* history: what receive_file returned
  received,  \* history: the bytes it took for the content of the file
  damage,    \* history: what disturbed which transfer
  raced      \* history: the transfers whose file appeared between exists and
             \* open

diodeVars == <<length, stream, damage>>
historyVars == <<outcome, received, raced>>
vars == <<verify, diodeVars, sender, receiver, disk, historyVars>>

T == DOMAIN Transfers
Names == {Transfers[t].name : t \in T}

(* What goes through a connection; the footer is cut in two so that a part *)
(* of it can be missing.                                                   *)
Unit(kind, t, at, hash) ==
  [kind |-> kind, transfer |-> t, at |-> at, hash |-> hash]

Header(t) == Unit("header", t, length[t], <<>>)
Byte(t, i) == Unit("byte", t, i, <<>>)
Footer(t, hash) == [k \in 1 .. 2 |-> Unit("footer", t, k, hash)]
FooterSize == 2

(* What is at a place of a file where nothing was ever written.            *)
ZeroByte == Unit("zero", 0, 0, <<>>)

(* What is hashed, what goes through a connection, what may be on disk.    *)
HashUnits == [kind : {"length", "byte", "zero"}, transfer : Nat, at : Nat,
              hash : {<<>>}]
Units == [kind : {"header", "byte", "footer"}, transfer : T, at : Nat,
          hash : Seq(HashUnits)]
Files == Seq(Units \cup {ZeroByte})

ASSUME AbsentAssumption == Absent \notin Files

(* A hash is what was hashed: no two inputs have the same one.  A footer   *)
(* without a hash holds 0; 16 bytes of anything else are never a hash.     *)
NoHash == <<ZeroByte>>
NotAHash == <<Unit("garbage", 0, 0, <<>>)>>

(* Hash for a slice: the length, then the bytes.                           *)
HashChunk(hasher, chunk) ==
  Append(hasher, Unit("length", 0, Len(chunk), <<>>)) \o chunk

(* Broken variant: what is left in the buffer at the end is not hashed.    *)
HashTailForgotten(hasher, chunk) == hasher

(* Hasher::write: the bytes.                                               *)
HashTail(hasher, chunk) == hasher \o chunk
-----------------------------------------------------------------------------
Init ==
  /\ verify \in BOOLEAN
  /\ length = [t \in T |-> Transfers[t].length]
  /\ sender =
       [t \in T |-> [pc |-> "idle", position |-> 0, cursor |-> 0,
                     hasher |-> <<>>]]
  /\ stream = [t \in T |-> [units |-> <<>>, closed |-> FALSE]]
  /\ receiver =
       [t \in T |-> [pc |-> "idle", cursor |-> 0, remaining |-> 0,
                     hasher |-> <<>>]]
  /\ disk = [n \in Names |-> Absent]
  /\ outcome = [t \in T |-> "none"]
  /\ received = [t \in T |-> <<>>]
  /\ damage = {}
  /\ raced = {}

Disturbs(t, what) ==
  /\ <<t, what>> \notin damage
  /\ Cardinality(damage) < MaxDamage
  /\ damage' = damage \cup {<<t, what>>}

Disturbed(t, what) == <<t, what>> \in damage

(* Diode: the transfer is aborted, after any part of what is in flight.    *)
Cut(t) ==
  /\ sender[t].pc # "idle"
  /\ Disturbs(t, "cut")
  /\ \E n \in 0 .. Len(stream[t].units) :
       stream' = [stream EXCEPT ![t] =
                    [units |-> SubSeq(stream[t].units, 1, n), closed |-> TRUE]]
  /\ UNCHANGED <<verify, length, sender, receiver, disk, historyVars>>

(* Diode: a piece of the stream is lost and nothing says so.  The block    *)
(* that holds the header is not one of those (README, "not modelled").     *)
Hole(t) ==
  /\ Disturbs(t, "hole")
  /\ \E i, j \in DOMAIN stream[t].units :
       /\ i <= j
       /\ stream[t].units[i].kind # "header"
       /\ stream' = [stream EXCEPT ![t].units =
                       SubSeq(@, 1, i - 1) \o SubSeq(@, j + 1, Len(@))]
  /\ UNCHANGED <<verify, length, sender, receiver, disk, historyVars>>

(* Somebody writes to the source file, at its end, or truncates it.        *)
Resize(t) ==
  /\ sender[t].pc = "body"
  /\ Disturbs(t, "resized")
  /\ \E n \in 0 .. MaxLength :
       n # length[t] /\ length' = [length EXCEPT ![t] = n]
  /\ UNCHANGED <<verify, stream, sender, receiver, disk, historyVars>>

(* diode.write_all: what is sent after the connection was aborted is lost. *)
Write(t, units) ==
  IF stream[t].closed THEN stream[t]
  ELSE [stream[t] EXCEPT !.units = @ \o units]

(* send_files: the files of a process are sent in turn, until one is not.  *)
IsNext(t) ==
  /\ sender[t].pc = "idle"
  /\ \A s \in T :
       s < t /\ Transfers[s].process = Transfers[t].process
         => sender[s].pc = "sent"

(* send_file, send_file_aux: connect, open the file and send the header.   *)
SendHeader(t) ==
  /\ IsNext(t)
  /\ sender' = [sender EXCEPT ![t].pc = "body"]
  /\ stream' = [stream EXCEPT ![t] = Write(t, <<Header(t)>>)]
  /\ UNCHANGED <<verify, length, damage, receiver, disk, historyVars>>

(* The bytes of the source file that are in the buffer.                    *)
SendBuffer(t, position, cursor) ==
  [i \in 1 .. cursor |-> Byte(t, position - cursor + i)]

(* send_file_aux: read some bytes; a full buffer is hashed and sent.       *)
SendRead(t) ==
  /\ sender[t].pc = "body"
  /\ \E nread \in 1 .. Transfers[t].buffer_size - sender[t].cursor :
       LET position == sender[t].position + nread
           cursor == sender[t].cursor + nread
           buffer == SendBuffer(t, position, cursor)
       IN /\ position <= length[t]
          /\ IF cursor < Transfers[t].buffer_size
             THEN /\ sender' = [sender EXCEPT ![t].position = position,
                                              ![t].cursor = cursor]
                  /\ UNCHANGED stream
             ELSE /\ sender' = [sender EXCEPT ![t].position = position,
                                              ![t].cursor = 0,
                                              ![t].hasher =
                                                HashChunk(@, buffer)]
                  /\ stream' = [stream EXCEPT ![t] = Write(t, buffer)]
  /\ UNCHANGED <<verify, length, damage, receiver, disk, historyVars>>

(* send_file_aux, at the end of the file: what is left in the buffer, then *)
(* the footer; the connection is closed.                                   *)
SendLast(t, hasher) ==
  /\ sender[t].pc = "body"
  /\ sender[t].position >= length[t]
  /\ LET buffer == SendBuffer(t, sender[t].position, sender[t].cursor)
         hash == IF Transfers[t].hash THEN hasher ELSE NoHash
     IN stream' = [stream EXCEPT ![t] =
                     [Write(t, buffer \o Footer(t, hash))
                        EXCEPT !.closed = TRUE]]
  /\ sender' = [sender EXCEPT ![t].pc = "sent", ![t].cursor = 0,
                              ![t].hasher = hasher]
  /\ UNCHANGED <<verify, length, damage, receiver, disk, historyVars>>

(* Broken variant: the rest is hashed as a slice, as full buffers are.     *)
SendEofHashesChunk(t) ==
  SendLast(t, HashChunk(sender[t].hasher,
                        SendBuffer(t, sender[t].position, sender[t].cursor)))

SendEof(t) ==
  SendLast(t, HashTail(sender[t].hasher,
                       SendBuffer(t, sender[t].position, sender[t].cursor)))

(* send_file_aux: not a file, a read or a write that fails, once the       *)
(* connection is there.                                                    *)
SendFail(t) ==
  /\ IsNext(t) \/ sender[t].pc = "body"
  /\ Disturbs(t, "failed")
  /\ sender' = [sender EXCEPT ![t].pc = "failed"]
  /\ stream' = [stream EXCEPT ![t].closed = TRUE]
  /\ UNCHANGED <<verify, length, receiver, disk, historyVars>>
-----------------------------------------------------------------------------
(* receive_tcp_loop, receive_unix_loop: accept a connection and spawn a    *)
(* thread, whatever becomes of the earlier ones.                           *)
Accept(t) ==
  /\ sender[t].pc # "idle"
  /\ receiver[t].pc = "idle"
  /\ \/ MaxFiles = 0
     \/ Cardinality({s \in T : receiver[s].pc # "idle"}) < MaxFiles
  /\ receiver' = [receiver EXCEPT ![t].pc = "header"]
  /\ UNCHANGED <<verify, diodeVars, sender, disk, historyVars>>

Returns(t, result) ==
  /\ receiver' = [receiver EXCEPT ![t].pc = "done"]
  /\ outcome' = [outcome EXCEPT ![t] = result]

(* No more data will come.                                                 *)
AtEof(t) == stream[t].units = <<>> /\ stream[t].closed

Creating(n) ==
  {s \in T : Transfers[s].name = n /\ receiver[s].pc = "create"}

(* receive_file: the header has come; the file must not exist.             *)
RecvHeaderIf(t, refused) ==
  /\ receiver[t].pc = "header"
  /\ stream[t].units # <<>>
  /\ stream' = [stream EXCEPT ![t].units = Tail(@)]
  /\ IF refused
     THEN Returns(t, "exists") /\ UNCHANGED raced
     ELSE /\ receiver' =
               [receiver EXCEPT ![t].pc = "create",
                                ![t].remaining = Head(stream[t].units).at]
          /\ raced' = IF Creating(Transfers[t].name) = {} THEN raced
                      ELSE raced \cup {t} \cup Creating(Transfers[t].name)
          /\ UNCHANGED outcome
  /\ UNCHANGED <<verify, length, damage, sender, disk, received>>

(* Broken variant: the file is not looked for.                             *)
RecvHeaderAnyway(t) == RecvHeaderIf(t, FALSE)

RecvHeader(t) == RecvHeaderIf(t, disk[Transfers[t].name] # Absent)

(* Header::deserialize_from: the connection ends too early.                *)
RecvHeaderFail(t) ==
  /\ receiver[t].pc = "header"
  /\ AtEof(t)
  /\ Returns(t, "io")
  /\ UNCHANGED <<verify, diodeVars, sender, disk, received, raced>>

(* receive_file: create the file, or truncate the one that has appeared    *)
(* since.                                                                  *)
RecvCreate(t) ==
  /\ receiver[t].pc = "create"
  /\ disk' = [disk EXCEPT ![Transfers[t].name] = <<>>]
  /\ receiver' = [receiver EXCEPT ![t].pc = "body"]
  /\ UNCHANGED <<verify, diodeVars, sender, historyVars>>

(* The first cursor bytes of the buffer, the last ones that were received. *)
RecvBuffer(content, cursor) ==
  SubSeq(content, Len(content) - cursor + 1, Len(content))

(* write_all at the place where the thread is in the file, wherever the    *)
(* file ends by now.                                                       *)
WriteAt(file, offset, bytes) ==
  [i \in 1 .. Max({Len(file), offset + Len(bytes)}) |->
     IF i \in offset + 1 .. offset + Len(bytes) THEN bytes[i - offset]
     ELSE IF i <= Len(file) THEN file[i] ELSE ZeroByte]

(* What receive_file has in its buffer, if anything, goes to the file.     *)
WriteToDisk(t, content, cursor) ==
  IF cursor = 0 THEN UNCHANGED disk
  ELSE disk' = [disk EXCEPT ![Transfers[t].name] =
                  WriteAt(@, Len(content) - cursor,
                          RecvBuffer(content, cursor))]

(* Broken variant: read as much as the buffer takes.                       *)
EndIsBufferSize(t) == BufferSize

(* receive_file: how far the buffer may be filled, not beyond the content. *)
End(t) ==
  IF receiver[t].remaining >= BufferSize - receiver[t].cursor
  THEN BufferSize ELSE receiver[t].cursor + receiver[t].remaining

(* receive_file: read some bytes; a full buffer is hashed and written.     *)
RecvRead(t) ==
  /\ receiver[t].pc = "body"
  /\ \E nread \in 1 .. End(t) - receiver[t].cursor :
       /\ nread <= Len(stream[t].units)
       /\ LET content ==
                received[t] \o SubSeq(stream[t].units, 1, nread)
              cursor == receiver[t].cursor + nread
              read == [receiver[t] EXCEPT !.remaining = @ - nread,
                                          !.cursor = cursor]
          IN /\ received' = [received EXCEPT ![t] = content]
             /\ IF cursor < BufferSize
                THEN /\ receiver' = [receiver EXCEPT ![t] = read]
                     /\ UNCHANGED disk
                ELSE /\ receiver' =
                          [receiver EXCEPT ![t] =
                             [read EXCEPT !.cursor = 0,
                                          !.hasher =
                                            HashChunk(@, RecvBuffer(content,
                                                                   cursor))]]
                     /\ WriteToDisk(t, content, cursor)
       /\ stream' = [stream EXCEPT ![t].units = SubSeq(@, nread + 1, Len(@))]
  /\ UNCHANGED <<verify, length, damage, sender, outcome, raced>>

(* receive_file: read returns 0, because nothing may be read any more or   *)
(* nothing will come.  What is in the buffer is hashed and written.        *)
RecvZero(t) ==
  /\ receiver[t].pc = "body"
  /\ receiver' =
       [receiver EXCEPT ![t].pc = "footer", ![t].cursor = 0,
                        ![t].hasher =
                          HashTail(@, RecvBuffer(received[t],
                                                 receiver[t].cursor))]
  /\ WriteToDisk(t, received[t], receiver[t].cursor)
  /\ UNCHANGED <<verify, diodeVars, sender, historyVars>>

(* Broken variant: a connection that ends too early is read on.            *)
RecvEofReadsOn(t) == End(t) = receiver[t].cursor /\ RecvZero(t)

RecvEof(t) == (End(t) = receiver[t].cursor \/ AtEof(t)) /\ RecvZero(t)

(* The hash in a footer that was read.                                     *)
HashIn(units) ==
  IF [i \in 1 .. 2 |-> <<units[i].kind, units[i].at>>]
       = << <<"footer", 1>>, <<"footer", 2>> >>
  THEN units[1].hash ELSE NotAHash

(* receive_file: check the footer that has come.                           *)
RecvFooter(t) ==
  /\ receiver[t].pc = "footer"
  /\ Len(stream[t].units) >= FooterSize
  /\ Returns(t,
       IF receiver[t].remaining # 0 THEN "size"
       ELSE IF verify /\ HashIn(stream[t].units) # receiver[t].hasher
       THEN "hash" ELSE "ok")
  /\ stream' = [stream EXCEPT ![t].units =
                  SubSeq(@, FooterSize + 1, Len(@))]
  /\ UNCHANGED <<verify, length, damage, sender, disk, received, raced>>

(* Footer::deserialize_from: the connection ends too early.  The file      *)
(* stays as it is.                                                         *)
RecvFooterFail(t) ==
  /\ receiver[t].pc = "footer"
  /\ stream[t].closed
  /\ Len(stream[t].units) < FooterSize
  /\ Returns(t, "io")
  /\ UNCHANGED <<verify, diodeVars, sender, disk, received, raced>>

(* receive_file: open, or a write, fails.                                  *)
RecvFail(t) ==
  /\ receiver[t].pc \in {"create", "body"}
  /\ Disturbs(t, "disk")
  /\ Returns(t, "io")
  /\ UNCHANGED <<verify, length, stream, sender, disk, received, raced>>

Diode(t) == Cut(t) \/ Hole(t) \/ Resize(t)

SendStep(t) ==
  SendHeader(t) \/ SendRead(t) \/ SendEof(t) \/ SendFail(t)

RecvStep(t) ==
  \/ Accept(t)
  \/ RecvHeader(t)
  \/ RecvHeaderFail(t)
  \/ RecvCreate(t)
  \/ RecvRead(t)
  \/ RecvEof(t)
  \/ RecvFooter(t)
  \/ RecvFooterFail(t)
  \/ RecvFail(t)

Next == \E t \in T : Diode(t) \/ SendStep(t) \/ RecvStep(t)

Spec == Init /\ [][Next]_vars

(* Processes and threads run while they are not blocked; nothing has to    *)
(* disturb them.                                                           *)
Fairness == \A t \in T : WF_vars(SendStep(t)) /\ WF_vars(RecvStep(t))

FairSpec == Spec /\ Fairness
-----------------------------------------------------------------------------
TypeOK ==
  /\ verify \in BOOLEAN
  /\ length \in [T -> Nat]
  /\ sender \in [T -> [pc : {"idle", "body", "sent", "failed"},
                       position : Nat, cursor : Nat, hasher : Seq(HashUnits)]]
  /\ \A t \in T : sender[t].cursor < Transfers[t].buffer_size
  /\ stream \in [T -> [units : Seq(Units), closed : BOOLEAN]]
  /\ receiver \in
       [T -> [pc : {"idle", "header", "create", "body", "footer", "done"},
              cursor : 0 .. BufferSize - 1, remaining : Nat,
              hasher : Seq(HashUnits \cup Units)]]
  /\ disk \in [Names -> Files \cup {Absent}]
  /\ received \in [T -> Seq(Units)]
  /\ outcome \in [T -> {"none", "ok", "exists", "io", "size", "hash"}]
  /\ damage \subseteq T \X {"cut", "hole", "resized", "failed", "disk"}
  /\ raced \subseteq T

(* The content that the header announces, of which the sender read as much *)
(* as there was.                                                           *)
Content(t, n) == [i \in 1 .. n |-> Byte(t, i)]

(* A file that is reported as received is the beginning of the one that    *)
(* was sent, byte by byte, wherever the connection was cut and whatever    *)
(* piece of it was lost: the length in the header and the footer behind    *)
(* the content see to that (aux/file/receive.rs).  Without --hash, only a  *)
(* file that grows by what the diode loses escapes.                        *)
AcceptedIsSent ==
  \A t \in T :
    /\ outcome[t] = "ok"
    /\ ~ verify => ~ (Disturbed(t, "hole") /\ Disturbed(t, "resized"))
    => received[t] = Content(t, Len(received[t]))

(* The file that was received stays on disk, whole, whatever is sent under *)
(* the same name before or after, unless two threads looked for the file   *)
(* before one of them had created it (aux/file/receive.rs, exists, open).  *)
FileIntact ==
  \A t \in T \ raced :
    outcome[t] = "ok" => disk[Transfers[t].name] = received[t]

(* Both ends compute the same hash: they cut the stream into the same      *)
(* buffers, or never fill one.                                             *)
HashesAgree(t) ==
  /\ Transfers[t].hash
  /\ \/ Transfers[t].buffer_size = BufferSize
     \/ /\ Transfers[t].length < BufferSize
        /\ Transfers[t].length < Transfers[t].buffer_size

(* A file that nothing disturbs is received, however it is cut into reads  *)
(* on both sides, or refused because there is one of that name.            *)
UndisturbedIsAccepted ==
  \A t \in T :
    /\ outcome[t] # "none"
    /\ \A d \in damage : d[1] # t
    /\ verify => HashesAgree(t)
    => outcome[t] \in {"ok", "exists"}

(* No thread of diode-receive-file waits for ever, even if its connection  *)
(* ends in the middle of the header, the content or the footer.            *)
EveryReceptionEnds ==
  \A t \in T : receiver[t].pc # "idle" ~> outcome[t] # "none"
=============================================================================
