------------------------- MODULE FileTransfer_proofs -------------------------
(***************************************************************************)
(* Proofs about FileTransfer, for any files, any sizes of the buffers and  *)
(* any disturbances.                                                       *)
(***************************************************************************)
EXTENDS FileTransfer, ModularLemmas, SequenceTheorems, TLAPS

(* How much of the source file the sender has written to its connection,   *)
(* and what it has written behind the header.                              *)
Flushed(t) == sender[t].position - sender[t].cursor

FooterHash(t) == IF Transfers[t].hash THEN sender[t].hasher ELSE NoHash

Written(t) ==
  Content(t, Flushed(t))
    \o IF sender[t].pc = "sent" THEN Footer(t, FooterHash(t)) ELSE <<>>

(* What has come of it: all that the receiver took or may still take.      *)
HeaderDue(t) == receiver[t].pc \in {"idle", "header"}

Behind(units) == SubSeq(units, 2, Len(units))

Came(t) ==
  IF HeaderDue(t) THEN Behind(stream[t].units)
  ELSE received[t] \o stream[t].units

(* c is what remains of w: k units are missing behind the first a, and     *)
(* maybe some at the end.                                                  *)
Remains(c, w, a, k) ==
  /\ Len(c) + k <= Len(w)
  /\ \A i \in 1 .. Len(c) : c[i] = w[IF i <= a THEN i ELSE i + k]

(* All of w remains but these k units.                                     *)
RemainsWhole(c, w, a, k) == Len(c) + k = Len(w) /\ a <= Len(c)

StreamOK(t) ==
  receiver[t].pc # "done" => \E a, k \in Nat :
    /\ Remains(Came(t), Written(t), a, k)
    /\ k > 0 => Disturbed(t, "hole")
    /\ ~ Disturbed(t, "cut") => RemainsWhole(Came(t), Written(t), a, k)

(* Until it is read the header is in front; it is there unless the         *)
(* transfer was cut or has failed.                                         *)
HeaderOK(t) ==
  /\ sender[t].pc = "idle" =>
       /\ receiver[t].pc = "idle" /\ stream[t].units = <<>>
       /\ sender[t].position = 0 /\ sender[t].hasher = <<>>
  /\ HeaderDue(t) =>
       /\ received[t] = <<>>
       /\ receiver[t].cursor = 0 /\ receiver[t].hasher = <<>>
       /\ stream[t].units # <<>> =>
            /\ stream[t].units[1].kind = "header"
            /\ ~ Disturbed(t, "resized") => stream[t].units[1].at = length[t]
       /\ sender[t].pc \in {"body", "sent"} /\ ~ Disturbed(t, "cut") =>
            stream[t].units # <<>>
  /\ stream[t].closed <=>
       Disturbed(t, "cut") \/ sender[t].pc \in {"sent", "failed"}

(* The lengths of both ends.                                               *)
LengthOK(t) ==
  /\ sender[t].cursor <= sender[t].position
  /\ receiver[t].cursor <= Len(received[t])
  /\ sender[t].pc = "sent" => sender[t].cursor = 0
  /\ receiver[t].pc \in {"create", "footer"} => receiver[t].cursor = 0
  /\ receiver[t].pc = "create" => received[t] = <<>>
  /\ ~ Disturbed(t, "resized") =>
       /\ length[t] = Transfers[t].length
       /\ sender[t].position <= length[t]
       /\ sender[t].pc = "sent" => sender[t].position = length[t]
       /\ receiver[t].pc \in {"create", "body", "footer"} =>
            receiver[t].remaining + Len(received[t]) = length[t]

(* Where the j-th full buffer of b units begins, counted from 0.           *)
Place(j, b) == j * b

(* h is the hash of c, cut into m full buffers of b units and a rest.      *)
Hashed(h, c, b, m) ==
  /\ Place(m, b) <= Len(c)
  /\ Len(h) = Len(c) + m
  /\ \A j \in 0 .. m - 1 :
       /\ h[Place(j, b) + j + 1] = Unit("length", 0, b, <<>>)
       /\ \A r \in 1 .. b : h[Place(j, b) + j + 1 + r] = c[Place(j, b) + r]
  /\ \A r \in 1 .. Len(c) - Place(m, b) : h[Place(m, b) + m + r] = c[Place(m, b) + r]

SenderHashOK(t) ==
  \E m \in Nat :
    /\ Hashed(sender[t].hasher, Content(t, Flushed(t)),
              Transfers[t].buffer_size, m)
    /\ IF sender[t].pc = "sent"
       THEN Flushed(t) < Place(m + 1, Transfers[t].buffer_size)
       ELSE Flushed(t) = Place(m, Transfers[t].buffer_size)

(* What the receiver has hashed and written to disk.                       *)
Stored(t) == SubSeq(received[t], 1, Len(received[t]) - receiver[t].cursor)

ReceiverHashOK(t) ==
  receiver[t].pc # "done" => \E m \in Nat :
    /\ Hashed(receiver[t].hasher, Stored(t), BufferSize, m)
    /\ IF receiver[t].pc = "footer" THEN Len(Stored(t)) < Place(m + 1, BufferSize)
       ELSE Len(Stored(t)) = Place(m, BufferSize)

(* A transfer that nothing disturbs does not fail and is read to its end.  *)
Undisturbed(t) == \A d \in damage : d[1] # t

UndisturbedOK(t) ==
  Undisturbed(t) =>
    /\ sender[t].pc # "failed"
    /\ receiver[t].pc = "footer" => receiver[t].remaining = 0

OutcomeOK(t) == outcome[t] = "none" <=> receiver[t].pc # "done"

(* All that concerns one transfer.                                         *)
TransferInv(t) ==
  /\ StreamOK(t)
  /\ HeaderOK(t)
  /\ LengthOK(t)
  /\ SenderHashOK(t)
  /\ ReceiverHashOK(t)
  /\ UndisturbedOK(t)
  /\ OutcomeOK(t)

(* The thread of t has the file of its name for itself.                    *)
OwnsFile(t) ==
  receiver[t].pc \in {"create", "body", "footer"} \/ outcome[t] = "ok"

DiskInv ==
  /\ \A t \in T \ raced : OwnsFile(t) =>
       \A s \in T : s # t /\ Transfers[s].name = Transfers[t].name =>
         receiver[s].pc \in {"idle", "header", "done"}
  /\ \A t \in T :
       receiver[t].pc \in {"body", "footer"} \/ outcome[t] = "ok" =>
         disk[Transfers[t].name] # Absent
  /\ \A t \in T \ raced :
       receiver[t].pc \in {"body", "footer"} =>
         disk[Transfers[t].name] = Stored(t)

IInv ==
  /\ TypeOK
  /\ \A t \in T : TransferInv(t)
  /\ DiskInv
  /\ AcceptedIsSent
  /\ FileIntact
  /\ UndisturbedIsAccepted
-----------------------------------------------------------------------------
(* Facts about the constants and the units.                                *)
LEMMA TransferFacts ==
  /\ T \subseteq Nat \ {0}
  /\ \A t \in T : /\ Transfers[t].name \in Names
                  /\ Transfers[t].length \in Nat
                  /\ Transfers[t].buffer_size \in Nat \ {0}
                  /\ Transfers[t].hash \in BOOLEAN
  /\ BufferSize \in Nat \ {0}
<1> DEFINE R == [process : Nat, name : STRING, length : Nat,
                 buffer_size : Nat \ {0}, hash : BOOLEAN]
<1>1. Transfers \in Seq(R) BY TransfersAssumption
<1>2. T = 1 .. Len(Transfers) /\ Len(Transfers) \in Nat BY <1>1 DEF T
<1>3. \A t \in T : Transfers[t] \in R
  <2> HIDE DEF R
  <2> QED BY <1>1, <1>2
<1>4. \A t \in T : Transfers[t].name \in Names BY DEF Names
<1> QED BY <1>2, <1>3, <1>4, FilesAssumption

LEMMA UnitFacts ==
  /\ <<>> \in Seq(HashUnits)
  /\ \A n \in Nat : Unit("length", 0, n, <<>>) \in HashUnits
  /\ ZeroByte \in HashUnits
  /\ \A t \in T : \A i \in Nat :
       /\ Byte(t, i) \in HashUnits /\ Byte(t, i) \in Units
       /\ \A hash \in Seq(HashUnits) : /\ Unit("footer", t, i, hash) \in Units
                                       /\ Unit("header", t, i, hash) \in Units
  /\ \A u \in Units : /\ u.kind \in {"header", "byte", "footer"}
                      /\ u.at \in Nat
  /\ \A kind, t, i, hash : /\ Unit(kind, t, i, hash).kind = kind
                           /\ Unit(kind, t, i, hash).transfer = t
                           /\ Unit(kind, t, i, hash).at = i
                           /\ Unit(kind, t, i, hash).hash = hash
<1>1. <<>> \in Seq(HashUnits) OBVIOUS
<1>2. \A kind, t, i, hash : /\ Unit(kind, t, i, hash).kind = kind
                            /\ Unit(kind, t, i, hash).transfer = t
                            /\ Unit(kind, t, i, hash).at = i
                            /\ Unit(kind, t, i, hash).hash = hash
  BY DEF Unit
<1>3. \A u \in Units : u.kind \in {"header", "byte", "footer"} /\ u.at \in Nat
  BY DEF Units
<1>4. \A n \in Nat : Unit("length", 0, n, <<>>) \in HashUnits
  BY DEF HashUnits, Unit
<1>5. ZeroByte \in HashUnits BY DEF HashUnits, ZeroByte, Unit
<1>6. \A t \in T : \A i \in Nat : Byte(t, i) \in HashUnits
  BY TransferFacts DEF HashUnits, Byte, Unit
<1>7. \A t \in T : \A i \in Nat : \A hash \in Seq(HashUnits) :
        \A kind \in {"header", "byte", "footer"} : Unit(kind, t, i, hash) \in Units
  BY DEF Units, Unit
<1>8. \A t \in T : \A i \in Nat : Byte(t, i) \in Units
  BY <1>1, <1>7 DEF Byte
<1> QED BY <1>1, <1>2, <1>3, <1>4, <1>5, <1>6, <1>7, <1>8

(* The types of the sequences that are sent, hashed and written.           *)
LEMMA SubSeqFacts ==
  ASSUME NEW S, NEW s \in Seq(S), NEW m \in Nat \ {0}, NEW n \in Nat,
         n <= Len(s)
  PROVE  /\ SubSeq(s, m, n) \in Seq(S)
         /\ Len(SubSeq(s, m, n)) = IF m <= n THEN n - m + 1 ELSE 0
         /\ \A i \in 1 .. n - m + 1 : SubSeq(s, m, n)[i] = s[m + i - 1]
<1>1. Len(s) \in Nat /\ \A i \in 1 .. Len(s) : s[i] \in S OBVIOUS
<1>2. \A i \in m .. n : s[i] \in S BY <1>1
<1> QED BY <1>2, SubSeqProperties

LEMMA ConcatFacts ==
  ASSUME NEW S, NEW s \in Seq(S), NEW u \in Seq(S)
  PROVE  /\ s \o u \in Seq(S)
         /\ Len(s \o u) = Len(s) + Len(u)
         /\ \A i \in 1 .. Len(s) : (s \o u)[i] = s[i]
         /\ \A i \in 1 .. Len(u) : (s \o u)[Len(s) + i] = u[i]
<1>1. Len(s) \in Nat /\ Len(u) \in Nat OBVIOUS
<1>2. /\ s \o u \in Seq(S) /\ Len(s \o u) = Len(s) + Len(u)
      /\ \A i \in 1 .. Len(s) + Len(u) :
           (s \o u)[i] = IF i <= Len(s) THEN s[i] ELSE u[i - Len(s)]
  BY ConcatProperties
<1> DEFINE w == s \o u
<1> HIDE DEF w
<1>3. \A i \in 1 .. Len(s) + Len(u) :
           w[i] = IF i <= Len(s) THEN s[i] ELSE u[i - Len(s)]
  BY <1>2 DEF w
<1>4. ASSUME NEW i \in 1 .. Len(u) PROVE w[Len(s) + i] = u[i]
  <2>1. /\ Len(s) + i \in 1 .. Len(s) + Len(u) /\ ~ Len(s) + i <= Len(s)
        /\ (Len(s) + i) - Len(s) = i
    BY <1>1
  <2> QED BY <2>1, <1>3
<1>5. \A i \in 1 .. Len(s) : w[i] = s[i] BY <1>1, <1>3
<1> QED BY <1>2, <1>4, <1>5 DEF w

LEMMA BufferFacts ==
  ASSUME NEW t \in T, NEW position \in Nat, NEW cursor \in Nat,
         cursor <= position
  PROVE  /\ SendBuffer(t, position, cursor) \in Seq(Units)
         /\ SendBuffer(t, position, cursor) \in Seq(HashUnits)
         /\ Len(SendBuffer(t, position, cursor)) = cursor
         /\ \A i \in 1 .. cursor : SendBuffer(t, position, cursor)[i] =
                                     Byte(t, position - cursor + i)
<1>1. \A i \in 1 .. cursor : position - cursor + i \in Nat OBVIOUS
<1>2. \A i \in 1 .. cursor : /\ Byte(t, position - cursor + i) \in Units
                             /\ Byte(t, position - cursor + i) \in HashUnits
  BY <1>1, UnitFacts
<1> DEFINE b(i) == Byte(t, position - cursor + i)
<1> HIDE DEF b
<1>3. \A S : (\A i \in 1 .. cursor : b(i) \in S) =>
        [i \in 1 .. cursor |-> b(i)] \in Seq(S)
  OBVIOUS
<1>4. Len([i \in 1 .. cursor |-> b(i)]) = cursor OBVIOUS
<1> USE DEF b
<1> QED BY <1>2, <1>3, <1>4 DEF SendBuffer

LEMMA HashTypes ==
  ASSUME NEW S, HashUnits \subseteq S,
         NEW hasher \in Seq(S), NEW chunk \in Seq(S)
  PROVE  /\ HashTail(hasher, chunk) \in Seq(S)
         /\ HashChunk(hasher, chunk) \in Seq(S)
<1>1. Unit("length", 0, Len(chunk), <<>>) \in S BY UnitFacts
<1>2. Append(hasher, Unit("length", 0, Len(chunk), <<>>)) \in Seq(S)
  BY <1>1
<1> QED BY <1>2, ConcatProperties DEF HashTail, HashChunk
-----------------------------------------------------------------------------
(* Hashing.  Where the parts of a hash are.                                *)
LEMMA MulMono ==
  ASSUME NEW i \in Nat, NEW j \in Nat, NEW n \in Nat, i <= j
  PROVE  i * n \in Nat /\ j * n \in Nat /\ i * n <= j * n
<1>1. PICK d \in Nat : j = i + d BY j - i \in Nat, j = i + (j - i)
<1>2. /\ i * n \in Nat /\ d * n \in Nat
      /\ j * n = i * n + d * n
  BY <1>1
<1> QED BY <1>2

LEMMA PlaceFacts ==
  ASSUME NEW b \in Nat
  PROVE  /\ Place(0, b) = 0 /\ Place(1, b) = b
         /\ \A j \in Nat : /\ Place(j, b) \in Nat
                          /\ Place(j + 1, b) = Place(j, b) + b
         /\ \A j, m \in Nat : j < m => Place(j, b) + b <= Place(m, b)
<1>1. 0 * b = 0 /\ 1 * b = b OBVIOUS
<1>2. \A j \in Nat : j * b \in Nat /\ (j + 1) * b = j * b + b
  <2> TAKE j \in Nat
  <2>1. j * b \in Nat BY MulMono
  <2> QED BY <2>1
<1>3. ASSUME NEW j \in Nat, NEW m \in Nat, j < m PROVE j * b + b <= m * b
  <2>1. (j + 1) * b <= m * b /\ m * b \in Nat BY <1>3, MulMono
  <2> QED BY <2>1, <1>2
<1> QED BY <1>1, <1>2, <1>3 DEF Place

(* Every place of a hash is in one of the full buffers or behind them.     *)
LEMMA PlaceSplit ==
  ASSUME NEW x \in Nat, NEW m \in Nat, NEW b \in Nat, x < Place(m, b) + m
  PROVE  \E j \in 0 .. m - 1 : \E r \in 0 .. b : x = Place(j, b) + j + r
<1> DEFINE q == x \div (b + 1)
           r == x % (b + 1)
<1>1. q \in Nat /\ r \in 0 .. b /\ x = (b + 1) * q + r
  <2> DEFINE n == b + 1
  <2>1. n \in Nat /\ n > 0 OBVIOUS
  <2> HIDE DEF n
  <2>2. /\ x \div n \in Nat /\ x % n \in 0 .. n - 1
        /\ x = n * (x \div n) + (x % n)
    BY <2>1, DivMod
  <2> USE DEF n
  <2> QED BY <2>2
<1> HIDE DEF q, r
<1>2. x = Place(q, b) + q + r
  <2>1. (b + 1) * q = q * b + q BY <1>1
  <2> QED BY <1>1, <2>1 DEF Place
<1>3. q < m
  <2>1. CASE m <= q
    <3>1. Place(m, b) <= Place(q, b) BY <1>1, <2>1, MulMono DEF Place
    <3>2. Place(m, b) \in Nat /\ Place(q, b) \in Nat BY <1>1, PlaceFacts
    <3> QED BY <1>1, <1>2, <2>1, <3>1, <3>2
  <2> QED BY <1>1, <2>1
<1> QED BY <1>1, <1>2, <1>3

LEMMA BufferOf ==
  ASSUME NEW m \in Nat, NEW b \in Nat \ {0}, NEW i \in Nat, i > 0,
         i <= Place(m, b)
  PROVE  \E j \in 0 .. m - 1 : \E r \in 1 .. b : i = Place(j, b) + r
<1> DEFINE q == (i - 1) \div b
           r == (i - 1) % b
<1>1. q \in Nat /\ r \in 0 .. b - 1 /\ i - 1 = b * q + r
  BY i - 1 \in Nat, DivMod
<1> HIDE DEF q, r
<1>2. Place(q, b) \in Nat /\ i = Place(q, b) + (r + 1)
  <2>1. b * q = q * b BY <1>1
  <2>2. Place(q, b) \in Nat BY <1>1, PlaceFacts
  <2> QED BY <1>1, <2>1, <2>2 DEF Place
<1>3. q < m
  <2>1. CASE m <= q
    <3>1. Place(m, b) <= Place(q, b) BY <1>1, <2>1, MulMono DEF Place
    <3>2. Place(m, b) \in Nat BY PlaceFacts
    <3> QED BY <1>1, <1>2, <3>1, <3>2
  <2> QED BY <1>1, <2>1
<1> QED BY <1>1, <1>2, <1>3

(* d is c followed by chunk.                                               *)
Grown(d, c, chunk) ==
  /\ Len(d) = Len(c) + Len(chunk)
  /\ \A i \in 1 .. Len(c) : d[i] = c[i]
  /\ \A r \in 1 .. Len(chunk) : d[Len(c) + r] = chunk[r]

(* A full buffer is hashed behind full buffers, the rest behind them.      *)
LEMMA HashedChunk ==
  ASSUME NEW S, NEW h \in Seq(S), NEW c \in Seq(S), NEW d \in Seq(S),
         NEW chunk \in Seq(S), NEW b \in Nat, NEW m \in Nat,
         Hashed(h, c, b, m), Len(c) = Place(m, b),
         Len(chunk) = b, Grown(d, c, chunk)
  PROVE  \E n \in Nat : /\ Hashed(HashChunk(h, chunk), d, b, n)
                        /\ Len(d) = Place(n, b)
<1> DEFINE u == Unit("length", 0, b, <<>>)
           g == HashChunk(h, chunk)
<1>1. /\ Place(m, b) \in Nat /\ Place(m + 1, b) = Place(m, b) + b
      /\ Len(h) = Place(m, b) + m
      /\ Len(h) \in Nat /\ Len(chunk) \in Nat
  BY PlaceFacts DEF Hashed
<1>9. /\ Len(d) = Len(c) + b
      /\ \A i \in 1 .. Len(c) : d[i] = c[i]
      /\ \A r \in 1 .. b : d[Len(c) + r] = chunk[r]
  BY DEF Grown
<1>2. /\ Len(g) = Len(h) + 1 + b
      /\ \A i \in 1 .. Len(h) : g[i] = h[i]
      /\ g[Len(h) + 1] = u
      /\ \A r \in 1 .. b : g[Len(h) + 1 + r] = chunk[r]
  <2> DEFINE w == Append(h, u)
  <2>1. /\ w \in Seq(S \cup {u}) /\ chunk \in Seq(S \cup {u}) /\ Len(w) = Len(h) + 1
        /\ \A i \in 1 .. Len(h) : w[i] = h[i]
        /\ w[Len(h) + 1] = u
    <3>1. h \in Seq(S \cup {u}) /\ chunk \in Seq(S \cup {u}) /\ u \in S \cup {u}
      OBVIOUS
    <3> HIDE DEF u
    <3> QED BY <3>1, <1>1
  <2>2. g = w \o chunk BY DEF HashChunk
  <2> HIDE DEF w, g, u
  <2>3. /\ Len(g) = Len(w) + Len(chunk)
        /\ \A i \in 1 .. Len(w) : g[i] = w[i]
        /\ \A r \in 1 .. Len(chunk) : g[Len(w) + r] = chunk[r]
    <3> DEFINE R == S \cup {u}
    <3>1. w \in Seq(R) /\ chunk \in Seq(R) BY <2>1
    <3> HIDE DEF R
    <3>2. /\ Len(w \o chunk) = Len(w) + Len(chunk)
          /\ \A i \in 1 .. Len(w) : (w \o chunk)[i] = w[i]
          /\ \A r \in 1 .. Len(chunk) : (w \o chunk)[Len(w) + r] = chunk[r]
      BY ONLY <3>1, ConcatFacts
    <3> QED BY <3>2, <2>2
  <2> QED BY <2>1, <2>3, <1>1
<1> HIDE DEF g, u
<1>3. ASSUME NEW j \in 0 .. m
      PROVE  /\ g[Place(j, b) + j + 1] = u
             /\ \A r \in 1 .. b : g[Place(j, b) + j + 1 + r] = d[Place(j, b) + r]
  <2>1. CASE j = m
    <3>1. Place(j, b) + j = Len(h) /\ Place(j, b) = Len(c) BY <1>1, <2>1
    <3> QED BY SMTT(30), <3>1, <1>1, <1>2, <1>9
  <2>2. CASE j < m
    <3>1. /\ Place(j, b) \in Nat /\ Place(j, b) + b <= Place(m, b)
      BY <2>2, j \in Nat, PlaceFacts
    <3>2. /\ h[Place(j, b) + j + 1] = u
          /\ \A r \in 1 .. b : h[Place(j, b) + j + 1 + r] = c[Place(j, b) + r]
      BY <2>2 DEF Hashed, u
    <3>3. Place(j, b) + j + 1 \in 1 .. Len(h) BY <1>1, <3>1, <2>2
    <3>4. ASSUME NEW r \in 1 .. b
          PROVE  g[Place(j, b) + j + 1 + r] = d[Place(j, b) + r]
      <4>1. Place(j, b) + j + 1 + r \in 1 .. Len(h) BY <1>1, <3>1, <2>2
      <4>2. Place(j, b) + r \in 1 .. Len(c) BY <1>1, <3>1
      <4> QED BY <4>1, <4>2, <3>2, <1>2, <1>9
    <3> QED BY <3>2, <3>3, <3>4, <1>2
  <2> QED BY <2>1, <2>2
<1>4. Len(d) - Place(m + 1, b) = 0 /\ Len(d) = Place(m + 1, b) BY <1>1, <1>9
<1>5. Len(g) = Len(d) + (m + 1) BY <1>1, <1>2, <1>9
<1>6. \A r \in 1 .. 0 : FALSE OBVIOUS
<1>7. Hashed(g, d, b, m + 1)
  <2>1. \A j \in 0 .. (m + 1) - 1 :
          /\ g[Place(j, b) + j + 1] = Unit("length", 0, b, <<>>)
          /\ \A r \in 1 .. b : g[Place(j, b) + j + 1 + r] = d[Place(j, b) + r]
    BY \A j \in 0 .. (m + 1) - 1 : j \in 0 .. m, <1>3 DEF u
  <2>2. \A r \in 1 .. Len(d) - Place(m + 1, b) :
          g[Place(m + 1, b) + (m + 1) + r] = d[Place(m + 1, b) + r]
    BY <1>4, <1>6
  <2>3. Place(m + 1, b) <= Len(d) BY <1>4
  <2> QED BY <1>5, <2>1, <2>2, <2>3 DEF Hashed
<1>8. m + 1 \in Nat OBVIOUS
<1> QED BY <1>7, <1>4, <1>8 DEF g

LEMMA HashedTail ==
  ASSUME NEW S, NEW h \in Seq(S), NEW c \in Seq(S), NEW d \in Seq(S),
         NEW chunk \in Seq(S), NEW b \in Nat, NEW m \in Nat,
         Hashed(h, c, b, m), Len(c) = Place(m, b), Len(chunk) < b,
         Len(d) = Len(c) + Len(chunk),
         \A i \in 1 .. Len(c) : d[i] = c[i],
         \A r \in 1 .. Len(chunk) : d[Len(c) + r] = chunk[r]
  PROVE  Hashed(HashTail(h, chunk), d, b, m) /\ Len(d) < Place(m + 1, b)
<1> DEFINE g == HashTail(h, chunk)
<1>1. /\ Place(m, b) \in Nat /\ Place(m + 1, b) = Place(m, b) + b
      /\ Len(h) = Place(m, b) + m
      /\ Len(h) \in Nat /\ Len(chunk) \in Nat
  BY PlaceFacts DEF Hashed
<1>2. /\ Len(g) = Len(h) + Len(chunk)
      /\ \A i \in 1 .. Len(h) : g[i] = h[i]
      /\ \A r \in 1 .. Len(chunk) : g[Len(h) + r] = chunk[r]
  BY ConcatFacts DEF HashTail
<1> HIDE DEF g
<1>3. ASSUME NEW j \in 0 .. m - 1
      PROVE  /\ g[Place(j, b) + j + 1] = Unit("length", 0, b, <<>>)
             /\ \A r \in 1 .. b : g[Place(j, b) + j + 1 + r] = d[Place(j, b) + r]
  <2>1. /\ Place(j, b) \in Nat /\ Place(j, b) + b <= Place(m, b)
    BY j \in Nat /\ j < m, PlaceFacts
  <2>2. /\ h[Place(j, b) + j + 1] = Unit("length", 0, b, <<>>)
        /\ \A r \in 1 .. b : h[Place(j, b) + j + 1 + r] = c[Place(j, b) + r]
    BY DEF Hashed
  <2>3. Place(j, b) + j + 1 \in 1 .. Len(h) BY <1>1, <2>1
  <2>4. ASSUME NEW r \in 1 .. b
        PROVE  g[Place(j, b) + j + 1 + r] = d[Place(j, b) + r]
    <3>1. Place(j, b) + j + 1 + r \in 1 .. Len(h) BY SMTT(30), <1>1, <2>1
    <3>2. Place(j, b) + r \in 1 .. Len(c) BY <1>1, <2>1
    <3> QED BY <3>1, <3>2, <2>2, <1>2
  <2> QED BY <2>2, <2>3, <2>4, <1>2
<1>4. Place(m, b) <= Len(d) /\ Len(d) - Place(m, b) = Len(chunk) BY <1>1
<1>5. Len(g) = Len(d) + m BY <1>1, <1>2
<1>6. \A r \in 1 .. Len(d) - Place(m, b) : g[Place(m, b) + m + r] = d[Place(m, b) + r]
  <2>1. Place(m, b) + m = Len(h) /\ Place(m, b) = Len(c) BY <1>1
  <2> QED BY <2>1, <1>2, <1>4
<1>7. Hashed(g, d, b, m) BY <1>3, <1>4, <1>5, <1>6 DEF Hashed
<1> QED BY <1>1, <1>7 DEF g
(* Nothing is hashed at first.                                             *)
LEMMA HashedNothing ==
  ASSUME NEW h, NEW c, NEW b \in Nat, h = <<>>, c = <<>>
  PROVE  Hashed(h, c, b, 0)
<1>1. Place(0, b) = 0 /\ Len(h) = 0 /\ Len(c) = 0 BY PlaceFacts
<1>2. \A i \in 0 .. 0 - 1 : FALSE OBVIOUS
<1>3. \A i \in 1 .. 0 : FALSE OBVIOUS
<1>4. Len(c) - Place(0, b) = 0 BY <1>1
<1> QED BY <1>1, <1>2, <1>3, <1>4 DEF Hashed

(* No content has a length among its units: two contents that have the     *)
(* same hash are the same, whatever the buffers.                           *)
Plain(c) == \A i \in 1 .. Len(c) : c[i].kind # "length"

LEMMA HashedFront ==
  ASSUME NEW h, NEW c, NEW b \in Nat, NEW m \in Nat, Len(c) \in Nat,
         Hashed(h, c, b, m), m > 0
  PROVE  h[1] = Unit("length", 0, b, <<>>) /\ Len(h) > 0
<1>1. Place(0, b) = 0 BY PlaceFacts
<1>2. 0 \in 0 .. m - 1 OBVIOUS
<1>3. h[Place(0, b) + 0 + 1] = Unit("length", 0, b, <<>>) BY <1>2 DEF Hashed
<1>4. Len(h) = Len(c) + m BY DEF Hashed
<1> QED BY <1>1, <1>3, <1>4

LEMMA HashedWhole ==
  ASSUME NEW h, NEW c, NEW b \in Nat, Len(c) \in Nat, Hashed(h, c, b, 0)
  PROVE  Len(h) = Len(c) /\ \A i \in 1 .. Len(c) : h[i] = c[i]
<1>1. Place(0, b) = 0 BY PlaceFacts
<1>2. Len(h) = Len(c) + 0 BY DEF Hashed
<1>3. \A r \in 1 .. Len(c) - Place(0, b) :
        h[Place(0, b) + 0 + r] = c[Place(0, b) + r]
  BY DEF Hashed
<1>4. Len(c) - Place(0, b) = Len(c) BY <1>1
<1>5. \A r \in 1 .. Len(c) : Place(0, b) + 0 + r = r /\ Place(0, b) + r = r
  BY <1>1
<1> QED BY <1>2, <1>3, <1>4, <1>5

LEMMA HashedFewer ==
  ASSUME NEW h, NEW c, NEW d, Len(c) \in Nat, Len(d) \in Nat,
         NEW b \in Nat \ {0}, NEW m \in Nat, NEW n \in Nat,
         Plain(c), Hashed(h, c, b, m), Hashed(h, d, b, n)
  PROVE  ~ m < n
<1> SUFFICES ASSUME m < n PROVE FALSE OBVIOUS
<1>1. /\ Place(m, b) \in Nat /\ Place(n, b) \in Nat
      /\ Place(m, b) + b <= Place(n, b)
  BY PlaceFacts
<1>2. /\ Len(h) = Len(c) + m /\ Len(h) = Len(d) + n
      /\ Place(n, b) <= Len(d)
  BY DEF Hashed
<1>3. h[Place(m, b) + m + 1] = Unit("length", 0, b, <<>>)
  BY m \in 0 .. n - 1 DEF Hashed
<1>4. 1 \in 1 .. Len(c) - Place(m, b) BY <1>1, <1>2
<1>5. h[Place(m, b) + m + 1] = c[Place(m, b) + 1] BY <1>4 DEF Hashed
<1>6. Place(m, b) + 1 \in 1 .. Len(c) BY <1>1, <1>4
<1>7. c[Place(m, b) + 1].kind # "length" BY <1>6 DEF Plain
<1> QED BY <1>3, <1>5, <1>7, UnitFacts

(* Two hashes agree on a content and its cuts.                             *)
LEMMA HashedUnique ==
  ASSUME NEW h, NEW c, NEW d, Len(c) \in Nat, Len(d) \in Nat,
         NEW b \in Nat \ {0}, NEW b2 \in Nat \ {0},
         NEW m \in Nat, NEW n \in Nat,
         Plain(c), Plain(d), Hashed(h, c, b, m), Hashed(h, d, b2, n)
  PROVE  Len(c) = Len(d) /\ \A i \in 1 .. Len(c) : c[i] = d[i]
<1>1. CASE m = 0 /\ n = 0
  BY <1>1, HashedWhole
<1>2. CASE m = 0 /\ n > 0
  <2>1. /\ Len(h) = Len(c) /\ \A i \in 1 .. Len(c) : h[i] = c[i]
        /\ h[1] = Unit("length", 0, b2, <<>>) /\ Len(h) > 0
    BY <1>2, HashedWhole, HashedFront
  <2>2. 1 \in 1 .. Len(c) BY <2>1
  <2> QED BY <2>1, <2>2, UnitFacts DEF Plain
<1>3. CASE m > 0 /\ n = 0
  <2>1. /\ Len(h) = Len(d) /\ \A i \in 1 .. Len(d) : h[i] = d[i]
        /\ h[1] = Unit("length", 0, b, <<>>) /\ Len(h) > 0
    BY <1>3, HashedWhole, HashedFront
  <2>2. 1 \in 1 .. Len(d) BY <2>1
  <2> QED BY <2>1, <2>2, UnitFacts DEF Plain
<1>4. CASE m > 0 /\ n > 0
  <2>1. /\ h[1] = Unit("length", 0, b, <<>>)
        /\ h[1] = Unit("length", 0, b2, <<>>)
    BY <1>4, HashedFront
  <2>2. b = b2 BY <2>1, UnitFacts
  <2>3. ~ m < n /\ ~ n < m BY <2>2, HashedFewer
  <2>4. m = n BY <2>3
  <2>5. Len(c) = Len(d) BY <2>4 DEF Hashed
  <2>6. Place(m, b) \in Nat BY PlaceFacts
  <2>7. ASSUME NEW i \in 1 .. Len(c) PROVE c[i] = d[i]
    <3>1. CASE i > Place(m, b)
      <4>1. PICK r \in 1 .. Len(c) - Place(m, b) : i = Place(m, b) + r
        BY <2>6, <3>1, i - Place(m, b) \in 1 .. Len(c) - Place(m, b),
           i = Place(m, b) + (i - Place(m, b))
      <4>2. h[Place(m, b) + m + r] = c[Place(m, b) + r] BY DEF Hashed
      <4>3. h[Place(m, b) + m + r] = d[Place(m, b) + r]
        BY <2>2, <2>4, <2>5 DEF Hashed
      <4> QED BY <4>1, <4>2, <4>3
    <3>2. CASE i <= Place(m, b)
      <4>1. PICK j \in 0 .. m - 1 : \E r \in 1 .. b : i = Place(j, b) + r
        BY <3>2, BufferOf
      <4>2. PICK r \in 1 .. b : i = Place(j, b) + r BY <4>1
      <4>3. h[Place(j, b) + j + 1 + r] = c[Place(j, b) + r] BY DEF Hashed
      <4>4. h[Place(j, b) + j + 1 + r] = d[Place(j, b) + r]
        BY <2>2, <2>4 DEF Hashed
      <4> QED BY <4>2, <4>3, <4>4
    <3> QED BY <2>6, <3>1, <3>2
  <2> QED BY <2>5, <2>7
<1> QED BY <1>1, <1>2, <1>3, <1>4

(* The same content in the same buffers has the same hash.                 *)
LEMMA HashedSame ==
  ASSUME NEW S, NEW h \in Seq(S), NEW g \in Seq(S),
         NEW c, NEW d, Len(c) \in Nat, Len(c) = Len(d),
         \A i \in 1 .. Len(c) : c[i] = d[i],
         NEW b \in Nat, NEW m \in Nat,
         Hashed(h, c, b, m), Hashed(g, d, b, m)
  PROVE  h = g
<1>1. Len(h) = Len(c) + m /\ Len(g) = Len(h) BY DEF Hashed
<1>2. Place(m, b) \in Nat /\ Place(m, b) <= Len(c) BY PlaceFacts DEF Hashed
<1>3. ASSUME NEW x \in 1 .. Len(h) PROVE h[x] = g[x]
  <2>1. CASE x <= Place(m, b) + m
    <3>1. x - 1 \in Nat /\ x - 1 < Place(m, b) + m BY <1>2, <2>1
    <3>2. PICK j \in 0 .. m - 1 :
            \E r \in 0 .. b : x - 1 = Place(j, b) + j + r
      BY <3>1, PlaceSplit
    <3>3. PICK r \in 0 .. b : x - 1 = Place(j, b) + j + r BY <3>2
    <3>4. /\ Place(j, b) \in Nat /\ j \in Nat
          /\ Place(j, b) + b <= Place(m, b)
      BY j \in Nat /\ j < m, PlaceFacts
    <3>5. CASE r = 0
      <4>1. x = Place(j, b) + j + 1 BY <3>3, <3>4, <3>5
      <4> QED BY <4>1 DEF Hashed
    <3>6. CASE r \in 1 .. b
      <4>1. x = Place(j, b) + j + 1 + r BY <3>3, <3>4
      <4>2. /\ h[Place(j, b) + j + 1 + r] = c[Place(j, b) + r]
            /\ g[Place(j, b) + j + 1 + r] = d[Place(j, b) + r]
        BY <3>6 DEF Hashed
      <4>3. Place(j, b) + r \in 1 .. Len(c) BY <1>2, <3>4, <3>6
      <4> QED BY <4>1, <4>2, <4>3
    <3> QED BY <3>5, <3>6
  <2>2. CASE x > Place(m, b) + m
    <3>1. PICK r \in 1 .. Len(c) - Place(m, b) : x = Place(m, b) + m + r
      BY <1>1, <1>2, <2>2,
         x - (Place(m, b) + m) \in 1 .. Len(c) - Place(m, b),
         x = Place(m, b) + m + (x - (Place(m, b) + m))
    <3>2. /\ h[Place(m, b) + m + r] = c[Place(m, b) + r]
          /\ g[Place(m, b) + m + r] = d[Place(m, b) + r]
      BY DEF Hashed
    <3>3. Place(m, b) + r \in 1 .. Len(c) BY <1>2
    <3> QED BY <3>1, <3>2, <3>3
  <2> QED BY <1>2, <2>1, <2>2
<1> QED BY <1>1, <1>3, SeqEqual
-----------------------------------------------------------------------------
(* What the operators of the two ends return.                              *)
LEMMA MaxFacts ==
  ASSUME NEW x \in Nat, NEW y \in Nat
  PROVE  Max({x, y}) = IF x >= y THEN x ELSE y
<1> DEFINE m == IF x >= y THEN x ELSE y
           P(z) == z \in {x, y} /\ \A w \in {x, y} : z >= w
<1>1. P(m) OBVIOUS
<1>2. \A z : P(z) => z = m OBVIOUS
<1>3. Max({x, y}) = CHOOSE z \in {x, y} : \A w \in {x, y} : z >= w BY DEF Max
<1>4. Max({x, y}) = CHOOSE z : P(z) BY <1>3
<1> HIDE DEF P, m
<1>5. P(CHOOSE z : P(z)) BY <1>1
<1> QED BY <1>2, <1>4, <1>5 DEF m

LEMMA WriteAtFacts ==
  ASSUME NEW file \in Files, NEW offset \in Nat, NEW bytes \in Seq(Units)
  PROVE  /\ WriteAt(file, offset, bytes) \in Files
         /\ offset = Len(file) => WriteAt(file, offset, bytes) = file \o bytes
<1> DEFINE n == Max({Len(file), offset + Len(bytes)})
           at(i) == IF i \in offset + 1 .. offset + Len(bytes)
                    THEN bytes[i - offset]
                    ELSE IF i <= Len(file) THEN file[i] ELSE ZeroByte
           S == Units \cup {ZeroByte}
           w == [i \in 1 .. n |-> at(i)]
<1>1. /\ file \in Seq(S) /\ bytes \in Seq(S)
      /\ Len(file) \in Nat /\ Len(bytes) \in Nat
  BY DEF Files
<1>2. n = IF Len(file) >= offset + Len(bytes) THEN Len(file)
          ELSE offset + Len(bytes)
  BY <1>1, MaxFacts
<1>3. n \in Nat BY <1>1, <1>2
<1> HIDE DEF n
<1>4. ASSUME NEW i \in 1 .. n PROVE at(i) \in S
  <2>1. CASE i \in offset + 1 .. offset + Len(bytes)
    <3>1. i - offset \in 1 .. Len(bytes) BY <1>1, <2>1
    <3> QED BY <1>1, <2>1, <3>1
  <2>2. CASE i \notin offset + 1 .. offset + Len(bytes) /\ i <= Len(file)
    <3>1. i \in 1 .. Len(file) BY <1>1, <1>3, <2>2
    <3> QED BY <1>1, <2>2, <3>1
  <2>3. CASE i \notin offset + 1 .. offset + Len(bytes) /\ ~ i <= Len(file)
    BY <2>3
  <2> QED BY <2>1, <2>2, <2>3
<1>5. w \in Seq(S) /\ Len(w) = n /\ \A i \in 1 .. n : w[i] = at(i)
  <2> HIDE DEF at, S
  <2> QED BY <1>3, <1>4
<1>6. WriteAt(file, offset, bytes) = w BY DEF WriteAt, n
<1>7. ASSUME offset = Len(file) PROVE w = file \o bytes
  <2>1. /\ file \o bytes \in Seq(S)
        /\ Len(file \o bytes) = Len(file) + Len(bytes)
        /\ \A i \in 1 .. Len(file) : (file \o bytes)[i] = file[i]
        /\ \A i \in 1 .. Len(bytes) : (file \o bytes)[Len(file) + i] = bytes[i]
    <3> HIDE DEF S
    <3> QED BY <1>1, ConcatFacts
  <2>2. n = Len(file) + Len(bytes) BY <1>1, <1>2, <1>7
  <2> DEFINE v == file \o bytes
  <2> HIDE DEF v, w
  <2>3. ASSUME NEW i \in 1 .. n PROVE at(i) = v[i]
    <3>1. CASE i <= Len(file)
      <4>1. i \in 1 .. Len(file) /\ i \notin offset + 1 .. offset + Len(bytes)
        BY <1>1, <1>3, <1>7, <3>1
      <4> QED BY <2>1, <4>1, <3>1 DEF v
    <3>2. CASE ~ i <= Len(file)
      <4>1. PICK r \in 1 .. Len(bytes) : i = Len(file) + r
        BY <1>1, <1>3, <2>2, <3>2, i - Len(file) \in 1 .. Len(bytes),
           i = Len(file) + (i - Len(file))
      <4>2. i \in offset + 1 .. offset + Len(bytes) /\ i - offset = r
        BY <1>1, <1>7, <4>1
      <4> QED BY <2>1, <4>1, <4>2 DEF v
    <3> QED BY <3>1, <3>2
  <2>4. Len(w) = Len(v) /\ \A i \in 1 .. Len(w) : w[i] = v[i]
    BY <1>5, <2>1, <2>2, <2>3 DEF v
  <2>5. v \in Seq(S) /\ w \in Seq(S) BY <1>5, <2>1 DEF v
  <2> HIDE DEF S
  <2>6. w = v BY <2>4, <2>5, SeqEqual
  <2> QED BY <2>6 DEF v
<1>8. w \in Files BY <1>5 DEF Files
<1> HIDE DEF w
<1> QED BY <1>6, <1>7, <1>8

(* The buffer of the receiver holds the last units that were received.     *)
LEMMA RecvBufferFacts ==
  ASSUME NEW S, NEW content \in Seq(S), NEW cursor \in Nat,
         cursor <= Len(content)
  PROVE  /\ RecvBuffer(content, cursor) \in Seq(S)
         /\ Len(RecvBuffer(content, cursor)) = cursor
         /\ \A r \in 1 .. cursor : RecvBuffer(content, cursor)[r] =
                                     content[Len(content) - cursor + r]
<1> DEFINE m == Len(content) - cursor + 1
           n == Len(content)
<1>1. m \in Nat \ {0} /\ n \in Nat /\ n - m + 1 = cursor /\ n <= Len(content)
  OBVIOUS
<1>2. \A r \in 1 .. cursor : m + r - 1 = Len(content) - cursor + r OBVIOUS
<1>3. RecvBuffer(content, cursor) = SubSeq(content, m, n) BY DEF RecvBuffer
<1> HIDE DEF m, n
<1>4. /\ SubSeq(content, m, n) \in Seq(S)
      /\ Len(SubSeq(content, m, n)) = IF m <= n THEN n - m + 1 ELSE 0
      /\ \A i \in 1 .. n - m + 1 : SubSeq(content, m, n)[i] = content[m + i - 1]
  BY <1>1, SubSeqFacts
<1>5. Len(SubSeq(content, m, n)) = cursor BY <1>1, <1>4
<1> QED BY <1>1, <1>2, <1>3, <1>4, <1>5

(* A content followed by its buffer: what was before the buffer, and it.   *)
LEMMA RecvBufferSplits ==
  ASSUME NEW S, NEW content \in Seq(S), NEW cursor \in Nat,
         cursor <= Len(content)
  PROVE  SubSeq(content, 1, Len(content) - cursor)
           \o RecvBuffer(content, cursor) = content
<1> DEFINE n == Len(content) - cursor
           a == SubSeq(content, 1, n)
           b == RecvBuffer(content, cursor)
<1>1. n \in Nat /\ n <= Len(content) /\ Len(content) = n + cursor OBVIOUS
<1>2. \A i \in 1 .. n : 1 + i - 1 = i OBVIOUS
<1> HIDE DEF n
<1>3. a \in Seq(S) /\ Len(a) = n /\ \A i \in 1 .. n : a[i] = content[i]
  <2>1. n - 1 + 1 = n /\ (~ 1 <= n => n = 0) BY <1>1
  <2>2. /\ a \in Seq(S)
        /\ Len(a) = IF 1 <= n THEN n - 1 + 1 ELSE 0
        /\ \A i \in 1 .. n - 1 + 1 : a[i] = content[1 + i - 1]
    BY <1>1, SubSeqFacts, 1 \in Nat \ {0}
  <2> HIDE DEF a
  <2> QED BY <1>2, <2>1, <2>2
<1>4. /\ b \in Seq(S) /\ Len(b) = cursor
      /\ \A r \in 1 .. cursor : b[r] = content[n + r]
  BY RecvBufferFacts DEF n
<1> HIDE DEF a, b
<1>5. /\ a \o b \in Seq(S) /\ Len(a \o b) = n + cursor
      /\ \A i \in 1 .. n : (a \o b)[i] = a[i]
      /\ \A i \in 1 .. cursor : (a \o b)[n + i] = b[i]
  <2>0. a \in Seq(S) /\ b \in Seq(S) BY <1>3, <1>4
  <2>1. /\ a \o b \in Seq(S) /\ Len(a \o b) = Len(a) + Len(b)
        /\ \A i \in 1 .. Len(a) : (a \o b)[i] = a[i]
        /\ \A i \in 1 .. Len(b) : (a \o b)[Len(a) + i] = b[i]
    BY ONLY <2>0, ConcatFacts
  <2> QED BY <2>1, <1>3, <1>4
<1>6. ASSUME NEW i \in 1 .. Len(content) PROVE (a \o b)[i] = content[i]
  <2>1. CASE i \in 1 .. n BY <2>1, <1>3, <1>5
  <2>2. CASE i \notin 1 .. n
    <3>1. PICK r \in 1 .. cursor : i = n + r
      BY <1>1, <2>2, i - n \in 1 .. cursor, i = n + (i - n)
    <3> QED BY <3>1, <1>4, <1>5
  <2> QED BY <2>1, <2>2
<1>7. a \o b = content BY <1>1, <1>5, <1>6, SeqEqual
<1> QED BY <1>7 DEF a, b, n
-----------------------------------------------------------------------------
(* The types of what one transfer holds.                                   *)
LEMMA TypeFacts ==
  ASSUME TypeOK, NEW t \in T
  PROVE  /\ verify \in BOOLEAN
         /\ length[t] \in Nat
         /\ sender[t] \in [pc : {"idle", "body", "sent", "failed"},
                           position : Nat, cursor : Nat,
                           hasher : Seq(HashUnits)]
         /\ sender[t].pc \in {"idle", "body", "sent", "failed"}
         /\ sender[t].position \in Nat /\ sender[t].cursor \in Nat
         /\ sender[t].cursor < Transfers[t].buffer_size
         /\ sender[t].hasher \in Seq(HashUnits)
         /\ stream[t] \in [units : Seq(Units), closed : BOOLEAN]
         /\ stream[t].units \in Seq(Units) /\ stream[t].closed \in BOOLEAN
         /\ receiver[t].pc \in
              {"idle", "header", "create", "body", "footer", "done"}
         /\ receiver[t].cursor \in 0 .. BufferSize - 1
         /\ receiver[t].remaining \in Nat
         /\ receiver[t].hasher \in Seq(HashUnits \cup Units)
         /\ received[t] \in Seq(Units)
         /\ disk[Transfers[t].name] \in Files \cup {Absent}
<1>1. Transfers[t].name \in Names BY TransferFacts
<1> QED BY <1>1 DEF TypeOK

LEMMA InitType == Init => TypeOK
<1> SUFFICES ASSUME Init PROVE TypeOK OBVIOUS
<1>1. verify \in BOOLEAN BY DEF Init
<1>2. length \in [T -> Nat] BY TransferFacts DEF Init
<1>3. /\ sender \in [T -> [pc : {"idle", "body", "sent", "failed"},
                           position : Nat, cursor : Nat,
                           hasher : Seq(HashUnits)]]
      /\ \A t \in T : sender[t].cursor < Transfers[t].buffer_size
  BY TransferFacts, UnitFacts DEF Init
<1>4. stream \in [T -> [units : Seq(Units), closed : BOOLEAN]]
  BY DEF Init
<1>5. receiver \in
       [T -> [pc : {"idle", "header", "create", "body", "footer", "done"},
              cursor : 0 .. BufferSize - 1, remaining : Nat,
              hasher : Seq(HashUnits \cup Units)]]
  <2>1. 0 \in 0 .. BufferSize - 1 /\ <<>> \in Seq(HashUnits \cup Units)
    BY FilesAssumption
  <2> QED BY <2>1 DEF Init
<1>6. disk \in [Names -> Files \cup {Absent}] BY DEF Init
<1>7. received \in [T -> Seq(Units)] BY DEF Init
<1>8. outcome \in [T -> {"none", "ok", "exists", "io", "size", "hash"}]
  BY DEF Init
<1>9. /\ damage \subseteq T \X {"cut", "hole", "resized", "failed", "disk"}
      /\ raced \subseteq T
  BY DEF Init
<1> QED BY <1>1, <1>2, <1>3, <1>4, <1>5, <1>6, <1>7, <1>8, <1>9 DEF TypeOK

(* Units that are read, or lost, leave units.                              *)
LEMMA RestFacts ==
  ASSUME NEW S, NEW s \in Seq(S), NEW n \in Nat, n <= Len(s)
  PROVE  /\ SubSeq(s, 1, n) \in Seq(S)
         /\ Len(SubSeq(s, 1, n)) = n
         /\ \A i \in 1 .. n : SubSeq(s, 1, n)[i] = s[i]
         /\ SubSeq(s, n + 1, Len(s)) \in Seq(S)
         /\ Len(SubSeq(s, n + 1, Len(s))) = Len(s) - n
         /\ \A i \in 1 .. Len(s) - n : SubSeq(s, n + 1, Len(s))[i] = s[n + i]
<1>1. Len(s) \in Nat OBVIOUS
<1>2. /\ SubSeq(s, 1, n) \in Seq(S)
      /\ Len(SubSeq(s, 1, n)) = n
      /\ \A i \in 1 .. n : SubSeq(s, 1, n)[i] = s[i]
  <2>1. n - 1 + 1 = n /\ (~ 1 <= n => n = 0) /\ \A i \in 1 .. n : 1 + i - 1 = i
    OBVIOUS
  <2> DEFINE a == SubSeq(s, 1, n)
  <2>2. /\ a \in Seq(S)
        /\ Len(a) = IF 1 <= n THEN n - 1 + 1 ELSE 0
        /\ \A i \in 1 .. n - 1 + 1 : a[i] = s[1 + i - 1]
    BY SubSeqFacts, 1 \in Nat \ {0}
  <2> HIDE DEF a
  <2>3. a \in Seq(S) /\ Len(a) = n /\ \A i \in 1 .. n : a[i] = s[i]
    BY <2>1, <2>2
  <2> QED BY <2>3 DEF a
<1>3. /\ SubSeq(s, n + 1, Len(s)) \in Seq(S)
      /\ Len(SubSeq(s, n + 1, Len(s))) = Len(s) - n
      /\ \A i \in 1 .. Len(s) - n : SubSeq(s, n + 1, Len(s))[i] = s[n + i]
  <2> DEFINE a == SubSeq(s, n + 1, Len(s))
             l == Len(s)
  <2>1. /\ l - (n + 1) + 1 = l - n
        /\ (~ n + 1 <= l => l - n = 0)
        /\ \A i \in 1 .. l - n : (n + 1) + i - 1 = n + i
    BY <1>1
  <2>2. /\ a \in Seq(S)
        /\ Len(a) = IF n + 1 <= l THEN l - (n + 1) + 1 ELSE 0
        /\ \A i \in 1 .. l - (n + 1) + 1 : a[i] = s[(n + 1) + i - 1]
    BY <1>1, SubSeqFacts, n + 1 \in Nat \ {0}
  <2> HIDE DEF a, l
  <2>3. a \in Seq(S) /\ Len(a) = l - n /\ \A i \in 1 .. l - n : a[i] = s[n + i]
    BY <2>1, <2>2
  <2> QED BY <2>3 DEF a, l
<1> QED BY <1>2, <1>3
-----------------------------------------------------------------------------
(* A step of one transfer leaves the others as they are.                   *)
Same(s) ==
  /\ length'[s] = length[s] /\ sender'[s] = sender[s]
  /\ stream'[s] = stream[s] /\ receiver'[s] = receiver[s]
  /\ received'[s] = received[s] /\ outcome'[s] = outcome[s]
  /\ \A what : <<s, what>> \in damage' <=> <<s, what>> \in damage
  /\ (\A d \in damage' : d[1] # s) <=> (\A d \in damage : d[1] # s)

LEMMA DisturbsEffect ==
  ASSUME TypeOK, NEW t \in T,
         NEW what \in {"cut", "hole", "resized", "failed", "disk"},
         Disturbs(t, what)
  PROVE  /\ damage' \subseteq T \X {"cut", "hole", "resized", "failed", "disk"}
         /\ ~ Disturbed(t, what)
         /\ \A w : Disturbed(t, w)' <=> Disturbed(t, w) \/ w = what
         /\ ~ Undisturbed(t)'
         /\ \A s \in T \ {t} :
              /\ \A w : <<s, w>> \in damage' <=> <<s, w>> \in damage
              /\ (\A d \in damage' : d[1] # s) <=> (\A d \in damage : d[1] # s)
<1>1. damage' = damage \cup {<<t, what>>} /\ <<t, what>> \notin damage
  BY DEF Disturbs
<1>2. damage \subseteq T \X {"cut", "hole", "resized", "failed", "disk"}
  BY DEF TypeOK
<1>3. <<t, what>>[1] = t OBVIOUS
<1>4. \A w : <<t, w>> = <<t, what>> <=> w = what OBVIOUS
<1>5. \A s, w : <<s, w>> = <<t, what>> => s = t OBVIOUS
<1>6. damage' \subseteq T \X {"cut", "hole", "resized", "failed", "disk"}
  BY <1>1, <1>2
<1>7. \A w : Disturbed(t, w)' <=> Disturbed(t, w) \/ w = what
  BY <1>1, <1>4 DEF Disturbed
<1>8. ~ Undisturbed(t)' BY <1>1, <1>3 DEF Undisturbed
<1>9. ASSUME NEW s \in T \ {t}
      PROVE  /\ \A w : <<s, w>> \in damage' <=> <<s, w>> \in damage
             /\ (\A d \in damage' : d[1] # s) <=> (\A d \in damage : d[1] # s)
  BY <1>1, <1>3, <1>5
<1> QED BY <1>1, <1>6, <1>7, <1>8, <1>9 DEF Disturbed

LEMMA QuietDamage ==
  ASSUME UNCHANGED damage
  PROVE  \A s : /\ \A w : <<s, w>> \in damage' <=> <<s, w>> \in damage
                /\ (\A d \in damage' : d[1] # s) <=> (\A d \in damage : d[1] # s)
OBVIOUS

LEMMA OthersSame ==
  ASSUME TypeOK, NEW t \in T, Diode(t) \/ SendStep(t) \/ RecvStep(t)
  PROVE  /\ verify' = verify
         /\ \A s \in T \ {t} : Same(s)
<1>1. CASE Cut(t)
  <2>1. Disturbs(t, "cut") BY <1>1 DEF Cut
  <2> QED BY <1>1, <2>1, DisturbsEffect DEF Cut, TypeOK, Same, historyVars
<1>2. CASE Hole(t)
  <2>1. Disturbs(t, "hole") BY <1>2 DEF Hole
  <2> QED BY <1>2, <2>1, DisturbsEffect DEF Hole, TypeOK, Same, historyVars
<1>3. CASE Resize(t)
  <2>1. Disturbs(t, "resized") BY <1>3 DEF Resize
  <2> QED BY <1>3, <2>1, DisturbsEffect DEF Resize, TypeOK, Same, historyVars
<1>4. CASE SendHeader(t)
  BY <1>4, QuietDamage DEF SendHeader, TypeOK, Same, historyVars
<1>5. CASE SendRead(t)
  BY SMTT(30), <1>5, QuietDamage DEF SendRead, TypeOK, Same, historyVars
<1>6. CASE SendEof(t)
  BY <1>6, QuietDamage DEF SendEof, SendLast, TypeOK, Same, historyVars
<1>7. CASE SendFail(t)
  <2>1. Disturbs(t, "failed") BY <1>7 DEF SendFail
  <2> QED BY <1>7, <2>1, DisturbsEffect DEF SendFail, TypeOK, Same, historyVars
<1>8. CASE Accept(t)
  BY <1>8, QuietDamage DEF Accept, TypeOK, Same, historyVars, diodeVars
<1>9. CASE RecvHeader(t)
  BY <1>9, QuietDamage
     DEF RecvHeader, RecvHeaderIf, Returns, TypeOK, Same
<1>10. CASE RecvHeaderFail(t)
  BY <1>10, QuietDamage DEF RecvHeaderFail, Returns, TypeOK, Same, diodeVars
<1>11. CASE RecvCreate(t)
  BY <1>11, QuietDamage DEF RecvCreate, TypeOK, Same, diodeVars, historyVars
<1>12. CASE RecvRead(t)
  BY <1>12, QuietDamage DEF RecvRead, TypeOK, Same
<1>13. CASE RecvEof(t)
  BY <1>13, QuietDamage
     DEF RecvEof, RecvZero, TypeOK, Same, diodeVars, historyVars
<1>14. CASE RecvFooter(t)
  BY <1>14, QuietDamage DEF RecvFooter, Returns, TypeOK, Same
<1>15. CASE RecvFooterFail(t)
  BY <1>15, QuietDamage DEF RecvFooterFail, Returns, TypeOK, Same, diodeVars
<1>16. CASE RecvFail(t)
  <2>1. Disturbs(t, "disk") BY <1>16 DEF RecvFail
  <2> QED BY <1>16, <2>1, DisturbsEffect DEF RecvFail, Returns, TypeOK, Same
<1> QED
  BY <1>1, <1>2, <1>3, <1>4, <1>5, <1>6, <1>7, <1>8, <1>9, <1>10, <1>11,
     <1>12, <1>13, <1>14, <1>15, <1>16 DEF Diode, SendStep, RecvStep

LEMMA SameKeeps ==
  ASSUME verify' = verify, NEW s \in T, Same(s), TransferInv(s)
  PROVE  TransferInv(s)'
<1>1. /\ Flushed(s)' = Flushed(s) /\ Written(s)' = Written(s)
      /\ Came(s)' = Came(s) /\ (HeaderDue(s)' <=> HeaderDue(s))
      /\ Stored(s)' = Stored(s)
      /\ \A w : Disturbed(s, w)' <=> Disturbed(s, w)
      /\ Undisturbed(s)' <=> Undisturbed(s)
  BY DEF Same, Flushed, Written, FooterHash, Came, HeaderDue, Stored,
         Disturbed, Undisturbed
<1>3. StreamOK(s)' BY <1>1 DEF StreamOK, TransferInv, Same
<1>4. HeaderOK(s)' BY <1>1 DEF HeaderOK, TransferInv, Same
<1>5. LengthOK(s)' BY <1>1 DEF LengthOK, TransferInv, Same
<1>6. SenderHashOK(s)' BY <1>1 DEF SenderHashOK, TransferInv, Same
<1>7. ReceiverHashOK(s)' BY <1>1 DEF ReceiverHashOK, TransferInv, Same
<1>8. UndisturbedOK(s)' BY <1>1 DEF UndisturbedOK, TransferInv, Same
<1>9. OutcomeOK(s)' BY DEF OutcomeOK, TransferInv, Same
<1> QED BY <1>3, <1>4, <1>5, <1>6, <1>7, <1>8, <1>9 DEF TransferInv
-----------------------------------------------------------------------------
(* Every step of a transfer keeps the types.                               *)
LEMMA WriteFacts ==
  ASSUME TypeOK, NEW t \in T, NEW units \in Seq(Units)
  PROVE  /\ Write(t, units) \in [units : Seq(Units), closed : BOOLEAN]
         /\ Write(t, units).closed = stream[t].closed
         /\ Write(t, units).units =
              IF stream[t].closed THEN stream[t].units
              ELSE stream[t].units \o units
<1>1. stream[t] \in [units : Seq(Units), closed : BOOLEAN] BY DEF TypeOK
<1>2. stream[t].units \o units \in Seq(Units) BY <1>1, ConcatFacts
<1> QED BY <1>1, <1>2 DEF Write

LEMMA DiodeType ==
  ASSUME TypeOK, NEW t \in T, Diode(t)
  PROVE  TypeOK'
<1>1. CASE Cut(t)
  <2>1. damage' \subseteq T \X {"cut", "hole", "resized", "failed", "disk"}
    BY <1>1, DisturbsEffect DEF Cut
  <2>2. PICK n \in 0 .. Len(stream[t].units) :
          stream' = [stream EXCEPT ![t] =
                       [units |-> SubSeq(stream[t].units, 1, n),
                        closed |-> TRUE]]
    BY <1>1 DEF Cut
  <2>3. SubSeq(stream[t].units, 1, n) \in Seq(Units)
    BY TypeFacts, RestFacts
  <2>4. stream' \in [T -> [units : Seq(Units), closed : BOOLEAN]]
    BY <2>2, <2>3 DEF TypeOK
  <2> QED BY <1>1, <2>1, <2>4 DEF Cut, TypeOK, historyVars
<1>2. CASE Hole(t)
  <2>1. damage' \subseteq T \X {"cut", "hole", "resized", "failed", "disk"}
    BY <1>2, DisturbsEffect DEF Hole
  <2>2. PICK i \in DOMAIN stream[t].units, j \in DOMAIN stream[t].units :
          /\ i <= j
          /\ stream' = [stream EXCEPT ![t].units =
                          SubSeq(@, 1, i - 1) \o SubSeq(@, j + 1, Len(@))]
    BY <1>2 DEF Hole
  <2>3. stream[t] \in [units : Seq(Units), closed : BOOLEAN]
    BY TypeFacts
  <2>4. stream[t].units \in Seq(Units) BY <2>3
  <2>5. i \in 1 .. Len(stream[t].units) /\ j \in 1 .. Len(stream[t].units)
    BY <2>4
  <2>6. SubSeq(stream[t].units, 1, i - 1) \in Seq(Units)
    BY <2>4, <2>5, RestFacts, i - 1 \in Nat, i - 1 <= Len(stream[t].units)
  <2>7. SubSeq(stream[t].units, j + 1, Len(stream[t].units)) \in Seq(Units)
    BY <2>4, <2>5, RestFacts
  <2>8. SubSeq(stream[t].units, 1, i - 1)
          \o SubSeq(stream[t].units, j + 1, Len(stream[t].units))
          \in Seq(Units)
    BY <2>6, <2>7, ConcatFacts
  <2>9. stream' \in [T -> [units : Seq(Units), closed : BOOLEAN]]
    BY <2>2, <2>3, <2>8 DEF TypeOK
  <2> QED BY <1>2, <2>1, <2>9 DEF Hole, TypeOK, historyVars
<1>3. CASE Resize(t)
  <2>1. damage' \subseteq T \X {"cut", "hole", "resized", "failed", "disk"}
    BY <1>3, DisturbsEffect DEF Resize
  <2>2. length' \in [T -> Nat] BY <1>3, FilesAssumption DEF Resize, TypeOK
  <2> QED BY <1>3, <2>1, <2>2 DEF Resize, TypeOK, historyVars
<1> QED BY <1>1, <1>2, <1>3 DEF Diode

LEMMA FooterFacts ==
  ASSUME NEW t \in T, NEW hash \in Seq(HashUnits)
  PROVE  /\ Footer(t, hash) \in Seq(Units) /\ Len(Footer(t, hash)) = 2
         /\ \A i \in 1 .. 2 : Footer(t, hash)[i] = Unit("footer", t, i, hash)
<1>1. \A i \in 1 .. 2 : Unit("footer", t, i, hash) \in Units
  <2>1. \A i \in 1 .. 2 : i \in Nat OBVIOUS
  <2> QED BY <2>1, UnitFacts
<1> QED BY <1>1 DEF Footer

(* What the sender ends its connection with.                               *)
LastUnits(t, hasher) ==
  SendBuffer(t, sender[t].position, sender[t].cursor)
    \o Footer(t, IF Transfers[t].hash THEN hasher ELSE NoHash)

LEMMA LastFacts ==
  ASSUME TypeOK, NEW t \in T, LengthOK(t), NEW hasher,
         hasher = HashTail(sender[t].hasher,
                    SendBuffer(t, sender[t].position, sender[t].cursor))
  PROVE  /\ hasher \in Seq(HashUnits)
         /\ (IF Transfers[t].hash THEN hasher ELSE NoHash) \in Seq(HashUnits)
         /\ LastUnits(t, hasher) \in Seq(Units)
         /\ Len(LastUnits(t, hasher)) = sender[t].cursor + 2
         /\ \A i \in 1 .. sender[t].cursor :
              LastUnits(t, hasher)[i] = Byte(t, Flushed(t) + i)
         /\ \A i \in 1 .. 2 :
              LastUnits(t, hasher)[sender[t].cursor + i] =
                Unit("footer", t, i,
                     IF Transfers[t].hash THEN hasher ELSE NoHash)
<1> DEFINE b == SendBuffer(t, sender[t].position, sender[t].cursor)
           hash == IF Transfers[t].hash THEN hasher ELSE NoHash
           f == Footer(t, hash)
           c == sender[t].cursor
<1>1. /\ sender[t].position \in Nat /\ c \in Nat /\ c <= sender[t].position
      /\ sender[t].hasher \in Seq(HashUnits)
  BY TypeFacts DEF LengthOK
<1>2. /\ b \in Seq(Units) /\ b \in Seq(HashUnits) /\ Len(b) = c
      /\ \A i \in 1 .. c : b[i] = Byte(t, sender[t].position - c + i)
  BY <1>1, BufferFacts
<1>3. hasher \in Seq(HashUnits) BY <1>1, <1>2, HashTypes
<1>4. hash \in Seq(HashUnits) BY <1>3, UnitFacts DEF NoHash
<1> HIDE DEF hash
<1>5. /\ f \in Seq(Units) /\ Len(f) = 2
      /\ \A i \in 1 .. 2 : f[i] = Unit("footer", t, i, hash)
  BY <1>4, FooterFacts
<1> HIDE DEF b, f, c
<1>6. b \in Seq(Units) /\ f \in Seq(Units) BY <1>2, <1>5
<1>7. /\ b \o f \in Seq(Units) /\ Len(b \o f) = Len(b) + Len(f)
      /\ \A i \in 1 .. Len(b) : (b \o f)[i] = b[i]
      /\ \A i \in 1 .. Len(f) : (b \o f)[Len(b) + i] = f[i]
  BY ONLY <1>6, ConcatFacts
<1>8. LastUnits(t, hasher) = b \o f BY DEF LastUnits, b, f, hash
<1>9. \A i \in 1 .. c : (b \o f)[i] = Byte(t, Flushed(t) + i)
  BY <1>2, <1>7 DEF Flushed, c
<1>10. \A i \in 1 .. 2 : (b \o f)[c + i] = Unit("footer", t, i, hash)
  BY <1>2, <1>5, <1>7
<1> QED BY <1>2, <1>3, <1>4, <1>5, <1>7, <1>8, <1>9, <1>10 DEF c, hash

(* One read of nread bytes: what SendRead does with them.                  *)
SendReads(t, nread) ==
  LET position == sender[t].position + nread
      cursor == sender[t].cursor + nread
      buffer == SendBuffer(t, position, cursor)
  IN /\ position <= length[t]
     /\ IF cursor < Transfers[t].buffer_size
        THEN /\ sender' = [sender EXCEPT ![t].position = position,
                                         ![t].cursor = cursor]
             /\ UNCHANGED stream
        ELSE /\ sender' = [sender EXCEPT ![t].position = position,
                                         ![t].cursor = 0,
                                         ![t].hasher = HashChunk(@, buffer)]
             /\ stream' = [stream EXCEPT ![t] = Write(t, buffer)]

(* The state of a sender is replaced by another one.                       *)
Sending == [pc : {"idle", "body", "sent", "failed"}, position : Nat,
            cursor : Nat, hasher : Seq(HashUnits)]

LEMMA SenderUpdate ==
  ASSUME TypeOK, NEW t \in T, NEW new \in Sending,
         new.cursor < Transfers[t].buffer_size,
         sender' = [sender EXCEPT ![t] = new]
  PROVE  /\ sender' \in [T -> Sending]
         /\ \A s \in T : sender'[s].cursor < Transfers[s].buffer_size
         /\ sender'[t] = new
<1>1. sender \in [T -> Sending] BY DEF TypeOK, Sending
<1>2. \A s \in T : sender[s].cursor < Transfers[s].buffer_size BY DEF TypeOK
<1> QED BY <1>1, <1>2

LEMMA SendType ==
  ASSUME TypeOK, NEW t \in T, LengthOK(t), SendStep(t)
  PROVE  TypeOK'
<1>1. CASE SendHeader(t)
  <2>1. <<Header(t)>> \in Seq(Units)
    <3>1. Header(t) \in Units BY TypeFacts, UnitFacts DEF Header
    <3> QED BY <3>1
  <2>2. Write(t, <<Header(t)>>) \in [units : Seq(Units), closed : BOOLEAN]
    BY <2>1, WriteFacts
  <2>3. stream' \in [T -> [units : Seq(Units), closed : BOOLEAN]]
    BY <1>1, <2>2 DEF SendHeader, TypeOK
  <2>4. /\ sender' \in [T -> [pc : {"idle", "body", "sent", "failed"},
                              position : Nat, cursor : Nat,
                              hasher : Seq(HashUnits)]]
        /\ \A s \in T : sender'[s].cursor < Transfers[s].buffer_size
    BY ZenonT(60), <1>1 DEF SendHeader, TypeOK
  <2> QED BY <1>1, <2>3, <2>4 DEF SendHeader, TypeOK, historyVars
<1>2. CASE SendRead(t)
  <2>1. PICK nread \in 1 .. Transfers[t].buffer_size - sender[t].cursor :
          SendReads(t, nread)
    BY <1>2 DEF SendRead, SendReads
  <2> DEFINE position == sender[t].position + nread
             cursor == sender[t].cursor + nread
             buffer == SendBuffer(t, position, cursor)
  <2>2. /\ position \in Nat /\ cursor \in Nat /\ cursor <= position
        /\ sender[t].hasher \in Seq(HashUnits)
    BY TypeFacts, TransferFacts DEF LengthOK
  <2>3. buffer \in Seq(Units) /\ buffer \in Seq(HashUnits)
    BY <2>2, BufferFacts
  <2>4. HashChunk(sender[t].hasher, buffer) \in Seq(HashUnits)
    BY <2>2, <2>3, HashTypes
  <2>5. Write(t, buffer) \in [units : Seq(Units), closed : BOOLEAN]
    BY <2>3, WriteFacts
  <2>6. stream' \in [T -> [units : Seq(Units), closed : BOOLEAN]]
    <3> HIDE DEF buffer
    <3> QED BY <2>1, <2>5 DEF SendReads, TypeOK, buffer
  <2>7. /\ sender' \in [T -> [pc : {"idle", "body", "sent", "failed"},
                              position : Nat, cursor : Nat,
                              hasher : Seq(HashUnits)]]
        /\ \A s \in T : sender'[s].cursor < Transfers[s].buffer_size
    <3>1. CASE cursor < Transfers[t].buffer_size
      <4> DEFINE new == [sender[t] EXCEPT !.position = position,
                                          !.cursor = cursor]
      <4>1. sender' = [sender EXCEPT ![t] = new]
        BY <2>1, <3>1 DEF SendReads
      <4>2. new \in Sending /\ new.cursor < Transfers[t].buffer_size
        BY <2>2, <3>1, TypeFacts DEF Sending
      <4> HIDE DEF new
      <4> QED BY <4>1, <4>2, SenderUpdate DEF Sending
    <3>2. CASE ~ cursor < Transfers[t].buffer_size
      <4>1. 0 < Transfers[t].buffer_size BY TransferFacts
      <4> DEFINE hasher == HashChunk(sender[t].hasher, buffer)
                 new == [sender[t] EXCEPT !.position = position,
                                          !.cursor = 0, !.hasher = hasher]
      <4>2. sender' = [sender EXCEPT ![t] = new]
        BY <2>1, <3>2 DEF SendReads
      <4> HIDE DEF hasher
      <4>3. new \in Sending /\ new.cursor < Transfers[t].buffer_size
        BY <2>2, <2>4, <4>1, TypeFacts DEF Sending, hasher
      <4> HIDE DEF new
      <4> QED BY <4>2, <4>3, SenderUpdate DEF Sending
    <3> QED BY <3>1, <3>2
  <2> QED BY <1>2, <2>6, <2>7 DEF SendRead, TypeOK, historyVars
<1>3. CASE SendEof(t)
  <2> DEFINE hasher == HashTail(sender[t].hasher,
                         SendBuffer(t, sender[t].position, sender[t].cursor))
  <2>1. hasher \in Seq(HashUnits) /\ LastUnits(t, hasher) \in Seq(Units)
    BY LastFacts
  <2> HIDE DEF hasher
  <2>2. /\ sender' = [sender EXCEPT ![t].pc = "sent", ![t].cursor = 0,
                                    ![t].hasher = hasher]
        /\ stream' = [stream EXCEPT ![t] =
                        [Write(t, LastUnits(t, hasher))
                           EXCEPT !.closed = TRUE]]
    BY <1>3 DEF SendEof, SendLast, LastUnits, hasher
  <2>3. Write(t, LastUnits(t, hasher)) \in [units : Seq(Units), closed : BOOLEAN]
    BY <2>1, WriteFacts
  <2>4. stream' \in [T -> [units : Seq(Units), closed : BOOLEAN]]
    BY <2>2, <2>3 DEF TypeOK
  <2>5. 0 < Transfers[t].buffer_size BY TransferFacts
  <2>6. /\ sender' \in [T -> [pc : {"idle", "body", "sent", "failed"},
                              position : Nat, cursor : Nat,
                              hasher : Seq(HashUnits)]]
        /\ \A s \in T : sender'[s].cursor < Transfers[s].buffer_size
    <3> DEFINE new == [sender[t] EXCEPT !.pc = "sent", !.cursor = 0,
                                        !.hasher = hasher]
    <3>1. sender' = [sender EXCEPT ![t] = new] BY <2>2
    <3>2. new \in Sending /\ new.cursor < Transfers[t].buffer_size
      BY <2>1, <2>5, TypeFacts DEF Sending
    <3> HIDE DEF new
    <3> QED BY <3>1, <3>2, SenderUpdate DEF Sending
  <2> QED BY <1>3, <2>4, <2>6 DEF SendEof, SendLast, TypeOK, historyVars
<1>4. CASE SendFail(t)
  <2>1. damage' \subseteq T \X {"cut", "hole", "resized", "failed", "disk"}
    BY <1>4, DisturbsEffect DEF SendFail
  <2>2. stream' \in [T -> [units : Seq(Units), closed : BOOLEAN]]
    BY <1>4 DEF SendFail, TypeOK
  <2>3. /\ sender' \in [T -> [pc : {"idle", "body", "sent", "failed"},
                              position : Nat, cursor : Nat,
                              hasher : Seq(HashUnits)]]
        /\ \A s \in T : sender'[s].cursor < Transfers[s].buffer_size
    BY <1>4 DEF SendFail, TypeOK
  <2> QED BY <1>4, <2>1, <2>2, <2>3 DEF SendFail, TypeOK, historyVars
<1> QED BY <1>1, <1>2, <1>3, <1>4 DEF SendStep
Receiving == [pc : {"idle", "header", "create", "body", "footer", "done"},
              cursor : 0 .. BufferSize - 1, remaining : Nat,
              hasher : Seq(HashUnits \cup Units)]

LEMMA ReceiverUpdate ==
  ASSUME TypeOK, NEW t \in T, NEW new \in Receiving,
         receiver' = [receiver EXCEPT ![t] = new]
  PROVE  receiver' \in [T -> Receiving] /\ receiver'[t] = new
<1>1. receiver \in [T -> Receiving] BY DEF TypeOK, Receiving
<1> QED BY <1>1

LEMMA ReturnsType ==
  ASSUME TypeOK, NEW t \in T,
         NEW result \in {"ok", "exists", "io", "size", "hash"},
         Returns(t, result)
  PROVE  /\ receiver' \in [T -> Receiving]
         /\ receiver'[t] = [receiver[t] EXCEPT !.pc = "done"]
         /\ outcome' \in [T -> {"none", "ok", "exists", "io", "size", "hash"}]
         /\ outcome'[t] = result
<1> DEFINE new == [receiver[t] EXCEPT !.pc = "done"]
<1>1. receiver' = [receiver EXCEPT ![t] = new] BY DEF Returns
<1>2. receiver[t] \in Receiving BY DEF TypeOK, Receiving
<1>3. new \in Receiving BY <1>2 DEF Receiving
<1> HIDE DEF new
<1>4. receiver' \in [T -> Receiving] /\ receiver'[t] = new
  BY <1>1, <1>3, ReceiverUpdate
<1>5. /\ outcome' \in [T -> {"none", "ok", "exists", "io", "size", "hash"}]
      /\ outcome'[t] = result
  BY DEF Returns, TypeOK
<1> QED BY <1>4, <1>5 DEF new

(* How much the receiver may read.                                         *)
LEMMA EndFacts ==
  ASSUME TypeOK, NEW t \in T
  PROVE  /\ End(t) \in Nat
         /\ receiver[t].cursor <= End(t) /\ End(t) <= BufferSize
         /\ End(t) - receiver[t].cursor <= receiver[t].remaining
         /\ End(t) = receiver[t].cursor => receiver[t].remaining = 0
<1>1. /\ receiver[t].cursor \in 0 .. BufferSize - 1
      /\ receiver[t].remaining \in Nat /\ BufferSize \in Nat \ {0}
  BY TypeFacts, TransferFacts
<1> QED BY <1>1 DEF End

(* One read of nread bytes: what RecvRead does with them.                  *)
Received(t, nread) == received[t] \o SubSeq(stream[t].units, 1, nread)

RecvReads(t, nread) ==
  LET cursor == receiver[t].cursor + nread
      read == [receiver[t] EXCEPT !.remaining = @ - nread, !.cursor = cursor]
  IN /\ received' = [received EXCEPT ![t] = Received(t, nread)]
     /\ IF cursor < BufferSize
        THEN receiver' = [receiver EXCEPT ![t] = read] /\ UNCHANGED disk
        ELSE /\ receiver' =
                  [receiver EXCEPT ![t] =
                     [read EXCEPT !.cursor = 0,
                        !.hasher = HashChunk(@, RecvBuffer(Received(t, nread),
                                                           cursor))]]
             /\ WriteToDisk(t, Received(t, nread), cursor)
     /\ stream' = [stream EXCEPT ![t].units = SubSeq(@, nread + 1, Len(@))]

LEMMA ReadFacts ==
  ASSUME TypeOK, NEW t \in T, LengthOK(t), NEW nread \in Nat \ {0},
         nread <= End(t) - receiver[t].cursor,
         nread <= Len(stream[t].units)
  PROVE  /\ Received(t, nread) \in Seq(Units)
         /\ Len(Received(t, nread)) = Len(received[t]) + nread
         /\ \A i \in 1 .. Len(received[t]) :
              Received(t, nread)[i] = received[t][i]
         /\ \A i \in 1 .. nread :
              Received(t, nread)[Len(received[t]) + i] = stream[t].units[i]
         /\ receiver[t].remaining - nread \in Nat
         /\ receiver[t].cursor + nread \in 0 .. BufferSize
         /\ receiver[t].cursor + nread <= Len(Received(t, nread))
<1> DEFINE a == received[t]
           b == SubSeq(stream[t].units, 1, nread)
<1>1. /\ b \in Seq(Units) /\ Len(b) = nread
      /\ \A i \in 1 .. nread : b[i] = stream[t].units[i]
  BY TypeFacts, RestFacts
<1>2. a \in Seq(Units) /\ b \in Seq(Units) BY <1>1, TypeFacts
<1> HIDE DEF a, b
<1>3. /\ a \o b \in Seq(Units) /\ Len(a \o b) = Len(a) + Len(b)
      /\ \A i \in 1 .. Len(a) : (a \o b)[i] = a[i]
      /\ \A i \in 1 .. Len(b) : (a \o b)[Len(a) + i] = b[i]
  BY ONLY <1>2, ConcatFacts
<1>4. Received(t, nread) = a \o b BY DEF Received, a, b
<1>5. /\ receiver[t].cursor \in 0 .. BufferSize - 1
      /\ receiver[t].remaining \in Nat /\ BufferSize \in Nat \ {0}
      /\ End(t) \in Nat /\ End(t) <= BufferSize
      /\ End(t) - receiver[t].cursor <= receiver[t].remaining
      /\ Len(a) \in Nat /\ receiver[t].cursor <= Len(a)
  BY SMTT(30), <1>2, TypeFacts, TransferFacts, EndFacts DEF LengthOK, a
<1>6. /\ receiver[t].remaining - nread \in Nat
      /\ receiver[t].cursor + nread \in 0 .. BufferSize
      /\ receiver[t].cursor + nread <= Len(a) + nread
  BY SMTT(30), <1>5
<1> QED BY <1>1, <1>3, <1>4, <1>6 DEF a

(* The disk after a write of the receiver.                                 *)
LEMMA DiskType ==
  ASSUME TypeOK, NEW t \in T, NEW content \in Seq(Units), NEW cursor \in Nat,
         cursor <= Len(content), disk[Transfers[t].name] # Absent,
         WriteToDisk(t, content, cursor)
  PROVE  /\ disk' \in [Names -> Files \cup {Absent}]
         /\ disk'[Transfers[t].name] # Absent
         /\ \A n \in Names \ {Transfers[t].name} : disk'[n] = disk[n]
         /\ disk[Transfers[t].name] =
              SubSeq(content, 1, Len(content) - cursor)
            => disk'[Transfers[t].name] = content
<1> DEFINE n == Transfers[t].name
           file == WriteAt(disk[n], Len(content) - cursor,
                           RecvBuffer(content, cursor))
           before == SubSeq(content, 1, Len(content) - cursor)
<1>1. n \in Names /\ disk[n] \in Files BY TypeFacts, TransferFacts
<1>2. /\ RecvBuffer(content, cursor) \in Seq(Units)
      /\ Len(RecvBuffer(content, cursor)) = cursor
      /\ before \o RecvBuffer(content, cursor) = content
  BY RecvBufferFacts, RecvBufferSplits
<1>3. Len(content) - cursor \in Nat /\ Len(content) \in Nat OBVIOUS
<1>4. Len(before) = Len(content) - cursor
  BY <1>3, RestFacts, Len(content) - cursor <= Len(content)
<1>5. /\ file \in Files
      /\ disk[n] = before => file = content
  <2> DEFINE bytes == RecvBuffer(content, cursor)
             offset == Len(content) - cursor
  <2> HIDE DEF bytes, offset
  <2>1. disk[n] \in Files /\ offset \in Nat /\ bytes \in Seq(Units)
    BY ONLY <1>1, <1>2, <1>3 DEF bytes, offset
  <2>2. /\ WriteAt(disk[n], offset, bytes) \in Files
        /\ offset = Len(disk[n]) =>
             WriteAt(disk[n], offset, bytes) = disk[n] \o bytes
    BY ONLY <2>1, WriteAtFacts
  <2>3. offset = Len(before) /\ before \o bytes = content
    BY ONLY <1>2, <1>4 DEF bytes, offset
  <2> QED BY ONLY <2>2, <2>3 DEF bytes, offset
<1>6. CASE cursor = 0
  <2>1. UNCHANGED disk BY <1>6 DEF WriteToDisk
  <2>2. before = content
    <3>1. Len(content) - cursor = Len(content) BY <1>3, <1>6
    <3>2. \A i \in 1 .. Len(content) : before[i] = content[i]
      BY <1>3, <3>1, RestFacts
    <3>3. before \in Seq(Units) BY <1>3, <3>1, RestFacts
    <3> HIDE DEF before
    <3> QED BY <1>4, <3>1, <3>2, <3>3, SeqEqual
  <2> QED BY <2>1, <2>2 DEF TypeOK
<1>7. CASE cursor # 0
  <2>1. disk' = [disk EXCEPT ![n] = file] BY <1>7 DEF WriteToDisk
  <2> HIDE DEF file, before
  <2>2. disk \in [Names -> Files \cup {Absent}] BY DEF TypeOK
  <2>3. disk'[n] = file BY <1>1, <2>1, <2>2
  <2>4. disk' \in [Names -> Files \cup {Absent}] BY <1>5, <2>1, <2>2
  <2>5. \A k \in Names \ {n} : disk'[k] = disk[k] BY <2>1, <2>2
  <2> QED BY <1>5, <2>3, <2>4, <2>5, AbsentAssumption DEF before
<1> QED BY <1>6, <1>7
LEMMA RecvReadStep ==
  ASSUME TypeOK, NEW t \in T, LengthOK(t), RecvRead(t)
  PROVE  \E nread \in Nat \ {0} :
           /\ nread <= End(t) - receiver[t].cursor
           /\ nread <= Len(stream[t].units)
           /\ RecvReads(t, nread)
<1>1. PICK nread \in 1 .. End(t) - receiver[t].cursor :
        nread <= Len(stream[t].units) /\ RecvReads(t, nread)
  BY DEF RecvRead, RecvReads, Received
<1>2. End(t) - receiver[t].cursor \in Nat BY EndFacts, TypeFacts
<1> QED BY <1>1, <1>2

(* What a read makes of the state of the receiver.                         *)
LEMMA RecvReadsEffect ==
  ASSUME TypeOK, NEW t \in T, LengthOK(t), NEW nread \in Nat \ {0},
         nread <= End(t) - receiver[t].cursor,
         nread <= Len(stream[t].units), RecvReads(t, nread)
  PROVE  /\ receiver' \in [T -> Receiving]
         /\ receiver'[t].pc = receiver[t].pc
         /\ receiver'[t].remaining = receiver[t].remaining - nread
         /\ receiver[t].cursor + nread < BufferSize =>
              /\ receiver'[t].cursor = receiver[t].cursor + nread
              /\ receiver'[t].hasher = receiver[t].hasher
         /\ ~ receiver[t].cursor + nread < BufferSize =>
              /\ receiver[t].cursor + nread = BufferSize
              /\ receiver'[t].cursor = 0
              /\ receiver'[t].hasher =
                   HashChunk(receiver[t].hasher,
                             RecvBuffer(Received(t, nread), BufferSize))
         /\ received' \in [T -> Seq(Units)]
         /\ received'[t] = Received(t, nread)
         /\ stream' \in [T -> [units : Seq(Units), closed : BOOLEAN]]
         /\ stream'[t].units =
              SubSeq(stream[t].units, nread + 1, Len(stream[t].units))
         /\ stream'[t].closed = stream[t].closed
<1> DEFINE cursor == receiver[t].cursor + nread
           content == Received(t, nread)
           buffer == RecvBuffer(content, cursor)
           hasher == HashChunk(receiver[t].hasher, buffer)
<1>1. /\ content \in Seq(Units) /\ receiver[t].remaining - nread \in Nat
      /\ cursor \in 0 .. BufferSize /\ cursor <= Len(content)
  BY ReadFacts
<1>2. buffer \in Seq(Units) BY <1>1, RecvBufferFacts
<1>3. hasher \in Seq(HashUnits \cup Units)
  <2>1. /\ receiver[t].hasher \in Seq(HashUnits \cup Units)
        /\ buffer \in Seq(HashUnits \cup Units)
    BY <1>2, TypeFacts
  <2> HIDE DEF buffer
  <2> QED BY <2>1, HashTypes
<1>4. receiver[t] \in Receiving BY DEF TypeOK, Receiving
<1>5. /\ received' \in [T -> Seq(Units)] /\ received'[t] = content
  <2> HIDE DEF content
  <2> QED BY <1>1 DEF RecvReads, TypeOK, content
<1>6. /\ stream' \in [T -> [units : Seq(Units), closed : BOOLEAN]]
      /\ stream'[t].units =
           SubSeq(stream[t].units, nread + 1, Len(stream[t].units))
      /\ stream'[t].closed = stream[t].closed
  <2> DEFINE rest == SubSeq(stream[t].units, nread + 1, Len(stream[t].units))
  <2>1. rest \in Seq(Units) BY RestFacts, TypeFacts
  <2>2. stream' = [stream EXCEPT ![t].units = rest] BY DEF RecvReads
  <2> HIDE DEF rest
  <2>3. stream \in [T -> [units : Seq(Units), closed : BOOLEAN]] BY DEF TypeOK
  <2> QED BY <2>1, <2>2, <2>3 DEF rest
<1>7. CASE cursor < BufferSize
  <2> DEFINE new == [receiver[t] EXCEPT !.remaining = @ - nread,
                                        !.cursor = cursor]
  <2>1. receiver' = [receiver EXCEPT ![t] = new] BY <1>7 DEF RecvReads
  <2>2. cursor \in 0 .. BufferSize - 1 BY <1>1, <1>7, TransferFacts
  <2>3. new \in Receiving BY <1>1, <1>4, <2>2 DEF Receiving
  <2>4. /\ new.pc = receiver[t].pc /\ new.cursor = cursor
        /\ new.hasher = receiver[t].hasher
        /\ new.remaining = receiver[t].remaining - nread
    BY <1>4 DEF Receiving
  <2> HIDE DEF new
  <2>5. receiver' \in [T -> Receiving] /\ receiver'[t] = new
    BY <2>1, <2>3, ReceiverUpdate
  <2> QED BY <1>5, <1>6, <1>7, <2>4, <2>5
<1>8. CASE ~ cursor < BufferSize
  <2> DEFINE new == [receiver[t] EXCEPT !.remaining = @ - nread,
                                        !.cursor = 0, !.hasher = hasher]
  <2>1. receiver' = [receiver EXCEPT ![t] = new] BY <1>8 DEF RecvReads
  <2>2. 0 \in 0 .. BufferSize - 1 /\ cursor = BufferSize
    BY <1>1, <1>8, TransferFacts
  <2> HIDE DEF hasher
  <2>3. new \in Receiving BY <1>1, <1>3, <1>4, <2>2 DEF Receiving
  <2>4. /\ new.pc = receiver[t].pc /\ new.cursor = 0 /\ new.hasher = hasher
        /\ new.remaining = receiver[t].remaining - nread
    BY <1>4 DEF Receiving
  <2> HIDE DEF new
  <2>5. receiver' \in [T -> Receiving] /\ receiver'[t] = new
    BY <2>1, <2>3, ReceiverUpdate
  <2>6. hasher = HashChunk(receiver[t].hasher, RecvBuffer(content, BufferSize))
    BY <2>2 DEF hasher
  <2> QED BY <1>5, <1>6, <1>8, <2>2, <2>4, <2>5, <2>6
<1> QED BY <1>7, <1>8

LEMMA RecvZeroEffect ==
  ASSUME TypeOK, NEW t \in T, LengthOK(t), RecvZero(t)
  PROVE  /\ receiver' \in [T -> Receiving]
         /\ receiver'[t].pc = "footer" /\ receiver'[t].cursor = 0
         /\ receiver'[t].remaining = receiver[t].remaining
         /\ receiver'[t].hasher =
              HashTail(receiver[t].hasher,
                       RecvBuffer(received[t], receiver[t].cursor))
<1> DEFINE buffer == RecvBuffer(received[t], receiver[t].cursor)
           hasher == HashTail(receiver[t].hasher, buffer)
           new == [receiver[t] EXCEPT !.pc = "footer", !.cursor = 0,
                                      !.hasher = hasher]
<1>1. receiver[t].cursor \in Nat /\ received[t] \in Seq(Units)
  BY TypeFacts, TransferFacts
<1>2. buffer \in Seq(Units) BY <1>1, RecvBufferFacts DEF LengthOK
<1>3. hasher \in Seq(HashUnits \cup Units)
  <2>1. /\ receiver[t].hasher \in Seq(HashUnits \cup Units)
        /\ buffer \in Seq(HashUnits \cup Units)
    BY <1>2, TypeFacts
  <2> HIDE DEF buffer
  <2> QED BY <2>1, HashTypes
<1>4. receiver[t] \in Receiving BY DEF TypeOK, Receiving
<1>5. receiver' = [receiver EXCEPT ![t] = new] BY DEF RecvZero
<1> HIDE DEF hasher
<1>6. new \in Receiving
  <2>1. 0 \in 0 .. BufferSize - 1 BY TransferFacts
  <2> QED BY <1>3, <1>4, <2>1 DEF Receiving
<1>7. /\ new.pc = "footer" /\ new.cursor = 0 /\ new.hasher = hasher
      /\ new.remaining = receiver[t].remaining
  BY <1>4 DEF Receiving
<1> HIDE DEF new
<1>8. receiver' \in [T -> Receiving] /\ receiver'[t] = new
  BY <1>5, <1>6, ReceiverUpdate
<1> QED BY <1>7, <1>8 DEF hasher

LEMMA TailFacts ==
  ASSUME NEW S, NEW s \in Seq(S), s # <<>>
  PROVE  /\ Tail(s) \in Seq(S) /\ Len(s) > 0 /\ Head(s) = s[1]
         /\ Tail(s) = SubSeq(s, 2, Len(s))
         /\ Len(Tail(s)) = Len(s) - 1
         /\ \A i \in 1 .. Len(s) - 1 : Tail(s)[i] = s[1 + i]
<1>1. Tail(s) \in Seq(S) /\ Len(s) \in Nat /\ Len(s) > 0 /\ Head(s) = s[1]
  OBVIOUS
<1>2. /\ Len(Tail(s)) = Len(s) - 1
      /\ \A i \in 1 .. Len(s) - 1 : Tail(s)[i] = s[1 + i]
  BY <1>1
<1>3. Tail(s) = SubSeq(s, 2, Len(s))
  <2>1. /\ SubSeq(s, 1 + 1, Len(s)) \in Seq(S)
        /\ Len(SubSeq(s, 1 + 1, Len(s))) = Len(s) - 1
        /\ \A i \in 1 .. Len(s) - 1 : SubSeq(s, 1 + 1, Len(s))[i] = s[1 + i]
    BY <1>1, 1 \in Nat /\ 1 <= Len(s), RestFacts
  <2> DEFINE a == Tail(s)
             b == SubSeq(s, 1 + 1, Len(s))
  <2> HIDE DEF a, b
  <2>2. /\ a \in Seq(S) /\ b \in Seq(S) /\ Len(a) = Len(b)
        /\ \A i \in 1 .. Len(a) : a[i] = b[i]
    BY ONLY <1>1, <1>2, <2>1 DEF a, b
  <2>3. a = b BY ONLY <2>2, SeqEqual
  <2> QED BY ONLY <2>3, 1 + 1 = 2 DEF a, b
<1> QED BY <1>1, <1>2, <1>3

LEMMA RecvHeaderEffect ==
  ASSUME TypeOK, NEW t \in T, RecvHeader(t)
  PROVE  /\ receiver[t].pc = "header" /\ stream[t].units # <<>>
         /\ stream' \in [T -> [units : Seq(Units), closed : BOOLEAN]]
         /\ stream'[t].units = Tail(stream[t].units)
         /\ stream'[t].closed = stream[t].closed
         /\ receiver' \in [T -> Receiving]
         /\ IF disk[Transfers[t].name] # Absent
            THEN /\ receiver'[t].pc = "done" /\ outcome'[t] = "exists"
                 /\ raced' = raced
            ELSE /\ receiver'[t].pc = "create"
                 /\ receiver'[t].remaining = stream[t].units[1].at
                 /\ outcome' = outcome
                 /\ raced' = IF Creating(Transfers[t].name) = {} THEN raced
                             ELSE raced \cup {t}
                                    \cup Creating(Transfers[t].name)
         /\ receiver'[t].cursor = receiver[t].cursor
         /\ receiver'[t].hasher = receiver[t].hasher
         /\ outcome' \in [T -> {"none", "ok", "exists", "io", "size", "hash"}]
<1>1. /\ receiver[t].pc = "header" /\ stream[t].units # <<>>
      /\ stream' = [stream EXCEPT ![t].units = Tail(@)]
  BY DEF RecvHeader, RecvHeaderIf
<1>2. /\ stream[t].units \in Seq(Units) /\ Tail(stream[t].units) \in Seq(Units)
      /\ Head(stream[t].units) = stream[t].units[1]
      /\ stream[t].units[1] \in Units
  BY <1>1, TypeFacts, TailFacts
<1>3. stream[t].units[1].at \in Nat BY <1>2, UnitFacts
<1>4. /\ stream' \in [T -> [units : Seq(Units), closed : BOOLEAN]]
      /\ stream'[t].units = Tail(stream[t].units)
      /\ stream'[t].closed = stream[t].closed
  BY ZenonT(30), <1>1, <1>2 DEF TypeOK
<1>5. receiver[t] \in Receiving BY DEF TypeOK, Receiving
<1>6. CASE disk[Transfers[t].name] # Absent
  <2>1. Returns(t, "exists") /\ raced' = raced
    BY <1>6 DEF RecvHeader, RecvHeaderIf
  <2>2. /\ receiver' \in [T -> Receiving]
        /\ receiver'[t] = [receiver[t] EXCEPT !.pc = "done"]
        /\ outcome' \in [T -> {"none", "ok", "exists", "io", "size", "hash"}]
        /\ outcome'[t] = "exists"
    BY <2>1, ReturnsType
  <2>3. /\ receiver'[t].pc = "done"
        /\ receiver'[t].cursor = receiver[t].cursor
        /\ receiver'[t].hasher = receiver[t].hasher
    BY <1>5, <2>2 DEF Receiving
  <2> QED BY <1>1, <1>4, <1>6, <2>1, <2>2, <2>3
<1>7. CASE disk[Transfers[t].name] = Absent
  <2> DEFINE new == [receiver[t] EXCEPT !.pc = "create",
                       !.remaining = stream[t].units[1].at]
  <2>1. /\ receiver' = [receiver EXCEPT ![t] = new]
        /\ raced' = IF Creating(Transfers[t].name) = {} THEN raced
                    ELSE raced \cup {t} \cup Creating(Transfers[t].name)
        /\ outcome' = outcome
    BY <1>2, <1>7 DEF RecvHeader, RecvHeaderIf
  <2>2. new \in Receiving BY <1>3, <1>5 DEF Receiving
  <2>3. /\ new.pc = "create" /\ new.remaining = stream[t].units[1].at
        /\ new.cursor = receiver[t].cursor
        /\ new.hasher = receiver[t].hasher
    BY <1>5 DEF Receiving
  <2> HIDE DEF new
  <2>4. receiver' \in [T -> Receiving] /\ receiver'[t] = new
    BY <2>1, <2>2, ReceiverUpdate
  <2>5. outcome' \in [T -> {"none", "ok", "exists", "io", "size", "hash"}]
    BY <2>1 DEF TypeOK
  <2> QED BY <1>1, <1>4, <1>7, <2>1, <2>3, <2>4, <2>5
<1> QED BY <1>6, <1>7
(* How the footer is judged.                                               *)
Verdict(t) ==
  IF receiver[t].remaining # 0 THEN "size"
  ELSE IF verify /\ HashIn(stream[t].units) # receiver[t].hasher
  THEN "hash" ELSE "ok"

LEMMA RecvFooterEffect ==
  ASSUME TypeOK, NEW t \in T, RecvFooter(t)
  PROVE  /\ receiver[t].pc = "footer" /\ Len(stream[t].units) >= 2
         /\ stream' \in [T -> [units : Seq(Units), closed : BOOLEAN]]
         /\ stream'[t].closed = stream[t].closed
         /\ receiver' \in [T -> Receiving]
         /\ receiver'[t] = [receiver[t] EXCEPT !.pc = "done"]
         /\ outcome' \in [T -> {"none", "ok", "exists", "io", "size", "hash"}]
         /\ outcome'[t] = Verdict(t)
<1>1. /\ receiver[t].pc = "footer" /\ Len(stream[t].units) >= 2
      /\ Returns(t, Verdict(t))
      /\ stream' = [stream EXCEPT ![t].units = SubSeq(@, 2 + 1, Len(@))]
  BY DEF RecvFooter, Verdict, FooterSize
<1>2. Verdict(t) \in {"ok", "exists", "io", "size", "hash"} BY DEF Verdict
<1> DEFINE rest == SubSeq(stream[t].units, 2 + 1, Len(stream[t].units))
<1>3. rest \in Seq(Units) BY <1>1, RestFacts, TypeFacts
<1>4. stream' = [stream EXCEPT ![t].units = rest] BY <1>1
<1> HIDE DEF rest
<1>5. /\ stream' \in [T -> [units : Seq(Units), closed : BOOLEAN]]
      /\ stream'[t].closed = stream[t].closed
  <2>1. stream \in [T -> [units : Seq(Units), closed : BOOLEAN]]
    BY DEF TypeOK
  <2> QED BY ONLY <1>3, <1>4, <2>1, t \in T
<1>6. Returns(t, Verdict(t)) BY <1>1
<1>7. /\ receiver' \in [T -> Receiving]
      /\ receiver'[t] = [receiver[t] EXCEPT !.pc = "done"]
      /\ outcome' \in [T -> {"none", "ok", "exists", "io", "size", "hash"}]
      /\ outcome'[t] = Verdict(t)
  BY <1>2, <1>6, ReturnsType
<1> QED BY <1>1, <1>5, <1>7

LEMMA DoneFacts ==
  ASSUME TypeOK, NEW t \in T, receiver'[t] = [receiver[t] EXCEPT !.pc = "done"]
  PROVE  /\ receiver'[t].pc = "done"
         /\ receiver'[t].cursor = receiver[t].cursor
         /\ receiver'[t].remaining = receiver[t].remaining
         /\ receiver'[t].hasher = receiver[t].hasher
<1>1. receiver[t] \in Receiving BY DEF TypeOK, Receiving
<1> QED BY <1>1 DEF Receiving

LEMMA RecvType ==
  ASSUME TypeOK, NEW t \in T, LengthOK(t), DiskInv, RecvStep(t)
  PROVE  TypeOK'
<1>1. CASE Accept(t)
  BY <1>1 DEF Accept, TypeOK, diodeVars, historyVars
<1>2. CASE RecvHeader(t)
  <2>1. /\ UNCHANGED <<verify, length, damage, sender, disk, received>>
        /\ raced' \subseteq T
    <3>1. raced \subseteq T BY DEF TypeOK
    <3>2. Creating(Transfers[t].name) \subseteq T BY DEF Creating
    <3>3. UNCHANGED <<verify, length, damage, sender, disk, received>>
      BY <1>2 DEF RecvHeader, RecvHeaderIf
    <3>4. \/ raced' = raced
          \/ raced' = raced \cup {t} \cup Creating(Transfers[t].name)
      BY <1>2, RecvHeaderEffect
    <3> QED BY <3>1, <3>2, <3>3, <3>4
  <2>2. /\ stream' \in [T -> [units : Seq(Units), closed : BOOLEAN]]
        /\ receiver' \in [T -> Receiving]
        /\ outcome' \in [T -> {"none", "ok", "exists", "io", "size", "hash"}]
    BY <1>2, RecvHeaderEffect
  <2> QED BY <2>1, <2>2 DEF TypeOK, Receiving
<1>3. CASE RecvHeaderFail(t)
  <2>1. /\ receiver' \in [T -> Receiving]
        /\ outcome' \in [T -> {"none", "ok", "exists", "io", "size", "hash"}]
    BY <1>3, ReturnsType DEF RecvHeaderFail
  <2> QED BY <1>3, <2>1 DEF RecvHeaderFail, TypeOK, Receiving, diodeVars
<1>4. CASE RecvCreate(t)
  <2>1. <<>> \in Files BY DEF Files
  <2>2. disk' \in [Names -> Files \cup {Absent}]
    BY <1>4, <2>1 DEF RecvCreate, TypeOK
  <2>3. receiver' \in [T -> Receiving]
    <3>1. /\ receiver \in [T -> Receiving]
          /\ receiver' = [receiver EXCEPT ![t].pc = "body"]
      BY <1>4 DEF RecvCreate, TypeOK, Receiving
    <3>2. [receiver[t] EXCEPT !.pc = "body"] \in Receiving
      BY ONLY <3>1, t \in T DEF Receiving
    <3> QED BY ONLY <3>1, <3>2
  <2>4. UNCHANGED <<verify, diodeVars, sender, historyVars>>
    BY <1>4 DEF RecvCreate
  <2> QED BY <2>2, <2>3, <2>4 DEF TypeOK, Receiving, diodeVars, historyVars
<1>5. CASE RecvRead(t)
  <2>1. PICK nread \in Nat \ {0} :
          /\ nread <= End(t) - receiver[t].cursor
          /\ nread <= Len(stream[t].units)
          /\ RecvReads(t, nread)
    BY <1>5, RecvReadStep
  <2>2. /\ receiver' \in [T -> Receiving]
        /\ received' \in [T -> Seq(Units)]
        /\ stream' \in [T -> [units : Seq(Units), closed : BOOLEAN]]
    BY <2>1, RecvReadsEffect
  <2>3. disk' \in [Names -> Files \cup {Absent}]
    <3>1. CASE receiver[t].cursor + nread < BufferSize
      BY <2>1, <3>1 DEF RecvReads, TypeOK
    <3>2. CASE ~ receiver[t].cursor + nread < BufferSize
      <4>1. WriteToDisk(t, Received(t, nread), receiver[t].cursor + nread)
        BY <2>1, <3>2 DEF RecvReads
      <4>2. disk[Transfers[t].name] # Absent BY <1>5 DEF RecvRead, DiskInv
      <4>3. /\ Received(t, nread) \in Seq(Units)
            /\ receiver[t].cursor + nread \in Nat
            /\ receiver[t].cursor + nread <= Len(Received(t, nread))
        BY <2>1, ReadFacts, TransferFacts
      <4> QED BY <4>1, <4>2, <4>3, DiskType
    <3> QED BY <3>1, <3>2
  <2> QED BY <1>5, <2>2, <2>3 DEF RecvRead, TypeOK, Receiving
<1>6. CASE RecvEof(t)
  <2>1. RecvZero(t) BY <1>6 DEF RecvEof
  <2>2. receiver' \in [T -> Receiving] BY <2>1, RecvZeroEffect
  <2>3. disk' \in [Names -> Files \cup {Absent}]
    <3>1. disk[Transfers[t].name] # Absent BY <2>1 DEF RecvZero, DiskInv
    <3>2. /\ received[t] \in Seq(Units) /\ receiver[t].cursor \in Nat
          /\ receiver[t].cursor <= Len(received[t])
      BY TypeFacts, TransferFacts DEF LengthOK
    <3> QED BY <2>1, <3>1, <3>2, DiskType DEF RecvZero
  <2> QED BY <2>1, <2>2, <2>3
          DEF RecvZero, TypeOK, Receiving, diodeVars, historyVars
<1>7. CASE RecvFooter(t)
  <2>1. /\ stream' \in [T -> [units : Seq(Units), closed : BOOLEAN]]
        /\ receiver' \in [T -> Receiving]
        /\ outcome' \in [T -> {"none", "ok", "exists", "io", "size", "hash"}]
    BY <1>7, RecvFooterEffect
  <2>2. UNCHANGED <<verify, length, damage, sender, disk, received, raced>>
    BY <1>7 DEF RecvFooter
  <2> QED BY <2>1, <2>2 DEF TypeOK, Receiving
<1>8. CASE RecvFooterFail(t)
  <2>1. /\ receiver' \in [T -> Receiving]
        /\ outcome' \in [T -> {"none", "ok", "exists", "io", "size", "hash"}]
    BY <1>8, ReturnsType DEF RecvFooterFail
  <2> QED BY <1>8, <2>1 DEF RecvFooterFail, TypeOK, Receiving, diodeVars
<1>9. CASE RecvFail(t)
  <2>1. /\ receiver' \in [T -> Receiving]
        /\ outcome' \in [T -> {"none", "ok", "exists", "io", "size", "hash"}]
    BY <1>9, ReturnsType DEF RecvFail
  <2>2. damage' \subseteq T \X {"cut", "hole", "resized", "failed", "disk"}
    BY <1>9, DisturbsEffect DEF RecvFail
  <2> QED BY <1>9, <2>1, <2>2 DEF RecvFail, TypeOK, Receiving
<1> QED BY <1>1, <1>2, <1>3, <1>4, <1>5, <1>6, <1>7, <1>8, <1>9 DEF RecvStep
-----------------------------------------------------------------------------
(* What remains of a sequence when it grows, is cut or loses a piece.      *)
LEMMA RemainsAppend ==
  ASSUME NEW S, NEW c \in Seq(S), NEW w \in Seq(S), NEW u \in Seq(S),
         NEW a \in Nat, NEW k \in Nat,
         Remains(c, w, a, k), RemainsWhole(c, w, a, k)
  PROVE  /\ Remains(c \o u, w \o u, a, k)
         /\ RemainsWhole(c \o u, w \o u, a, k)
<1>1. /\ Len(c) \in Nat /\ Len(w) \in Nat /\ Len(u) \in Nat
      /\ Len(w) = Len(c) + k /\ a <= Len(c)
  BY DEF RemainsWhole
<1>2. /\ Len(c \o u) = Len(c) + Len(u)
      /\ \A i \in 1 .. Len(c) : (c \o u)[i] = c[i]
      /\ \A i \in 1 .. Len(u) : (c \o u)[Len(c) + i] = u[i]
  BY ONLY c \in Seq(S), u \in Seq(S), ConcatFacts
<1>3. /\ Len(w \o u) = Len(w) + Len(u)
      /\ \A i \in 1 .. Len(w) : (w \o u)[i] = w[i]
      /\ \A i \in 1 .. Len(u) : (w \o u)[Len(w) + i] = u[i]
  BY ONLY w \in Seq(S), u \in Seq(S), ConcatFacts
<1> DEFINE x == c \o u
           y == w \o u
<1> HIDE DEF x, y
<1>4. ASSUME NEW i \in 1 .. Len(x)
      PROVE  x[i] = y[IF i <= a THEN i ELSE i + k]
  <2>1. CASE i \in 1 .. Len(c)
    <3>1. x[i] = w[IF i <= a THEN i ELSE i + k]
      BY <1>2, <2>1 DEF Remains, x
    <3>2. (IF i <= a THEN i ELSE i + k) \in 1 .. Len(w) BY <1>1, <2>1
    <3> QED BY <1>3, <3>1, <3>2 DEF y
  <2>2. CASE i \notin 1 .. Len(c)
    <3>1. PICK r \in 1 .. Len(u) : i = Len(c) + r
      BY <1>1, <1>2, <2>2, i - Len(c) \in 1 .. Len(u),
         i = Len(c) + (i - Len(c)) DEF x
    <3>2. ~ i <= a /\ i + k = Len(w) + r BY <1>1, <3>1
    <3> QED BY <1>2, <1>3, <3>1, <3>2 DEF x, y
  <2> QED BY <2>1, <2>2
<1>5. Len(x) + k = Len(y) /\ a <= Len(x) BY <1>1, <1>2, <1>3 DEF x, y
<1>6. Len(x) + k <= Len(y)
  <2>1. Len(y) \in Nat BY <1>1, <1>3 DEF y
  <2> QED BY <2>1, <1>5
<1> QED BY <1>4, <1>5, <1>6 DEF Remains, RemainsWhole, x, y

LEMMA RemainsLonger ==
  ASSUME NEW S, NEW c \in Seq(S), NEW w \in Seq(S), NEW u \in Seq(S),
         NEW a \in Nat, NEW k \in Nat, Remains(c, w, a, k)
  PROVE  Remains(c, w \o u, a, k)
<1>1. /\ Len(c) \in Nat /\ Len(w) \in Nat /\ Len(u) \in Nat
      /\ Len(c) + k <= Len(w)
  BY DEF Remains
<1>2. /\ Len(w \o u) = Len(w) + Len(u)
      /\ \A i \in 1 .. Len(w) : (w \o u)[i] = w[i]
  BY ONLY w \in Seq(S), u \in Seq(S), ConcatFacts
<1>3. ASSUME NEW i \in 1 .. Len(c)
      PROVE  c[i] = (w \o u)[IF i <= a THEN i ELSE i + k]
  <2>1. (IF i <= a THEN i ELSE i + k) \in 1 .. Len(w) BY <1>1
  <2>2. c[i] = w[IF i <= a THEN i ELSE i + k] BY DEF Remains
  <2> QED BY <1>2, <2>1, <2>2
<1>4. Len(c) + k <= Len(w \o u) BY <1>1, <1>2
<1> QED BY <1>3, <1>4 DEF Remains

LEMMA RemainsPrefix ==
  ASSUME NEW c, NEW d, NEW w, Len(c) \in Nat, Len(d) \in Nat, Len(w) \in Nat,
         NEW a \in Nat, NEW k \in Nat, Remains(c, w, a, k),
         Len(d) <= Len(c), \A i \in 1 .. Len(d) : d[i] = c[i]
  PROVE  Remains(d, w, a, k)
<1>1. Len(c) + k <= Len(w) BY DEF Remains
<1>2. Len(d) + k <= Len(w) BY <1>1
<1>3. \A i \in 1 .. Len(d) : i \in 1 .. Len(c) OBVIOUS
<1> QED BY <1>2, <1>3 DEF Remains

LEMMA RemainsHole ==
  ASSUME NEW c, NEW d, NEW w, Len(c) \in Nat, Len(d) \in Nat, Len(w) \in Nat,
         NEW a \in Nat, Remains(c, w, a, 0),
         NEW p \in Nat, NEW q \in Nat, Len(d) + q = Len(c), p <= Len(d),
         \A i \in 1 .. Len(d) : d[i] = c[IF i <= p THEN i ELSE i + q]
  PROVE  /\ Remains(d, w, p, q)
         /\ RemainsWhole(c, w, a, 0) => RemainsWhole(d, w, p, q)
<1>1. Len(c) <= Len(w) BY DEF Remains
<1>2. \A i \in 1 .. Len(c) : c[i] = w[i]
  BY \A i \in 1 .. Len(c) : (IF i <= a THEN i ELSE i + 0) = i DEF Remains
<1>3. \A i \in 1 .. Len(d) : (IF i <= p THEN i ELSE i + q) \in 1 .. Len(c)
  OBVIOUS
<1>4. Remains(d, w, p, q)
  <2>1. Len(d) + q <= Len(w) BY <1>1
  <2> QED BY <1>2, <1>3, <2>1 DEF Remains
<1>5. RemainsWhole(c, w, a, 0) => RemainsWhole(d, w, p, q)
  <2>1. Len(c) + 0 = Len(c) OBVIOUS
  <2> QED BY <2>1 DEF RemainsWhole
<1> QED BY <1>4, <1>5

(* What is behind the header.                                              *)
LEMMA BehindFacts ==
  ASSUME NEW S, NEW units \in Seq(S)
  PROVE  /\ Behind(units) \in Seq(S)
         /\ units = <<>> => Behind(units) = <<>>
         /\ units # <<>> =>
              /\ Behind(units) = Tail(units)
              /\ Len(Behind(units)) = Len(units) - 1
              /\ \A i \in 1 .. Len(units) - 1 : Behind(units)[i] = units[1 + i]
<1>1. ASSUME units = <<>> PROVE Behind(units) = <<>> /\ Behind(units) \in Seq(S)
  <2>1. Len(units) = 0 BY <1>1
  <2>2. SubSeq(units, 2, 0) \in Seq(S) /\ Len(SubSeq(units, 2, 0)) = 0
    BY <2>1, SubSeqFacts, 2 \in Nat \ {0} /\ 0 \in Nat /\ ~ 2 <= 0
  <2> QED BY <2>1, <2>2, EmptySeq DEF Behind
<1>2. ASSUME units # <<>>
      PROVE  /\ Behind(units) = Tail(units)
             /\ Behind(units) \in Seq(S)
             /\ Len(Behind(units)) = Len(units) - 1
             /\ \A i \in 1 .. Len(units) - 1 : Behind(units)[i] = units[1 + i]
  BY <1>2, TailFacts DEF Behind
<1> QED BY <1>1, <1>2

-----------------------------------------------------------------------------
(* What the steps of the sender and the diode make of a transfer.          *)
LEMMA SendHeaderEffect ==
  ASSUME TypeOK, NEW t \in T, SendHeader(t)
  PROVE  /\ sender[t].pc = "idle" /\ sender'[t].pc = "body"
         /\ sender'[t].position = sender[t].position
         /\ sender'[t].cursor = sender[t].cursor
         /\ sender'[t].hasher = sender[t].hasher
         /\ <<Header(t)>> \in Seq(Units)
         /\ stream'[t].units = IF stream[t].closed THEN stream[t].units
                               ELSE stream[t].units \o <<Header(t)>>
         /\ stream'[t].closed = stream[t].closed
         /\ UNCHANGED <<length, damage, receiver, received, outcome>>
<1>1. /\ sender[t].pc = "idle"
      /\ sender' = [sender EXCEPT ![t].pc = "body"]
      /\ stream' = [stream EXCEPT ![t] = Write(t, <<Header(t)>>)]
      /\ UNCHANGED <<length, damage, receiver, received, outcome>>
  BY DEF SendHeader, IsNext, historyVars
<1>2. <<Header(t)>> \in Seq(Units)
  <2>1. Header(t) \in Units BY TypeFacts, UnitFacts DEF Header
  <2> QED BY <2>1
<1>3. stream'[t] = Write(t, <<Header(t)>>) BY <1>1 DEF TypeOK
<1>4. /\ sender'[t].pc = "body"
      /\ sender'[t].position = sender[t].position
      /\ sender'[t].cursor = sender[t].cursor
      /\ sender'[t].hasher = sender[t].hasher
  BY <1>1 DEF TypeOK
<1> QED BY <1>1, <1>2, <1>3, <1>4, WriteFacts

LEMMA SendReadEffect ==
  ASSUME TypeOK, NEW t \in T, LengthOK(t), SendRead(t)
  PROVE  \E nread \in Nat \ {0} :
    /\ sender[t].pc = "body" /\ sender'[t].pc = "body"
    /\ sender'[t].position = sender[t].position + nread
    /\ sender'[t].position <= length[t]
    /\ UNCHANGED <<length, damage, receiver, received, outcome>>
    /\ \/ /\ sender'[t].cursor = sender[t].cursor + nread
          /\ sender'[t].hasher = sender[t].hasher
          /\ stream'[t] = stream[t]
       \/ LET buffer == SendBuffer(t, sender'[t].position,
                                   Transfers[t].buffer_size)
          IN /\ sender[t].cursor + nread = Transfers[t].buffer_size
             /\ sender'[t].cursor = 0
             /\ sender'[t].hasher = HashChunk(sender[t].hasher, buffer)
             /\ stream'[t].units = IF stream[t].closed THEN stream[t].units
                                   ELSE stream[t].units \o buffer
             /\ stream'[t].closed = stream[t].closed
<1>1. PICK nread \in 1 .. Transfers[t].buffer_size - sender[t].cursor :
        SendReads(t, nread)
  BY DEF SendRead, SendReads
<1>2. /\ sender[t].pc = "body"
      /\ UNCHANGED <<length, damage, receiver, received, outcome>>
  BY DEF SendRead, historyVars
<1> DEFINE position == sender[t].position + nread
           cursor == sender[t].cursor + nread
           buffer == SendBuffer(t, position, cursor)
           hasher == HashChunk(sender[t].hasher, buffer)
<1>3. /\ position \in Nat /\ cursor \in Nat /\ cursor <= position
      /\ Transfers[t].buffer_size \in Nat /\ nread \in Nat \ {0}
      /\ cursor <= Transfers[t].buffer_size
  BY SMTT(30), TypeFacts, TransferFacts DEF LengthOK
<1>4. position <= length[t] BY <1>1 DEF SendReads
<1>5. sender \in [T -> Sending] /\ sender[t] \in Sending BY DEF TypeOK, Sending
<1>6. CASE cursor < Transfers[t].buffer_size
  <2> DEFINE new == [sender[t] EXCEPT !.position = position,
                                      !.cursor = cursor]
  <2>1. sender' = [sender EXCEPT ![t] = new] /\ stream' = stream
    BY <1>1, <1>6 DEF SendReads
  <2>2. sender'[t] = new BY <1>5, <2>1
  <2>3. /\ new.pc = sender[t].pc /\ new.position = position
        /\ new.cursor = cursor /\ new.hasher = sender[t].hasher
    BY <1>5 DEF Sending
  <2> HIDE DEF new
  <2> QED BY <1>2, <1>3, <1>4, <2>1, <2>2, <2>3
<1>7. CASE ~ cursor < Transfers[t].buffer_size
  <2> DEFINE new == [sender[t] EXCEPT !.position = position,
                                      !.cursor = 0, !.hasher = hasher]
  <2>1. /\ sender' = [sender EXCEPT ![t] = new]
        /\ stream' = [stream EXCEPT ![t] = Write(t, buffer)]
    BY <1>1, <1>7 DEF SendReads
  <2>2. sender'[t] = new BY <1>5, <2>1
  <2> HIDE DEF hasher
  <2>3. /\ new.pc = sender[t].pc /\ new.position = position
        /\ new.cursor = 0 /\ new.hasher = hasher
    BY <1>5 DEF Sending
  <2> HIDE DEF new
  <2>4. buffer \in Seq(Units) BY <1>3, BufferFacts
  <2>5. stream'[t] = Write(t, buffer)
    <3> HIDE DEF buffer
    <3> QED BY <2>1 DEF TypeOK
  <2>6. /\ stream'[t].units = IF stream[t].closed THEN stream[t].units
                              ELSE stream[t].units \o buffer
        /\ stream'[t].closed = stream[t].closed
    <3> HIDE DEF buffer
    <3> QED BY <2>4, <2>5, WriteFacts
  <2>7. cursor = Transfers[t].buffer_size BY <1>3, <1>7
  <2>8. buffer = SendBuffer(t, position, Transfers[t].buffer_size) BY <2>7
  <2>9. hasher = HashChunk(sender[t].hasher, buffer) BY DEF hasher
  <2> HIDE DEF buffer
  <2> QED BY <1>2, <1>3, <1>4, <2>2, <2>3, <2>6, <2>7, <2>8, <2>9
<1> QED BY <1>6, <1>7

LEMMA SendEofEffect ==
  ASSUME TypeOK, NEW t \in T, LengthOK(t), SendEof(t)
  PROVE  LET buffer == SendBuffer(t, sender[t].position, sender[t].cursor)
             hasher == HashTail(sender[t].hasher, buffer)
         IN /\ sender[t].pc = "body" /\ sender'[t].pc = "sent"
            /\ sender[t].position >= length[t]
            /\ sender'[t].position = sender[t].position
            /\ sender'[t].cursor = 0 /\ sender'[t].hasher = hasher
            /\ stream'[t].units = IF stream[t].closed THEN stream[t].units
                                  ELSE stream[t].units \o LastUnits(t, hasher)
            /\ stream'[t].closed = TRUE
            /\ UNCHANGED <<length, damage, receiver, received, outcome>>
<1> DEFINE buffer == SendBuffer(t, sender[t].position, sender[t].cursor)
           hasher == HashTail(sender[t].hasher, buffer)
           new == [sender[t] EXCEPT !.pc = "sent", !.cursor = 0,
                                    !.hasher = hasher]
<1>1. /\ sender[t].pc = "body" /\ sender[t].position >= length[t]
      /\ sender' = [sender EXCEPT ![t] = new]
      /\ stream' = [stream EXCEPT ![t] =
                      [Write(t, LastUnits(t, hasher)) EXCEPT !.closed = TRUE]]
      /\ UNCHANGED <<length, damage, receiver, received, outcome>>
  BY DEF SendEof, SendLast, LastUnits, historyVars
<1>2. LastUnits(t, hasher) \in Seq(Units) BY LastFacts
<1> HIDE DEF hasher
<1>3. sender \in [T -> Sending] /\ sender[t] \in Sending BY DEF TypeOK, Sending
<1>4. sender'[t] = new BY <1>1, <1>3
<1>5. /\ new.pc = "sent" /\ new.position = sender[t].position
      /\ new.cursor = 0 /\ new.hasher = hasher
  BY <1>3 DEF Sending
<1>6. stream'[t] = [Write(t, LastUnits(t, hasher)) EXCEPT !.closed = TRUE]
  BY <1>1 DEF TypeOK
<1>7. /\ stream'[t].units = IF stream[t].closed THEN stream[t].units
                            ELSE stream[t].units \o LastUnits(t, hasher)
      /\ stream'[t].closed = TRUE
  BY <1>2, <1>6, WriteFacts
<1> QED BY <1>1, <1>4, <1>5, <1>7 DEF hasher

LEMMA SendFailEffect ==
  ASSUME TypeOK, NEW t \in T, SendFail(t)
  PROVE  /\ sender[t].pc \in {"idle", "body"} /\ sender'[t].pc = "failed"
         /\ sender'[t].position = sender[t].position
         /\ sender'[t].cursor = sender[t].cursor
         /\ sender'[t].hasher = sender[t].hasher
         /\ stream'[t].units = stream[t].units
         /\ stream'[t].closed = TRUE
         /\ Disturbs(t, "failed")
         /\ UNCHANGED <<length, receiver, received, outcome>>
BY DEF SendFail, IsNext, TypeOK, historyVars

LEMMA CutEffect ==
  ASSUME TypeOK, NEW t \in T, Cut(t)
  PROVE  /\ sender[t].pc # "idle" /\ Disturbs(t, "cut")
         /\ \E n \in 0 .. Len(stream[t].units) :
              stream'[t].units = SubSeq(stream[t].units, 1, n)
         /\ stream'[t].closed = TRUE
         /\ UNCHANGED <<length, sender, receiver, received, outcome>>
<1>1. PICK n \in 0 .. Len(stream[t].units) :
        stream' = [stream EXCEPT ![t] =
                     [units |-> SubSeq(stream[t].units, 1, n),
                      closed |-> TRUE]]
  BY DEF Cut
<1>2. stream'[t] = [units |-> SubSeq(stream[t].units, 1, n), closed |-> TRUE]
  BY <1>1 DEF TypeOK
<1> QED BY <1>2 DEF Cut, historyVars

LEMMA HoleEffect ==
  ASSUME TypeOK, NEW t \in T, Hole(t)
  PROVE  /\ Disturbs(t, "hole")
         /\ \E i, j \in 1 .. Len(stream[t].units) :
              /\ i <= j
              /\ stream[t].units[i].kind # "header"
              /\ stream'[t].units =
                   SubSeq(stream[t].units, 1, i - 1)
                     \o SubSeq(stream[t].units, j + 1, Len(stream[t].units))
         /\ stream'[t].closed = stream[t].closed
         /\ UNCHANGED <<length, sender, receiver, received, outcome>>
<1>1. PICK i \in DOMAIN stream[t].units, j \in DOMAIN stream[t].units :
        /\ i <= j /\ stream[t].units[i].kind # "header"
        /\ stream' = [stream EXCEPT ![t].units =
                        SubSeq(@, 1, i - 1) \o SubSeq(@, j + 1, Len(@))]
  BY DEF Hole
<1>2. DOMAIN stream[t].units = 1 .. Len(stream[t].units) BY TypeFacts
<1> DEFINE left == SubSeq(stream[t].units, 1, i - 1)
                     \o SubSeq(stream[t].units, j + 1, Len(stream[t].units))
<1>3. stream' = [stream EXCEPT ![t].units = left] BY <1>1
<1> HIDE DEF left
<1>4. stream'[t].units = left /\ stream'[t].closed = stream[t].closed
  BY <1>3 DEF TypeOK
<1> QED BY <1>1, <1>2, <1>4 DEF left, Hole, historyVars
-----------------------------------------------------------------------------
(* What has come is what was written.                                      *)
LEMMA ContentFacts ==
  ASSUME NEW t \in T, NEW n \in Nat
  PROVE  /\ Content(t, n) \in Seq(Units) /\ Content(t, n) \in Seq(HashUnits)
         /\ Len(Content(t, n)) = n
         /\ \A i \in 1 .. n : Content(t, n)[i] = Byte(t, i)
<1>1. \A i \in 1 .. n : Byte(t, i) \in Units /\ Byte(t, i) \in HashUnits
  BY UnitFacts, \A i \in 1 .. n : i \in Nat
<1> DEFINE b(i) == Byte(t, i)
<1> HIDE DEF b
<1>2. \A S : (\A i \in 1 .. n : b(i) \in S) =>
        [i \in 1 .. n |-> b(i)] \in Seq(S)
  OBVIOUS
<1>3. Len([i \in 1 .. n |-> b(i)]) = n OBVIOUS
<1> USE DEF b
<1> QED BY <1>1, <1>2, <1>3 DEF Content

LEMMA ContentGrows ==
  ASSUME NEW t \in T, NEW n \in Nat, NEW b \in Nat, b <= n
  PROVE  Content(t, n) = Content(t, n - b) \o SendBuffer(t, n, b)
<1> DEFINE c == Content(t, n)
           d == Content(t, n - b)
           u == SendBuffer(t, n, b)
<1>1. /\ c \in Seq(Units) /\ Len(c) = n
      /\ \A i \in 1 .. n : c[i] = Byte(t, i)
  BY ContentFacts
<1>2. /\ d \in Seq(Units) /\ Len(d) = n - b
      /\ \A i \in 1 .. n - b : d[i] = Byte(t, i)
  BY ContentFacts, n - b \in Nat
<1>3. /\ u \in Seq(Units) /\ Len(u) = b
      /\ \A i \in 1 .. b : u[i] = Byte(t, n - b + i)
  BY BufferFacts
<1> HIDE DEF c, d, u
<1>4. d \in Seq(Units) /\ u \in Seq(Units) BY <1>2, <1>3
<1>5. /\ d \o u \in Seq(Units) /\ Len(d \o u) = Len(d) + Len(u)
      /\ \A i \in 1 .. Len(d) : (d \o u)[i] = d[i]
      /\ \A i \in 1 .. Len(u) : (d \o u)[Len(d) + i] = u[i]
  BY ONLY <1>4, ConcatFacts
<1>6. Len(d \o u) = n BY <1>2, <1>3, <1>5
<1>7. ASSUME NEW i \in 1 .. n PROVE c[i] = (d \o u)[i]
  <2>1. CASE i \in 1 .. n - b BY <1>1, <1>2, <1>5, <2>1
  <2>2. CASE i \notin 1 .. n - b
    <3>1. PICK r \in 1 .. b : i = n - b + r
      BY <2>2, i - (n - b) \in 1 .. b, i = n - b + (i - (n - b))
    <3>2. (d \o u)[Len(d) + r] = u[r] BY ONLY <1>3, <1>5, r \in 1 .. b
    <3>3. Len(d) + r = i BY ONLY <1>2, <3>1
    <3>4. u[r] = Byte(t, n - b + r) BY ONLY <1>3, r \in 1 .. b
    <3>5. c[i] = Byte(t, i) BY ONLY <1>1, i \in 1 .. n
    <3> QED BY ONLY <3>1, <3>2, <3>3, <3>4, <3>5
  <2> QED BY <2>1, <2>2
<1>8. c = d \o u BY <1>1, <1>5, <1>6, <1>7, SeqEqual
<1> QED BY <1>8 DEF c, d, u

LEMMA WrittenFacts ==
  ASSUME TypeOK, NEW t \in T, LengthOK(t)
  PROVE  /\ Flushed(t) \in Nat
         /\ FooterHash(t) \in Seq(HashUnits)
         /\ Written(t) \in Seq(Units)
         /\ sender[t].pc # "sent" => Written(t) = Content(t, Flushed(t))
         /\ Len(Written(t)) =
              Flushed(t) + (IF sender[t].pc = "sent" THEN 2 ELSE 0)
         /\ \A i \in 1 .. Flushed(t) : Written(t)[i] = Byte(t, i)
         /\ sender[t].pc = "sent" => \A i \in 1 .. 2 :
              Written(t)[Flushed(t) + i] = Unit("footer", t, i, FooterHash(t))
<1>1. Flushed(t) \in Nat BY TypeFacts DEF LengthOK, Flushed
<1>2. FooterHash(t) \in Seq(HashUnits)
  BY TypeFacts, UnitFacts DEF FooterHash, NoHash
<1> DEFINE c == Content(t, Flushed(t))
           f == IF sender[t].pc = "sent" THEN Footer(t, FooterHash(t))
                ELSE <<>>
<1>3. /\ c \in Seq(Units) /\ Len(c) = Flushed(t)
      /\ \A i \in 1 .. Flushed(t) : c[i] = Byte(t, i)
  BY <1>1, ContentFacts
<1>4. /\ f \in Seq(Units)
      /\ Len(f) = IF sender[t].pc = "sent" THEN 2 ELSE 0
      /\ sender[t].pc = "sent" => \A i \in 1 .. 2 :
           f[i] = Unit("footer", t, i, FooterHash(t))
      /\ sender[t].pc # "sent" => f = <<>>
  <2>1. CASE sender[t].pc = "sent" BY <1>2, <2>1, FooterFacts
  <2>2. CASE sender[t].pc # "sent" BY <2>2
  <2> QED BY <2>1, <2>2
<1> HIDE DEF c, f
<1>5. c \in Seq(Units) /\ f \in Seq(Units) BY <1>3, <1>4
<1>6. /\ c \o f \in Seq(Units) /\ Len(c \o f) = Len(c) + Len(f)
      /\ \A i \in 1 .. Len(c) : (c \o f)[i] = c[i]
      /\ \A i \in 1 .. Len(f) : (c \o f)[Len(c) + i] = f[i]
  BY ONLY <1>5, ConcatFacts
<1>7. Written(t) = c \o f BY DEF Written, c, f
<1>8. ASSUME sender[t].pc # "sent" PROVE c \o f = c
  BY <1>4, <1>5, <1>8, ConcatEmptySeq
<1>9. Len(c \o f) = Flushed(t) + (IF sender[t].pc = "sent" THEN 2 ELSE 0)
  BY <1>3, <1>4, <1>6
<1>10. \A i \in 1 .. Flushed(t) : (c \o f)[i] = Byte(t, i) BY <1>3, <1>6
<1>11. sender[t].pc = "sent" => \A i \in 1 .. 2 :
         (c \o f)[Flushed(t) + i] = Unit("footer", t, i, FooterHash(t))
  BY <1>3, <1>4, <1>6
<1> QED BY <1>1, <1>2, <1>6, <1>7, <1>8, <1>9, <1>10, <1>11 DEF c

LEMMA CameFacts ==
  ASSUME TypeOK, NEW t \in T
  PROVE  Came(t) \in Seq(Units) /\ HeaderDue(t) \in BOOLEAN
<1>1. received[t] \in Seq(Units) /\ stream[t].units \in Seq(Units) BY TypeFacts
<1>2. HeaderDue(t) \in BOOLEAN BY DEF HeaderDue
<1> QED BY <1>1, <1>2, BehindFacts, ConcatFacts DEF Came

(* What is sent is appended to what may still be taken, unless it is lost. *)
LEMMA BehindGrows ==
  ASSUME NEW S, NEW units \in Seq(S), NEW u \in Seq(S), units # <<>>
  PROVE  Behind(units \o u) = Behind(units) \o u
<1>0. units \o u \in Seq(S) /\ Len(units \o u) = Len(units) + Len(u)
  BY ONLY units \in Seq(S), u \in Seq(S), ConcatFacts
<1>1. units # <<>> /\ Len(units) \in Nat \ {0} /\ Len(u) \in Nat
  BY EmptySeq
<1>2. units \o u # <<>> BY <1>0, <1>1, EmptySeq
<1> DEFINE w == units \o u
<1>3. /\ \A i \in 1 .. Len(units) : w[i] = units[i]
      /\ \A i \in 1 .. Len(u) : w[Len(units) + i] = u[i]
  BY ONLY units \in Seq(S), u \in Seq(S), ConcatFacts
<1>4. /\ Behind(units) \in Seq(S) /\ Len(Behind(units)) = Len(units) - 1
      /\ \A i \in 1 .. Len(units) - 1 : Behind(units)[i] = units[1 + i]
  BY <1>1, BehindFacts
<1> HIDE DEF w
<1>5. /\ Behind(w) \in Seq(S) /\ Len(Behind(w)) = Len(w) - 1
      /\ \A i \in 1 .. Len(w) - 1 : Behind(w)[i] = w[1 + i]
  BY <1>0, <1>2, BehindFacts DEF w
<1> DEFINE a == Behind(units)
           d == Behind(w)
<1> HIDE DEF a, d
<1>6. a \in Seq(S) /\ u \in Seq(S) BY <1>4 DEF a
<1>7. /\ a \o u \in Seq(S) /\ Len(a \o u) = Len(a) + Len(u)
      /\ \A i \in 1 .. Len(a) : (a \o u)[i] = a[i]
      /\ \A i \in 1 .. Len(u) : (a \o u)[Len(a) + i] = u[i]
  BY ONLY <1>6, ConcatFacts
<1>8. Len(d) = Len(a \o u) /\ Len(a) = Len(units) - 1
  BY <1>0, <1>1, <1>4, <1>5, <1>7 DEF a, d, w
<1>9. ASSUME NEW i \in 1 .. Len(d) PROVE d[i] = (a \o u)[i]
  <2>1. i \in 1 .. Len(w) - 1 /\ d[i] = w[1 + i] BY <1>5 DEF d
  <2>2. CASE i <= Len(units) - 1
    <3>1. i \in 1 .. Len(units) - 1 /\ 1 + i \in 1 .. Len(units)
      BY <1>1, <2>1, <2>2
    <3>2. a[i] = units[1 + i] BY <1>4, <3>1 DEF a
    <3> QED BY <1>3, <1>7, <1>8, <2>1, <3>1, <3>2
  <2>3. CASE ~ i <= Len(units) - 1
    <3>1. Len(w) = Len(units) + Len(u) BY <1>0 DEF w
    <3>2. PICK r \in 1 .. Len(u) : i = Len(units) - 1 + r
      BY <1>1, <2>1, <2>3, <3>1, i - (Len(units) - 1) \in 1 .. Len(u),
         i = Len(units) - 1 + (i - (Len(units) - 1))
    <3>3. 1 + i = Len(units) + r /\ i = Len(a) + r BY <1>1, <1>8, <3>2
    <3> QED BY <1>3, <1>7, <2>1, <3>3
  <2> QED BY <2>2, <2>3, <1>1
<1>10. d = a \o u BY <1>5, <1>7, <1>8, <1>9, SeqEqual DEF d
<1> QED BY <1>10 DEF a, d, w

(* What is cut off is missing at the end of what may still be taken.       *)
Prefix(d, c) ==
  /\ Len(c) \in Nat /\ Len(d) \in Nat
  /\ Len(d) <= Len(c) /\ \A i \in 1 .. Len(d) : d[i] = c[i]

LEMMA ArrivedCut ==
  ASSUME NEW S, NEW content \in Seq(S), NEW units \in Seq(S),
         NEW left \in Seq(S), Prefix(left, units)
  PROVE  /\ Prefix(Behind(left), Behind(units))
         /\ Prefix(content \o left, content \o units)
<1>1. /\ Len(left) \in Nat /\ Len(units) \in Nat /\ Len(left) <= Len(units)
      /\ \A i \in 1 .. Len(left) : left[i] = units[i]
      /\ Len(content) \in Nat
  BY DEF Prefix
<1>2. Prefix(Behind(left), Behind(units))
  <2>1. Len(Behind(left)) \in Nat /\ Len(Behind(units)) \in Nat
    BY BehindFacts
  <2>2. CASE left = <<>>
    <3>1. Len(Behind(left)) = 0 BY <2>2, BehindFacts, EmptySeq
    <3>2. \A i \in 1 .. 0 : FALSE OBVIOUS
    <3> QED BY <2>1, <3>1, <3>2 DEF Prefix
  <2>3. CASE left # <<>>
    <3> DEFINE c == Behind(units)
               d == Behind(left)
    <3>1. Len(left) \in Nat \ {0} BY <2>3, EmptySeq
    <3>2. units # <<>> BY <1>1, <3>1, EmptySeq
    <3>3. /\ Len(d) = Len(left) - 1
          /\ \A i \in 1 .. Len(left) - 1 : d[i] = left[1 + i]
          /\ Len(c) = Len(units) - 1
          /\ \A i \in 1 .. Len(units) - 1 : c[i] = units[1 + i]
      BY <2>3, <3>2, BehindFacts
    <3> HIDE DEF c, d
    <3>4. ASSUME NEW i \in 1 .. Len(d) PROVE d[i] = c[i]
      <4>1. /\ i \in 1 .. Len(left) - 1 /\ 1 + i \in 1 .. Len(left)
            /\ i \in 1 .. Len(units) - 1
        BY <1>1, <3>3
      <4> QED BY <1>1, <3>3, <4>1
    <3>5. Len(d) <= Len(c) BY <1>1, <3>3
    <3> QED BY <2>1, <3>4, <3>5 DEF Prefix, c, d
  <2> QED BY <2>2, <2>3
<1>3. Prefix(content \o left, content \o units)
  <2> DEFINE c == content \o units
             d == content \o left
  <2>1. /\ Len(c) = Len(content) + Len(units)
        /\ \A i \in 1 .. Len(content) : c[i] = content[i]
        /\ \A i \in 1 .. Len(units) : c[Len(content) + i] = units[i]
    BY ONLY content \in Seq(S), units \in Seq(S), ConcatFacts
  <2>2. /\ Len(d) = Len(content) + Len(left)
        /\ \A i \in 1 .. Len(content) : d[i] = content[i]
        /\ \A i \in 1 .. Len(left) : d[Len(content) + i] = left[i]
    BY ONLY content \in Seq(S), left \in Seq(S), ConcatFacts
  <2> HIDE DEF c, d
  <2>3. ASSUME NEW i \in 1 .. Len(d) PROVE d[i] = c[i]
    <3>1. CASE i \in 1 .. Len(content) BY <2>1, <2>2, <3>1
    <3>2. CASE i \notin 1 .. Len(content)
      <4>1. PICK r \in 1 .. Len(left) : i = Len(content) + r
        BY <1>1, <2>2, <3>2, i - Len(content) \in 1 .. Len(left),
           i = Len(content) + (i - Len(content))
      <4>2. r \in 1 .. Len(units) BY <1>1
      <4> QED BY <1>1, <2>1, <2>2, <4>1, <4>2
    <3> QED BY <3>1, <3>2
  <2>4. Len(c) \in Nat /\ Len(d) \in Nat /\ Len(d) <= Len(c)
    BY <1>1, <2>1, <2>2
  <2> QED BY <2>3, <2>4 DEF Prefix, c, d
<1> QED BY <1>2, <1>3

LEMMA StreamKept ==
  ASSUME TypeOK, NEW t \in T, StreamOK(t), receiver[t].pc # "done",
         Came(t)' = Came(t), Written(t)' = Written(t),
         \A w : Disturbed(t, w) => Disturbed(t, w)'
  PROVE  StreamOK(t)'
BY DEF StreamOK

(* The sender writes more, which arrives unless the connection is closed.  *)
LEMMA StreamWrites ==
  ASSUME TypeOK, NEW t \in T, StreamOK(t), HeaderOK(t), LengthOK(t),
         sender[t].pc = "body", NEW u \in Seq(Units),
         Written(t)' = Written(t) \o u,
         stream'[t].units = IF stream[t].closed THEN stream[t].units
                            ELSE stream[t].units \o u,
         receiver' = receiver, received' = received, damage' = damage
  PROVE  StreamOK(t)'
<1> SUFFICES ASSUME receiver[t].pc # "done"
             PROVE  StreamOK(t)'
  BY DEF StreamOK
<1>1. PICK a \in Nat, k \in Nat :
        /\ Remains(Came(t), Written(t), a, k)
        /\ k > 0 => Disturbed(t, "hole")
        /\ ~ Disturbed(t, "cut") => RemainsWhole(Came(t), Written(t), a, k)
  BY DEF StreamOK
<1>2. Came(t) \in Seq(Units) /\ Written(t) \in Seq(Units)
  BY CameFacts, WrittenFacts
<1>3. \A w : Disturbed(t, w)' <=> Disturbed(t, w) BY DEF Disturbed
<1>4. CASE stream[t].closed
  <2>1. Disturbed(t, "cut") BY <1>4 DEF HeaderOK
  <2>2. Came(t)' = Came(t) BY <1>4 DEF Came, HeaderDue
  <2>3. Remains(Came(t), Written(t) \o u, a, k)
    BY <1>1, <1>2, RemainsLonger
  <2> QED BY <1>1, <1>3, <2>1, <2>2, <2>3 DEF StreamOK
<1>5. CASE ~ stream[t].closed
  <2>1. ~ Disturbed(t, "cut") BY <1>5 DEF HeaderOK
  <2>2. HeaderDue(t) => stream[t].units # <<>> BY <2>1 DEF HeaderOK
  <2>3. Came(t)' = Came(t) \o u
    <3>1. received[t] \in Seq(Units) /\ stream[t].units \in Seq(Units)
      BY TypeFacts
    <3>2. /\ HeaderDue(t)' <=> HeaderDue(t)
          /\ stream'[t].units = stream[t].units \o u
      BY <1>5 DEF HeaderDue
    <3>3. CASE HeaderDue(t)
      <4>1. Behind(stream[t].units \o u) = Behind(stream[t].units) \o u
        BY <2>2, <3>1, <3>3, BehindGrows
      <4> QED BY <3>2, <3>3, <4>1 DEF Came
    <3>4. CASE ~ HeaderDue(t)
      <4>1. (received[t] \o stream[t].units) \o u
              = received[t] \o (stream[t].units \o u)
        <5> DEFINE x == received[t]
                   y == stream[t].units
        <5>1. x \in Seq(Units) /\ y \in Seq(Units) BY <3>1
        <5> HIDE DEF x, y
        <5>2. (x \o y) \o u = x \o (y \o u)
          BY ONLY <5>1, u \in Seq(Units), ConcatAssociative
        <5> QED BY <5>2 DEF x, y
      <4> QED BY <3>2, <3>4, <4>1 DEF Came
    <3> QED BY <3>3, <3>4
  <2>4. /\ Remains(Came(t) \o u, Written(t) \o u, a, k)
        /\ RemainsWhole(Came(t) \o u, Written(t) \o u, a, k)
    BY <1>1, <1>2, <2>1, RemainsAppend
  <2> QED BY <1>1, <1>3, <2>3, <2>4 DEF StreamOK
<1> QED BY <1>4, <1>5

LEMMA StreamCut ==
  ASSUME TypeOK, NEW t \in T, StreamOK(t), HeaderOK(t), LengthOK(t), Cut(t)
  PROVE  StreamOK(t)'
<1> SUFFICES ASSUME receiver[t].pc # "done"
             PROVE  StreamOK(t)'
  BY CutEffect DEF StreamOK
<1>1. PICK a \in Nat, k \in Nat :
        /\ Remains(Came(t), Written(t), a, k)
        /\ k > 0 => Disturbed(t, "hole")
  BY DEF StreamOK
<1>2. PICK n \in 0 .. Len(stream[t].units) :
        stream'[t].units = SubSeq(stream[t].units, 1, n)
  BY CutEffect
<1>3. /\ Disturbed(t, "cut")'
      /\ Disturbed(t, "hole") => Disturbed(t, "hole")'
  BY CutEffect, DisturbsEffect
<1>4. Written(t)' = Written(t)
  BY CutEffect DEF Written, Flushed, FooterHash
<1> DEFINE units == stream[t].units
           left == SubSeq(units, 1, n)
<1>5. units \in Seq(Units) /\ received[t] \in Seq(Units) BY TypeFacts
<1>6. left \in Seq(Units) /\ Prefix(left, units)
  <2>1. /\ left \in Seq(Units) /\ Len(left) = n
        /\ \A i \in 1 .. n : left[i] = units[i]
        /\ n \in Nat /\ n <= Len(units) /\ Len(units) \in Nat
    BY <1>5, RestFacts
  <2> HIDE DEF left, units
  <2> QED BY <2>1 DEF Prefix
<1>7. /\ HeaderDue(t)' <=> HeaderDue(t)
      /\ received'[t] = received[t] /\ stream'[t].units = left
  BY <1>2, CutEffect DEF HeaderDue
<1> HIDE DEF left
<1>8. Prefix(Came(t)', Came(t))
  <2>1. /\ Prefix(Behind(left), Behind(units))
        /\ Prefix(received[t] \o left, received[t] \o units)
    BY <1>5, <1>6, ArrivedCut
  <2> QED BY <1>7, <2>1 DEF Came
<1>9. Written(t) \in Seq(Units) BY WrittenFacts
<1>10. PICK d : d = Came(t)' OBVIOUS
<1>11. Prefix(d, Came(t)) BY <1>8, <1>10
<1>12. Remains(d, Written(t), a, k)
  BY <1>1, <1>9, <1>11, RemainsPrefix DEF Prefix
<1>13. Remains(Came(t)', Written(t)', a, k) BY <1>4, <1>10, <1>12
<1> QED BY <1>1, <1>3, <1>13 DEF StreamOK
(* What is lost is a piece of what may still be taken.                     *)
Pierced(d, c, p, q) ==
  /\ Len(c) \in Nat /\ Len(d) \in Nat
  /\ Len(d) + q = Len(c) /\ p <= Len(d)
  /\ \A i \in 1 .. Len(d) : d[i] = c[IF i <= p THEN i ELSE i + q]

LEMMA LeftPierced ==
  ASSUME NEW S, NEW units \in Seq(S),
         NEW i \in 1 .. Len(units), NEW j \in 1 .. Len(units), i <= j
  PROVE  LET left == SubSeq(units, 1, i - 1) \o SubSeq(units, j + 1, Len(units))
         IN left \in Seq(S) /\ Pierced(left, units, i - 1, j - i + 1)
<1> DEFINE a == SubSeq(units, 1, i - 1)
           b == SubSeq(units, j + 1, Len(units))
           l == Len(units)
<1>1. l \in Nat /\ i - 1 \in Nat /\ i - 1 <= l /\ j \in Nat /\ j <= l OBVIOUS
<1>2. /\ a \in Seq(S) /\ Len(a) = i - 1
      /\ \A x \in 1 .. i - 1 : a[x] = units[x]
  BY <1>1, RestFacts
<1>3. /\ b \in Seq(S) /\ Len(b) = l - j
      /\ \A x \in 1 .. l - j : b[x] = units[j + x]
  BY <1>1, RestFacts
<1> HIDE DEF a, b
<1>4. a \in Seq(S) /\ b \in Seq(S) BY <1>2, <1>3
<1>5. /\ a \o b \in Seq(S) /\ Len(a \o b) = Len(a) + Len(b)
      /\ \A x \in 1 .. Len(a) : (a \o b)[x] = a[x]
      /\ \A x \in 1 .. Len(b) : (a \o b)[Len(a) + x] = b[x]
  BY ONLY <1>4, ConcatFacts
<1> DEFINE d == a \o b
<1> HIDE DEF d, l
<1>6. Len(d) = i - 1 + (l - j) BY <1>2, <1>3, <1>5 DEF d
<1>7. ASSUME NEW x \in 1 .. Len(d)
      PROVE  d[x] = units[IF x <= i - 1 THEN x ELSE x + (j - i + 1)]
  <2>1. CASE x <= i - 1
    <3>1. x \in 1 .. i - 1 BY <2>1
    <3> QED BY <1>2, <1>5, <2>1, <3>1 DEF d
  <2>2. CASE ~ x <= i - 1
    <3>1. PICK r \in 1 .. l - j : x = i - 1 + r
      BY <1>1, <1>6, <2>2, x - (i - 1) \in 1 .. l - j,
         x = i - 1 + (x - (i - 1))
    <3>2. x + (j - i + 1) = j + r BY <1>1, <3>1
    <3> QED BY <1>2, <1>3, <1>5, <2>2, <3>1, <3>2 DEF d
  <2> QED BY <2>1, <2>2
<1>8. Pierced(d, units, i - 1, j - i + 1)
  <2>1. /\ Len(d) \in Nat /\ Len(units) \in Nat
        /\ Len(d) + (j - i + 1) = Len(units) /\ i - 1 <= Len(d)
    BY <1>1, <1>6 DEF l
  <2> QED BY <1>7, <2>1 DEF Pierced
<1> QED BY <1>5, <1>8 DEF d, a, b

LEMMA ArrivedPierced ==
  ASSUME NEW S, NEW content \in Seq(S), NEW units \in Seq(S),
         NEW left \in Seq(S), NEW p \in Nat, NEW q \in Nat,
         Pierced(left, units, p, q)
  PROVE  /\ p > 0 => Pierced(Behind(left), Behind(units), p - 1, q)
         /\ Pierced(content \o left, content \o units, Len(content) + p, q)
<1>1. /\ Len(left) \in Nat /\ Len(units) \in Nat
      /\ Len(left) + q = Len(units) /\ p <= Len(left)
      /\ \A i \in 1 .. Len(left) :
           left[i] = units[IF i <= p THEN i ELSE i + q]
      /\ Len(content) \in Nat
  BY DEF Pierced
<1>2. ASSUME p > 0 PROVE Pierced(Behind(left), Behind(units), p - 1, q)
  <2> DEFINE c == Behind(units)
             d == Behind(left)
  <2>1. left # <<>> /\ units # <<>>
    BY <1>1, <1>2, EmptySeq
  <2>2. /\ Len(d) = Len(left) - 1
        /\ \A i \in 1 .. Len(left) - 1 : d[i] = left[1 + i]
        /\ Len(c) = Len(units) - 1
        /\ \A i \in 1 .. Len(units) - 1 : c[i] = units[1 + i]
    BY <2>1, BehindFacts
  <2> HIDE DEF c, d
  <2>3. ASSUME NEW i \in 1 .. Len(d)
        PROVE  d[i] = c[IF i <= p - 1 THEN i ELSE i + q]
    <3>1. i \in 1 .. Len(left) - 1 /\ 1 + i \in 1 .. Len(left)
      BY <1>1, <2>2
    <3>2. d[i] = left[1 + i] BY <2>2, <3>1
    <3>3. CASE i <= p - 1
      <4>1. i \in 1 .. Len(units) - 1 /\ 1 + i <= p BY <1>1, <3>1, <3>3
      <4>2. left[1 + i] = units[1 + i] BY <1>1, <3>1, <4>1
      <4> QED BY <2>2, <3>2, <3>3, <4>1, <4>2
    <3>4. CASE ~ i <= p - 1
      <4>1. /\ i + q \in 1 .. Len(units) - 1 /\ ~ 1 + i <= p
            /\ 1 + i + q = 1 + (i + q)
        BY <1>1, <3>1, <3>4
      <4>2. left[1 + i] = units[1 + (i + q)] BY <1>1, <3>1, <4>1
      <4> QED BY <2>2, <3>2, <3>4, <4>1, <4>2
    <3> QED BY <3>3, <3>4
  <2>4. /\ Len(c) \in Nat /\ Len(d) \in Nat /\ Len(d) + q = Len(c)
        /\ p - 1 <= Len(d)
    BY <1>1, <1>2, <2>2
  <2> QED BY <2>3, <2>4 DEF Pierced, c, d
<1>3. Pierced(content \o left, content \o units, Len(content) + p, q)
  <2> DEFINE c == content \o units
             d == content \o left
             n == Len(content)
  <2>1. /\ Len(c) = n + Len(units)
        /\ \A i \in 1 .. n : c[i] = content[i]
        /\ \A i \in 1 .. Len(units) : c[n + i] = units[i]
    BY ONLY content \in Seq(S), units \in Seq(S), ConcatFacts
  <2>2. /\ Len(d) = n + Len(left)
        /\ \A i \in 1 .. n : d[i] = content[i]
        /\ \A i \in 1 .. Len(left) : d[n + i] = left[i]
    BY ONLY content \in Seq(S), left \in Seq(S), ConcatFacts
  <2>3. n \in Nat BY <1>1
  <2> HIDE DEF c, d, n
  <2>4. ASSUME NEW i \in 1 .. Len(d)
        PROVE  d[i] = c[IF i <= n + p THEN i ELSE i + q]
    <3>1. CASE i \in 1 .. n
      <4>1. i <= n + p BY <2>3, <3>1
      <4> QED BY <2>1, <2>2, <3>1, <4>1
    <3>2. CASE i \notin 1 .. n
      <4>1. PICK r \in 1 .. Len(left) : i = n + r
        BY <1>1, <2>2, <2>3, <3>2, i - n \in 1 .. Len(left), i = n + (i - n)
      <4>2. d[i] = units[IF r <= p THEN r ELSE r + q] BY <1>1, <2>2, <4>1
      <4>3. CASE r <= p
        <5>1. i <= n + p /\ r \in 1 .. Len(units) BY <1>1, <2>3, <4>1, <4>3
        <5> QED BY <2>1, <4>1, <4>2, <4>3, <5>1
      <4>4. CASE ~ r <= p
        <5>1. /\ ~ i <= n + p /\ r + q \in 1 .. Len(units)
              /\ i + q = n + (r + q)
          BY <1>1, <2>3, <4>1, <4>4
        <5> QED BY <2>1, <4>1, <4>2, <4>4, <5>1
      <4> QED BY <4>3, <4>4
    <3> QED BY <3>1, <3>2
  <2>5. /\ Len(c) \in Nat /\ Len(d) \in Nat /\ Len(d) + q = Len(c)
        /\ n + p <= Len(d)
    <3>1. Len(c) = n + Len(units) /\ Len(d) = n + Len(left) BY <2>1, <2>2
    <3>2. /\ Len(left) \in Nat /\ Len(units) \in Nat /\ p <= Len(left)
          /\ Len(left) + q = Len(units)
      BY <1>1
    <3> QED BY SMTT(30), <2>3, <3>1, <3>2
  <2> QED BY <2>4, <2>5 DEF Pierced, c, d, n
<1> QED BY <1>2, <1>3

LEMMA StreamHole ==
  ASSUME TypeOK, NEW t \in T, StreamOK(t), HeaderOK(t), LengthOK(t), Hole(t)
  PROVE  StreamOK(t)'
<1> SUFFICES ASSUME receiver[t].pc # "done"
             PROVE  StreamOK(t)'
  BY HoleEffect DEF StreamOK
<1>1. /\ ~ Disturbed(t, "hole") /\ Disturbed(t, "hole")'
      /\ Disturbed(t, "cut")' <=> Disturbed(t, "cut")
  BY HoleEffect, DisturbsEffect
<1>2. PICK a \in Nat :
        /\ Remains(Came(t), Written(t), a, 0)
        /\ ~ Disturbed(t, "cut") => RemainsWhole(Came(t), Written(t), a, 0)
  <2>1. PICK a \in Nat, k \in Nat :
          /\ Remains(Came(t), Written(t), a, k)
          /\ k > 0 => Disturbed(t, "hole")
          /\ ~ Disturbed(t, "cut") => RemainsWhole(Came(t), Written(t), a, k)
    BY DEF StreamOK
  <2>2. k = 0 BY <1>1, <2>1
  <2> QED BY <2>1, <2>2
<1> DEFINE units == stream[t].units
<1>3. PICK i \in 1 .. Len(units), j \in 1 .. Len(units) :
        /\ i <= j /\ units[i].kind # "header"
        /\ stream'[t].units =
             SubSeq(units, 1, i - 1) \o SubSeq(units, j + 1, Len(units))
  BY HoleEffect
<1> DEFINE left == SubSeq(units, 1, i - 1) \o SubSeq(units, j + 1, Len(units))
<1>4. units \in Seq(Units) /\ received[t] \in Seq(Units) BY TypeFacts
<1>5. left \in Seq(Units) /\ Pierced(left, units, i - 1, j - i + 1)
  BY <1>3, <1>4, LeftPierced
<1>6. stream'[t].units = left BY <1>3
<1> HIDE DEF left
<1>7. (HeaderDue(t)' <=> HeaderDue(t)) /\ received'[t] = received[t]
  BY HoleEffect DEF HeaderDue
<1>8. Written(t)' = Written(t) BY HoleEffect DEF Written, Flushed, FooterHash
<1>9. i - 1 \in Nat /\ j - i + 1 \in Nat BY <1>3
<1>10. HeaderDue(t) => i - 1 > 0
  <2>1. ASSUME HeaderDue(t) PROVE i # 1
    <3>1. units # <<>> BY <1>4, EmptySeq
    <3> QED BY <1>3, <2>1, <3>1 DEF HeaderOK
  <2> QED BY <2>1, <1>9
<1> HIDE DEF units
<1>11. \E p \in Nat : Pierced(Came(t)', Came(t), p, j - i + 1)
  <2>1. CASE HeaderDue(t)
    <3>1. Pierced(Behind(left), Behind(units), i - 1 - 1, j - i + 1)
      BY <1>4, <1>5, <1>9, <1>10, <2>1, ArrivedPierced
    <3>2. i - 1 - 1 \in Nat BY <1>9, <1>10, <2>1
    <3>3. Came(t)' = Behind(left) /\ Came(t) = Behind(units)
      BY <1>6, <1>7, <2>1 DEF Came, units
    <3> QED BY <3>1, <3>2, <3>3
  <2>2. CASE ~ HeaderDue(t)
    <3>1. Pierced(received[t] \o left, received[t] \o units,
                  Len(received[t]) + (i - 1), j - i + 1)
      BY <1>4, <1>5, <1>9, ArrivedPierced
    <3>2. Len(received[t]) + (i - 1) \in Nat BY <1>4, <1>9
    <3>3. /\ Came(t)' = received[t] \o left
          /\ Came(t) = received[t] \o units
      BY <1>6, <1>7, <2>2 DEF Came, units
    <3> QED BY <3>1, <3>2, <3>3
  <2> QED BY <2>1, <2>2
<1>12. PICK d : d = Came(t)' OBVIOUS
<1>13. PICK p \in Nat : Pierced(d, Came(t), p, j - i + 1) BY <1>11, <1>12
<1>14. Written(t) \in Seq(Units) BY WrittenFacts
<1>15. /\ Remains(d, Written(t), p, j - i + 1)
       /\ RemainsWhole(Came(t), Written(t), a, 0) =>
            RemainsWhole(d, Written(t), p, j - i + 1)
  <2>1. /\ Len(Came(t)) \in Nat /\ Len(d) \in Nat /\ Len(Written(t)) \in Nat
        /\ Len(d) + (j - i + 1) = Len(Came(t)) /\ p <= Len(d)
        /\ \A x \in 1 .. Len(d) :
             d[x] = Came(t)[IF x <= p THEN x ELSE x + (j - i + 1)]
    BY <1>13, <1>14 DEF Pierced
  <2>2. PICK c, w, q :
          c = Came(t) /\ w = Written(t) /\ q = j - i + 1
    OBVIOUS
  <2>3. /\ Len(c) \in Nat /\ Len(d) \in Nat /\ Len(w) \in Nat
        /\ Len(d) + q = Len(c) /\ p <= Len(d) /\ q \in Nat
        /\ \A x \in 1 .. Len(d) : d[x] = c[IF x <= p THEN x ELSE x + q]
        /\ Remains(c, w, a, 0)
    BY <1>2, <1>9, <2>1, <2>2
  <2>4. /\ Remains(d, w, p, q)
        /\ RemainsWhole(c, w, a, 0) => RemainsWhole(d, w, p, q)
    BY <2>3, RemainsHole
  <2> QED BY <2>2, <2>4
<1>16. /\ Remains(Came(t)', Written(t)', p, j - i + 1)
       /\ ~ Disturbed(t, "cut") =>
            RemainsWhole(Came(t)', Written(t)', p, j - i + 1)
  BY <1>2, <1>8, <1>12, <1>15
<1> QED BY <1>1, <1>9, <1>16 DEF StreamOK
LEMMA SplitAt ==
  ASSUME NEW S, NEW s \in Seq(S), NEW n \in Nat, n <= Len(s)
  PROVE  SubSeq(s, 1, n) \o SubSeq(s, n + 1, Len(s)) = s
<1> DEFINE a == SubSeq(s, 1, n)
           b == SubSeq(s, n + 1, Len(s))
<1>1. /\ a \in Seq(S) /\ Len(a) = n /\ \A i \in 1 .. n : a[i] = s[i]
      /\ b \in Seq(S) /\ Len(b) = Len(s) - n
      /\ \A i \in 1 .. Len(s) - n : b[i] = s[n + i]
  BY RestFacts
<1> HIDE DEF a, b
<1>2. a \in Seq(S) /\ b \in Seq(S) /\ Len(s) \in Nat BY <1>1
<1>3. /\ a \o b \in Seq(S) /\ Len(a \o b) = Len(a) + Len(b)
      /\ \A i \in 1 .. Len(a) : (a \o b)[i] = a[i]
      /\ \A i \in 1 .. Len(b) : (a \o b)[Len(a) + i] = b[i]
  BY ONLY <1>2, ConcatFacts
<1>4. Len(a \o b) = Len(s) BY <1>1, <1>2, <1>3
<1>5. ASSUME NEW i \in 1 .. Len(s) PROVE (a \o b)[i] = s[i]
  <2>1. CASE i \in 1 .. n BY <1>1, <1>3, <2>1
  <2>2. CASE i \notin 1 .. n
    <3>1. PICK r \in 1 .. Len(s) - n : i = n + r
      BY <1>2, <2>2, i - n \in 1 .. Len(s) - n, i = n + (i - n)
    <3> QED BY <1>1, <1>3, <3>1
  <2> QED BY <2>1, <2>2
<1>6. a \o b = s BY <1>3, <1>4, <1>5, SeqEqual
<1> QED BY <1>6 DEF a, b

LEMMA StreamSend ==
  ASSUME TypeOK, NEW t \in T, StreamOK(t), HeaderOK(t), LengthOK(t),
         SendStep(t)
  PROVE  StreamOK(t)'
<1>0. receiver' = receiver /\ received' = received
  BY DEF SendStep, SendHeader, SendRead, SendEof, SendLast, SendFail,
         historyVars
<1> SUFFICES ASSUME receiver[t].pc # "done"
             PROVE  StreamOK(t)'
  BY <1>0 DEF StreamOK
<1>1. CASE SendHeader(t)
  <2>1. /\ sender[t].pc = "idle" /\ sender'[t].pc = "body"
        /\ sender'[t].position = sender[t].position
        /\ sender'[t].cursor = sender[t].cursor
        /\ stream'[t].units = IF stream[t].closed THEN stream[t].units
                              ELSE stream[t].units \o <<Header(t)>>
        /\ <<Header(t)>> \in Seq(Units) /\ damage' = damage
    BY <1>1, SendHeaderEffect
  <2>2. Written(t)' = Written(t) BY <2>1 DEF Written, Flushed
  <2>3. Came(t)' = Came(t)
    <3>1. HeaderDue(t) /\ HeaderDue(t)' /\ stream[t].units = <<>>
      BY <1>0, <2>1 DEF HeaderOK, HeaderDue
    <3>2. Came(t) = <<>> BY <3>1, TypeFacts, BehindFacts DEF Came
    <3>3. stream'[t].units = <<>> \/ stream'[t].units = <<Header(t)>>
      <4>1. <<>> \o <<Header(t)>> = <<Header(t)>>
        BY ONLY <2>1, ConcatEmptySeq
      <4> QED BY <2>1, <3>1, <4>1
    <3>4. Behind(<<>>) = <<>>
      BY ONLY <<>> \in Seq(Units), BehindFacts
    <3>5. Behind(<<Header(t)>>) = <<>>
      <4>1. PICK h : h = Header(t) OBVIOUS
      <4>2. Tail(<<h>>) = <<>> /\ <<h>> # <<>> OBVIOUS
      <4>3. Behind(<<h>>) = Tail(<<h>>)
        BY <2>1, <4>1, <4>2, BehindFacts
      <4> QED BY <4>1, <4>2, <4>3
    <3> QED BY <3>1, <3>2, <3>3, <3>4, <3>5 DEF Came
  <2> QED BY <2>1, <2>2, <2>3, StreamKept DEF Disturbed
<1>2. CASE SendRead(t)
  <2>1. PICK nread \in Nat \ {0} :
    /\ sender[t].pc = "body" /\ sender'[t].pc = "body"
    /\ sender'[t].position = sender[t].position + nread
    /\ UNCHANGED <<damage, receiver, received>>
    /\ \/ /\ sender'[t].cursor = sender[t].cursor + nread
          /\ stream'[t] = stream[t]
       \/ LET buffer == SendBuffer(t, sender'[t].position,
                                   Transfers[t].buffer_size)
          IN /\ sender[t].cursor + nread = Transfers[t].buffer_size
             /\ sender'[t].cursor = 0
             /\ stream'[t].units = IF stream[t].closed THEN stream[t].units
                                   ELSE stream[t].units \o buffer
    BY <1>2, SendReadEffect
  <2>2. /\ sender[t].position \in Nat /\ sender[t].cursor \in Nat
        /\ sender[t].cursor <= sender[t].position
        /\ Transfers[t].buffer_size \in Nat
    BY TypeFacts, TransferFacts DEF LengthOK
  <2>3. Written(t) = Content(t, Flushed(t)) BY <2>1, WrittenFacts
  <2>4. Written(t)' = Content(t, Flushed(t)')
    <3>1. Flushed(t)' \in Nat BY <2>1, <2>2 DEF Flushed
    <3>2. Content(t, Flushed(t)') \in Seq(Units) BY <3>1, ContentFacts
    <3> QED BY <2>1, <3>2, ConcatEmptySeq DEF Written
  <2>5. CASE /\ sender'[t].cursor = sender[t].cursor + nread
             /\ stream'[t] = stream[t]
    <3>1. Flushed(t)' = Flushed(t) BY <2>1, <2>2, <2>5 DEF Flushed
    <3>2. Written(t)' = Written(t) BY <2>3, <2>4, <3>1
    <3>3. Came(t)' = Came(t) BY <2>1, <2>5 DEF Came, HeaderDue
    <3> QED BY <2>1, <3>2, <3>3, StreamKept DEF Disturbed
  <2>6. CASE LET buffer == SendBuffer(t, sender'[t].position,
                                      Transfers[t].buffer_size)
             IN /\ sender[t].cursor + nread = Transfers[t].buffer_size
                /\ sender'[t].cursor = 0
                /\ stream'[t].units = IF stream[t].closed THEN stream[t].units
                                      ELSE stream[t].units \o buffer
    <3> DEFINE n == sender'[t].position
               b == Transfers[t].buffer_size
               buffer == SendBuffer(t, n, b)
    <3>1. n \in Nat /\ b \in Nat /\ b <= n BY <2>1, <2>2, <2>6
    <3>2. Flushed(t)' = n /\ Flushed(t) = n - b
      BY <2>1, <2>2, <2>6 DEF Flushed
    <3>3. Written(t)' = Written(t) \o buffer
      <4>1. Content(t, n) = Content(t, n - b) \o buffer
        BY ONLY <3>1, t \in T, ContentGrows
      <4> QED BY <2>3, <2>4, <3>2, <4>1
    <3>4. buffer \in Seq(Units) BY <3>1, BufferFacts
    <3>5. stream'[t].units = IF stream[t].closed THEN stream[t].units
                             ELSE stream[t].units \o buffer
      BY <2>6
    <3> HIDE DEF buffer
    <3> QED BY <2>1, <3>3, <3>4, <3>5, StreamWrites
  <2> QED BY <2>1, <2>5, <2>6
<1>3. CASE SendEof(t)
  <2> DEFINE position == sender[t].position
             cursor == sender[t].cursor
             buffer == SendBuffer(t, position, cursor)
             hasher == HashTail(sender[t].hasher, buffer)
             hash == IF Transfers[t].hash THEN hasher ELSE NoHash
             last == LastUnits(t, hasher)
  <2>1. /\ sender[t].pc = "body" /\ sender'[t].pc = "sent"
        /\ sender'[t].position = position
        /\ sender'[t].cursor = 0 /\ sender'[t].hasher = hasher
        /\ stream'[t].units = IF stream[t].closed THEN stream[t].units
                              ELSE stream[t].units \o last
        /\ damage' = damage
    BY <1>3, SendEofEffect
  <2>2. position \in Nat /\ cursor \in Nat /\ cursor <= position
    BY TypeFacts DEF LengthOK
  <2>3. last \in Seq(Units) /\ hash \in Seq(HashUnits) BY LastFacts
  <2>4. Written(t) = Content(t, position - cursor)
    BY <2>1, WrittenFacts DEF Flushed
  <2>5. Flushed(t)' = position BY <2>1, <2>2 DEF Flushed
  <2>6. FooterHash(t)' = hash BY <2>1 DEF FooterHash
  <2>7. Written(t)' = Content(t, position) \o Footer(t, hash)
    BY <2>1, <2>5, <2>6 DEF Written
  <2>8. last = buffer \o Footer(t, hash) BY DEF LastUnits
  <2>9. Content(t, position) = Content(t, position - cursor) \o buffer
    BY <2>2, ContentGrows
  <2>10. PICK c, f : c = Content(t, position - cursor) /\ f = Footer(t, hash)
    OBVIOUS
  <2>11. /\ c \in Seq(Units) /\ buffer \in Seq(Units) /\ f \in Seq(Units)
    <3>1. position - cursor \in Nat BY <2>2
    <3> QED BY <2>2, <2>3, <2>10, <3>1, ContentFacts, BufferFacts, FooterFacts
  <2> HIDE DEF buffer, last, hash
  <2>12. (c \o buffer) \o f = c \o (buffer \o f)
    BY ONLY <2>11, ConcatAssociative
  <2>13. Written(t)' = Written(t) \o last
    BY <2>4, <2>7, <2>8, <2>9, <2>10, <2>12
  <2> QED BY <1>0, <2>1, <2>3, <2>13, StreamWrites
<1>4. CASE SendFail(t)
  <2>1. /\ sender[t].pc \in {"idle", "body"} /\ sender'[t].pc = "failed"
        /\ sender'[t].position = sender[t].position
        /\ sender'[t].cursor = sender[t].cursor
        /\ stream'[t].units = stream[t].units
        /\ Disturbs(t, "failed")
    BY <1>4, SendFailEffect
  <2>2. Written(t)' = Written(t) BY <2>1 DEF Written, Flushed
  <2>3. Came(t)' = Came(t) BY <1>0, <2>1 DEF Came, HeaderDue
  <2>4. \A w : Disturbed(t, w)' <=> Disturbed(t, w) \/ w = "failed"
    BY <2>1, DisturbsEffect
  <2>5. \A w : Disturbed(t, w) => Disturbed(t, w)' BY <2>4
  <2>6. (Disturbed(t, "cut")' <=> Disturbed(t, "cut")) BY <2>4
  <2> QED BY <2>2, <2>3, <2>5, StreamKept
<1> QED BY <1>1, <1>2, <1>3, <1>4 DEF SendStep
LEMMA StreamReceive ==
  ASSUME TypeOK, NEW t \in T, StreamOK(t), HeaderOK(t), LengthOK(t),
         RecvStep(t)
  PROVE  StreamOK(t)'
<1>0. sender' = sender
  BY DEF RecvStep, Accept, RecvHeader, RecvHeaderIf, RecvHeaderFail,
         RecvCreate, RecvRead, RecvEof, RecvZero, RecvFooter, RecvFooterFail,
         RecvFail
<1>1. Written(t)' = Written(t) BY <1>0 DEF Written, Flushed, FooterHash
<1>2. received[t] \in Seq(Units) /\ stream[t].units \in Seq(Units)
  BY TypeFacts
<1>3. CASE Accept(t)
  <2>1. /\ receiver[t].pc = "idle" /\ receiver'[t].pc = "header"
        /\ UNCHANGED <<received, stream, damage>>
    BY <1>3 DEF Accept, TypeOK, diodeVars, historyVars
  <2>2. Came(t)' = Came(t) BY <2>1 DEF Came, HeaderDue
  <2> QED BY <1>1, <2>1, <2>2, StreamKept DEF Disturbed
<1>4. CASE RecvHeader(t)
  <2>1. /\ receiver[t].pc = "header" /\ stream[t].units # <<>>
        /\ stream'[t].units = Tail(stream[t].units)
        /\ receiver'[t].pc \in {"done", "create"}
        /\ UNCHANGED <<received, damage>>
    BY <1>4, RecvHeaderEffect DEF RecvHeader, RecvHeaderIf
  <2>2. CASE receiver'[t].pc = "done" BY <2>2 DEF StreamOK
  <2>3. CASE receiver'[t].pc = "create"
    <3>1. received[t] = <<>> BY <2>1 DEF HeaderOK, HeaderDue
    <3>2. Came(t) = Tail(stream[t].units)
      BY <1>2, <2>1, BehindFacts DEF Came, HeaderDue
    <3>3. Came(t)' = received[t] \o Tail(stream[t].units)
      BY <2>1, <2>3 DEF Came, HeaderDue
    <3>4. Tail(stream[t].units) \in Seq(Units) BY <1>2, <2>1, TailFacts
    <3>5. <<>> \o Tail(stream[t].units) = Tail(stream[t].units)
      BY ONLY <3>4, ConcatEmptySeq
    <3>6. Came(t)' = Came(t) BY <3>1, <3>2, <3>3, <3>5
    <3> QED BY <1>1, <2>1, <3>6, StreamKept DEF Disturbed
  <2> QED BY <2>1, <2>2, <2>3
<1>5. CASE RecvHeaderFail(t) \/ RecvFooter(t) \/ RecvFooterFail(t)
             \/ RecvFail(t)
  <2>1. receiver'[t].pc = "done"
    BY <1>5 DEF RecvHeaderFail, RecvFooter, RecvFooterFail, RecvFail, Returns,
                TypeOK
  <2> QED BY <2>1 DEF StreamOK
<1>6. CASE RecvCreate(t)
  <2>1. /\ receiver[t].pc = "create" /\ receiver'[t].pc = "body"
        /\ UNCHANGED <<received, stream, damage>>
    BY <1>6 DEF RecvCreate, TypeOK, diodeVars, historyVars
  <2>2. Came(t)' = Came(t) BY <2>1 DEF Came, HeaderDue
  <2> QED BY <1>1, <2>1, <2>2, StreamKept DEF Disturbed
<1>7. CASE RecvRead(t)
  <2>1. PICK nread \in Nat \ {0} :
          /\ nread <= End(t) - receiver[t].cursor
          /\ nread <= Len(stream[t].units)
          /\ RecvReads(t, nread)
    BY <1>7, RecvReadStep
  <2> DEFINE r == received[t]
             a == SubSeq(stream[t].units, 1, nread)
             b == SubSeq(stream[t].units, nread + 1, Len(stream[t].units))
  <2>2. /\ receiver[t].pc = "body" /\ receiver'[t].pc = "body"
        /\ received'[t] = r \o a
        /\ stream'[t].units = b /\ damage' = damage
    BY <1>7, <2>1, RecvReadsEffect DEF RecvRead, Received
  <2>3. a \in Seq(Units) /\ b \in Seq(Units) /\ r \in Seq(Units)
    BY <1>2, <2>1, RestFacts
  <2>4. a \o b = stream[t].units BY <1>2, <2>1, SplitAt
  <2> HIDE DEF a, b, r
  <2>5. (r \o a) \o b = r \o (a \o b) BY ONLY <2>3, ConcatAssociative
  <2>6. Came(t)' = Came(t) BY <2>2, <2>4, <2>5 DEF Came, HeaderDue, r
  <2> QED BY <1>1, <2>2, <2>6, StreamKept DEF Disturbed
<1>8. CASE RecvEof(t)
  <2>1. /\ receiver[t].pc = "body" /\ receiver'[t].pc = "footer"
        /\ UNCHANGED <<received, stream, damage>>
    BY <1>8, RecvZeroEffect DEF RecvEof, RecvZero, diodeVars, historyVars
  <2>2. Came(t)' = Came(t) BY <2>1 DEF Came, HeaderDue
  <2> QED BY <1>1, <2>1, <2>2, StreamKept DEF Disturbed
<1> QED BY <1>3, <1>4, <1>5, <1>6, <1>7, <1>8 DEF RecvStep

LEMMA StreamStep ==
  ASSUME TypeOK, NEW t \in T, StreamOK(t), HeaderOK(t), LengthOK(t),
         Diode(t) \/ SendStep(t) \/ RecvStep(t)
  PROVE  StreamOK(t)'
<1>1. CASE Resize(t)
  <2>1. /\ Disturbs(t, "resized")
        /\ UNCHANGED <<stream, sender, receiver, received>>
    BY <1>1 DEF Resize, historyVars
  <2>2. \A w : Disturbed(t, w) => Disturbed(t, w)' BY <2>1, DisturbsEffect
  <2>3. Came(t)' = Came(t) /\ Written(t)' = Written(t)
    BY <2>1 DEF Came, HeaderDue, Written, Flushed, FooterHash
  <2>4. CASE receiver[t].pc = "done" BY <2>1, <2>4 DEF StreamOK
  <2>5. CASE receiver[t].pc # "done" BY <2>2, <2>3, <2>5, StreamKept
  <2> QED BY <2>4, <2>5
<1> QED BY <1>1, StreamCut, StreamHole, StreamSend, StreamReceive DEF Diode
-----------------------------------------------------------------------------
(* The header, the lengths and the ends of the connection.                 *)
LEMMA FirstUnit ==
  ASSUME NEW S, NEW units \in Seq(S), NEW n \in Nat, n <= Len(units), n > 0
  PROVE  /\ units # <<>> /\ SubSeq(units, 1, n)[1] = units[1]
<1>1. Len(units) > 0 /\ units # <<>> BY EmptySeq
<1>2. 1 \in 1 .. n OBVIOUS
<1> QED BY <1>1, <1>2, RestFacts

LEMMA HeaderDiode ==
  ASSUME TypeOK, NEW t \in T, HeaderOK(t), Diode(t)
  PROVE  HeaderOK(t)'
<1>0. stream[t].units \in Seq(Units) BY TypeFacts
<1>1. CASE Cut(t)
  <2>1. /\ sender[t].pc # "idle" /\ Disturbs(t, "cut")
        /\ stream'[t].closed = TRUE
        /\ UNCHANGED <<length, sender, receiver, received>>
    BY <1>1, CutEffect
  <2>2. PICK n \in 0 .. Len(stream[t].units) :
          stream'[t].units = SubSeq(stream[t].units, 1, n)
    BY <1>1, CutEffect
  <2>3. \A w : Disturbed(t, w)' <=> Disturbed(t, w) \/ w = "cut"
    BY <2>1, DisturbsEffect
  <2>4. stream'[t].units # <<>> =>
          /\ stream[t].units # <<>>
          /\ stream'[t].units[1] = stream[t].units[1]
    <3>1. CASE n = 0
      <4>1. SubSeq(stream[t].units, 1, n) = <<>>
        <5>1. /\ SubSeq(stream[t].units, 1, n) \in Seq(Units)
              /\ Len(SubSeq(stream[t].units, 1, n)) = 0
          BY <1>0, <3>1, RestFacts
        <5> QED BY <5>1, EmptySeq
      <4> QED BY <2>2, <4>1
    <3>2. CASE n > 0 BY <1>0, <2>2, <3>2, FirstUnit
    <3> QED BY <3>1, <3>2
  <2>5. /\ Disturbed(t, "cut")'
        /\ Disturbed(t, "resized")' <=> Disturbed(t, "resized")
    BY <2>3
  <2> QED BY <2>1, <2>4, <2>5 DEF HeaderOK, HeaderDue
<1>2. CASE Hole(t)
  <2>1. /\ Disturbs(t, "hole")
        /\ stream'[t].closed = stream[t].closed
        /\ UNCHANGED <<length, sender, receiver, received>>
    BY <1>2, HoleEffect
  <2>2. PICK i \in 1 .. Len(stream[t].units), j \in 1 .. Len(stream[t].units) :
          /\ i <= j
          /\ stream[t].units[i].kind # "header"
          /\ stream'[t].units =
               SubSeq(stream[t].units, 1, i - 1)
                 \o SubSeq(stream[t].units, j + 1, Len(stream[t].units))
    BY <1>2, HoleEffect
  <2>3. \A w : Disturbed(t, w)' <=> Disturbed(t, w) \/ w = "hole"
    BY <2>1, DisturbsEffect
  <2>4. /\ Disturbed(t, "cut")' <=> Disturbed(t, "cut")
        /\ Disturbed(t, "resized")' <=> Disturbed(t, "resized")
    BY <2>3
  <2>5. stream[t].units # <<>> BY <1>0, <2>2, EmptySeq
  <2>6. HeaderDue(t) =>
          stream'[t].units # <<>> /\ stream'[t].units[1] = stream[t].units[1]
    <3> SUFFICES ASSUME HeaderDue(t)
                 PROVE  /\ stream'[t].units # <<>>
                        /\ stream'[t].units[1] = stream[t].units[1]
      OBVIOUS
    <3>1. i # 1 BY <2>2, <2>5 DEF HeaderOK
    <3> DEFINE a == SubSeq(stream[t].units, 1, i - 1)
               b == SubSeq(stream[t].units, j + 1, Len(stream[t].units))
    <3>2. i - 1 \in Nat /\ i - 1 > 0 /\ i - 1 <= Len(stream[t].units)
      BY <1>0, <3>1
    <3>3. /\ a \in Seq(Units) /\ Len(a) = i - 1
          /\ \A x \in 1 .. i - 1 : a[x] = stream[t].units[x]
          /\ b \in Seq(Units)
      BY <1>0, <2>2, <3>2, RestFacts
    <3> HIDE DEF a, b
    <3>4. a \in Seq(Units) /\ b \in Seq(Units) BY <3>3
    <3>5. /\ a \o b \in Seq(Units) /\ Len(a \o b) = Len(a) + Len(b)
          /\ \A x \in 1 .. Len(a) : (a \o b)[x] = a[x]
      BY ONLY <3>4, ConcatFacts
    <3>6. 1 \in 1 .. Len(a) /\ Len(a \o b) > 0 BY <3>2, <3>3, <3>4, <3>5
    <3>7. a \o b # <<>> BY <3>5, <3>6, EmptySeq
    <3> QED BY <2>2, <3>2, <3>3, <3>5, <3>6, <3>7 DEF a, b
  <2>7. sender[t].pc # "idle" BY <2>5 DEF HeaderOK
  <2> QED BY <2>1, <2>4, <2>5, <2>6, <2>7 DEF HeaderOK, HeaderDue
<1>3. CASE Resize(t)
  <2>1. /\ sender[t].pc = "body" /\ Disturbs(t, "resized")
        /\ UNCHANGED <<stream, sender, receiver, received>>
    BY <1>3 DEF Resize, historyVars
  <2>2. \A w : Disturbed(t, w)' <=> Disturbed(t, w) \/ w = "resized"
    BY <2>1, DisturbsEffect
  <2>3. /\ Disturbed(t, "cut")' <=> Disturbed(t, "cut")
        /\ Disturbed(t, "resized")'
    BY <2>2
  <2> QED BY <2>1, <2>3 DEF HeaderOK, HeaderDue
<1> QED BY <1>1, <1>2, <1>3 DEF Diode

LEMMA HeaderSend ==
  ASSUME TypeOK, NEW t \in T, HeaderOK(t), LengthOK(t), SendStep(t)
  PROVE  HeaderOK(t)'
<1>0. /\ stream[t].units \in Seq(Units)
      /\ receiver' = receiver /\ received' = received
  BY TypeFacts DEF SendStep, SendHeader, SendRead, SendEof, SendLast,
     SendFail, historyVars
<1>1. CASE SendHeader(t)
  <2>1. /\ sender[t].pc = "idle" /\ sender'[t].pc = "body"
        /\ stream'[t].units = IF stream[t].closed THEN stream[t].units
                              ELSE stream[t].units \o <<Header(t)>>
        /\ <<Header(t)>> \in Seq(Units)
        /\ stream'[t].closed = stream[t].closed
        /\ UNCHANGED <<length, damage>>
    BY <1>1, SendHeaderEffect
  <2>2. stream[t].units = <<>> BY <2>1 DEF HeaderOK
  <2>3. <<>> \o <<Header(t)>> = <<Header(t)>> BY ONLY <2>1, ConcatEmptySeq
  <2>4. /\ <<Header(t)>>[1] = Header(t) /\ Header(t).kind = "header"
        /\ Header(t).at = length[t] /\ <<Header(t)>> # <<>>
    BY UnitFacts DEF Header
  <2>5. CASE stream[t].closed
    <3>1. Disturbed(t, "cut") BY <2>1, <2>5 DEF HeaderOK
    <3> QED BY <1>0, <2>1, <2>2, <2>5, <3>1
            DEF HeaderOK, HeaderDue, Disturbed
  <2>6. CASE ~ stream[t].closed
    BY <1>0, <2>1, <2>2, <2>3, <2>4, <2>6 DEF HeaderOK, HeaderDue, Disturbed
  <2> QED BY <2>5, <2>6
<1>2. ASSUME NEW u \in Seq(Units), sender[t].pc = "body",
             sender'[t].pc \in {"body", "sent"},
             \/ stream'[t].units = stream[t].units
             \/ /\ stream'[t].units = stream[t].units \o u
                /\ ~ stream[t].closed,
             stream'[t].closed <=> stream[t].closed \/ sender'[t].pc = "sent",
             UNCHANGED <<length, damage>>
      PROVE  HeaderOK(t)'
  <2>1. /\ stream[t].units # <<>> =>
             /\ stream'[t].units # <<>>
             /\ stream'[t].units[1] = stream[t].units[1]
        /\ ~ Disturbed(t, "cut") /\ HeaderDue(t) => stream[t].units # <<>>
    <3>1. ASSUME stream[t].units # <<>>
          PROVE  /\ stream[t].units \o u # <<>>
                 /\ (stream[t].units \o u)[1] = stream[t].units[1]
      <4> DEFINE a == stream[t].units
      <4>1. a \in Seq(Units) /\ Len(a) > 0 /\ Len(a) \in Nat
        BY <1>0, <3>1, EmptySeq
      <4> HIDE DEF a
      <4>2. /\ a \o u \in Seq(Units) /\ Len(a \o u) = Len(a) + Len(u)
            /\ \A x \in 1 .. Len(a) : (a \o u)[x] = a[x]
        BY ONLY <4>1, u \in Seq(Units), ConcatFacts
      <4>3. 1 \in 1 .. Len(a) /\ Len(a \o u) > 0 BY <4>1, <4>2
      <4>4. a \o u # <<>> BY <4>2, <4>3, EmptySeq
      <4> QED BY <4>2, <4>3, <4>4 DEF a
    <3> QED BY <1>2, <3>1 DEF HeaderOK
  <2>2. HeaderDue(t) /\ stream'[t].units # <<>> => stream[t].units # <<>>
    <3>1. CASE stream'[t].units = stream[t].units BY <3>1
    <3>2. CASE ~ stream[t].closed
      <4>1. ~ Disturbed(t, "cut") BY <3>2 DEF HeaderOK
      <4> QED BY <2>1, <4>1
    <3> QED BY <1>2, <3>1, <3>2
  <2> QED BY <1>0, <1>2, <2>1, <2>2 DEF HeaderOK, HeaderDue, Disturbed
<1>3. CASE SendRead(t)
  <2>1. PICK nread \in Nat \ {0} :
    /\ sender[t].pc = "body" /\ sender'[t].pc = "body"
    /\ sender'[t].position = sender[t].position + nread
    /\ UNCHANGED <<length, damage>>
    /\ \/ stream'[t] = stream[t]
       \/ LET buffer == SendBuffer(t, sender'[t].position,
                                   Transfers[t].buffer_size)
          IN /\ sender[t].cursor + nread = Transfers[t].buffer_size
             /\ stream'[t].units = IF stream[t].closed THEN stream[t].units
                                   ELSE stream[t].units \o buffer
             /\ stream'[t].closed = stream[t].closed
    BY <1>3, SendReadEffect
  <2>2. CASE stream'[t] = stream[t]
    BY <1>2, <2>1, <2>2, <<>> \in Seq(Units)
  <2>3. CASE stream'[t] # stream[t]
    <3> DEFINE buffer == SendBuffer(t, sender'[t].position,
                                    Transfers[t].buffer_size)
    <3>1. /\ Transfers[t].buffer_size \in Nat
          /\ Transfers[t].buffer_size <= sender'[t].position
          /\ sender'[t].position \in Nat
      BY SMTT(30), <2>1, <2>3, TypeFacts, TransferFacts DEF LengthOK
    <3>2. buffer \in Seq(Units) BY <3>1, BufferFacts
    <3>3. /\ stream'[t].units = IF stream[t].closed THEN stream[t].units
                                ELSE stream[t].units \o buffer
          /\ stream'[t].closed = stream[t].closed
      BY <2>1, <2>3
    <3> HIDE DEF buffer
    <3>4. \/ stream'[t].units = stream[t].units
          \/ stream'[t].units = stream[t].units \o buffer /\ ~ stream[t].closed
      BY <3>3
    <3>5. stream'[t].closed <=> stream[t].closed \/ sender'[t].pc = "sent"
      BY <2>1, <3>3
    <3> QED BY <1>2, <2>1, <3>2, <3>4, <3>5
  <2> QED BY <2>2, <2>3
<1>4. CASE SendEof(t)
  <2> DEFINE hasher == HashTail(sender[t].hasher,
                         SendBuffer(t, sender[t].position, sender[t].cursor))
             last == LastUnits(t, hasher)
  <2>1. /\ sender[t].pc = "body" /\ sender'[t].pc = "sent"
        /\ stream'[t].units = IF stream[t].closed THEN stream[t].units
                              ELSE stream[t].units \o last
        /\ stream'[t].closed = TRUE
        /\ UNCHANGED <<length, damage>>
    BY <1>4, SendEofEffect
  <2>2. last \in Seq(Units) BY LastFacts
  <2> HIDE DEF last
  <2>3. \/ stream'[t].units = stream[t].units
        \/ stream'[t].units = stream[t].units \o last /\ ~ stream[t].closed
    BY <2>1
  <2>4. stream'[t].closed <=> stream[t].closed \/ sender'[t].pc = "sent"
    BY <2>1
  <2> QED BY <1>2, <2>1, <2>2, <2>3, <2>4
<1>5. CASE SendFail(t)
  <2>1. /\ sender[t].pc \in {"idle", "body"} /\ sender'[t].pc = "failed"
        /\ stream'[t].units = stream[t].units
        /\ stream'[t].closed = TRUE
        /\ Disturbs(t, "failed") /\ length' = length
    BY <1>5, SendFailEffect
  <2>2. \A w : Disturbed(t, w)' <=> Disturbed(t, w) \/ w = "failed"
    BY <2>1, DisturbsEffect
  <2>3. /\ Disturbed(t, "cut")' <=> Disturbed(t, "cut")
        /\ Disturbed(t, "resized")' <=> Disturbed(t, "resized")
    BY <2>2
  <2> QED BY <1>0, <2>1, <2>3 DEF HeaderOK, HeaderDue
<1> QED BY <1>1, <1>3, <1>4, <1>5 DEF SendStep
(* What the receiver leaves alone.                                         *)
LEMMA RecvFrame ==
  ASSUME TypeOK, NEW t \in T, HeaderOK(t), LengthOK(t), RecvStep(t)
  PROVE  /\ sender' = sender /\ length' = length
         /\ stream'[t].closed = stream[t].closed
         /\ Disturbed(t, "cut")' <=> Disturbed(t, "cut")
         /\ Disturbed(t, "hole")' <=> Disturbed(t, "hole")
         /\ Disturbed(t, "resized")' <=> Disturbed(t, "resized")
         /\ sender[t].pc # "idle"
         /\ \/ /\ Accept(t) /\ HeaderDue(t) /\ HeaderDue(t)'
               /\ stream' = stream /\ received' = received
               /\ receiver'[t].cursor = receiver[t].cursor
               /\ receiver'[t].remaining = receiver[t].remaining
               /\ receiver'[t].hasher = receiver[t].hasher
            \/ receiver[t].pc # "idle" /\ ~ HeaderDue(t)'
<1>1. CASE Accept(t)
  BY <1>1 DEF Accept, TypeOK, HeaderDue, Disturbed, diodeVars, historyVars
<1>2. CASE RecvHeader(t)
  <2>1. /\ receiver[t].pc = "header" /\ stream[t].units # <<>>
        /\ stream'[t].closed = stream[t].closed
        /\ receiver'[t].pc \in {"done", "create"}
        /\ UNCHANGED <<received, damage, sender, length>>
    BY <1>2, RecvHeaderEffect DEF RecvHeader, RecvHeaderIf
  <2> QED BY <2>1 DEF HeaderOK, HeaderDue, Disturbed
<1>3. CASE RecvHeaderFail(t) \/ RecvFooterFail(t)
  <2>1. /\ receiver[t].pc # "idle" /\ receiver'[t].pc = "done"
        /\ UNCHANGED <<damage, sender, length, stream>>
    BY <1>3 DEF RecvHeaderFail, RecvFooterFail, Returns, TypeOK, diodeVars
  <2> QED BY <2>1 DEF HeaderOK, HeaderDue, Disturbed
<1>4. CASE RecvCreate(t)
  <2>1. /\ receiver[t].pc = "create" /\ receiver'[t].pc = "body"
        /\ UNCHANGED <<damage, sender, length, stream>>
    BY <1>4 DEF RecvCreate, TypeOK, diodeVars
  <2> QED BY <2>1 DEF HeaderOK, HeaderDue, Disturbed
<1>5. CASE RecvRead(t)
  <2>1. PICK nread \in Nat \ {0} :
          /\ nread <= End(t) - receiver[t].cursor
          /\ nread <= Len(stream[t].units)
          /\ RecvReads(t, nread)
    BY <1>5, RecvReadStep
  <2>2. /\ receiver[t].pc = "body" /\ receiver'[t].pc = "body"
        /\ stream'[t].closed = stream[t].closed
        /\ UNCHANGED <<damage, sender, length>>
    BY <1>5, <2>1, RecvReadsEffect DEF RecvRead
  <2> QED BY <2>2 DEF HeaderOK, HeaderDue, Disturbed
<1>6. CASE RecvEof(t)
  <2>1. /\ receiver[t].pc = "body" /\ receiver'[t].pc = "footer"
        /\ UNCHANGED <<damage, sender, length, stream>>
    BY <1>6, RecvZeroEffect DEF RecvEof, RecvZero, diodeVars
  <2> QED BY <2>1 DEF HeaderOK, HeaderDue, Disturbed
<1>7. CASE RecvFooter(t)
  <2>1. /\ receiver[t].pc = "footer" /\ receiver'[t].pc = "done"
        /\ stream'[t].closed = stream[t].closed
        /\ UNCHANGED <<damage, sender, length>>
    BY <1>7, RecvFooterEffect, DoneFacts DEF RecvFooter
  <2> QED BY <2>1 DEF HeaderOK, HeaderDue, Disturbed
<1>8. CASE RecvFail(t)
  <2>1. /\ receiver[t].pc \in {"create", "body"} /\ receiver'[t].pc = "done"
        /\ Disturbs(t, "disk")
        /\ UNCHANGED <<sender, length, stream>>
    BY <1>8 DEF RecvFail, Returns, TypeOK
  <2>2. \A w : Disturbed(t, w)' <=> Disturbed(t, w) \/ w = "disk"
    BY <2>1, DisturbsEffect
  <2>3. /\ Disturbed(t, "cut")' <=> Disturbed(t, "cut")
        /\ Disturbed(t, "hole")' <=> Disturbed(t, "hole")
        /\ Disturbed(t, "resized")' <=> Disturbed(t, "resized")
    BY <2>2
  <2> QED BY <2>1, <2>3 DEF HeaderOK, HeaderDue
<1> QED BY <1>1, <1>2, <1>3, <1>4, <1>5, <1>6, <1>7, <1>8 DEF RecvStep

LEMMA HeaderStep ==
  ASSUME TypeOK, NEW t \in T, HeaderOK(t), LengthOK(t),
         Diode(t) \/ SendStep(t) \/ RecvStep(t)
  PROVE  HeaderOK(t)'
<1>1. CASE RecvStep(t)
  <2>1. /\ sender' = sender /\ length' = length
        /\ stream'[t].closed = stream[t].closed
        /\ Disturbed(t, "cut")' <=> Disturbed(t, "cut")
        /\ Disturbed(t, "resized")' <=> Disturbed(t, "resized")
        /\ sender[t].pc # "idle"
    BY <1>1, RecvFrame
  <2>2. CASE ~ HeaderDue(t)'
    BY <2>1, <2>2 DEF HeaderOK
  <2>3. CASE HeaderDue(t)'
    <3>1. /\ HeaderDue(t) /\ stream' = stream /\ received' = received
          /\ receiver'[t].cursor = receiver[t].cursor
          /\ receiver'[t].hasher = receiver[t].hasher
      BY <1>1, <2>3, RecvFrame
    <3> QED BY <2>1, <3>1 DEF HeaderOK
  <2> QED BY <2>2, <2>3
<1> QED BY <1>1, HeaderDiode, HeaderSend

LEMMA LengthStep ==
  ASSUME TypeOK, NEW t \in T, HeaderOK(t), LengthOK(t),
         Diode(t) \/ SendStep(t) \/ RecvStep(t)
  PROVE  LengthOK(t)'
<1>0. /\ sender[t].position \in Nat /\ sender[t].cursor \in Nat
      /\ length[t] \in Nat /\ receiver[t].remaining \in Nat
      /\ receiver[t].cursor \in Nat /\ Len(received[t]) \in Nat
      /\ sender[t].cursor <= sender[t].position
      /\ Transfers[t].buffer_size \in Nat
  BY TypeFacts, TransferFacts DEF LengthOK
<1>1. CASE Cut(t)
  <2>1. /\ Disturbs(t, "cut") /\ UNCHANGED <<length, sender, receiver, received>>
    BY <1>1, CutEffect
  <2>2. \A w : Disturbed(t, w) => Disturbed(t, w)'
    BY <2>1, DisturbsEffect
  <2> QED BY <2>1, <2>2 DEF LengthOK
<1>2. CASE Hole(t)
  <2>1. /\ Disturbs(t, "hole") /\ UNCHANGED <<length, sender, receiver, received>>
    BY <1>2, HoleEffect
  <2>2. \A w : Disturbed(t, w) => Disturbed(t, w)'
    BY <2>1, DisturbsEffect
  <2> QED BY <2>1, <2>2 DEF LengthOK
<1>3. CASE Resize(t)
  <2>1. /\ Disturbs(t, "resized") /\ UNCHANGED <<sender, receiver, received>>
    BY <1>3 DEF Resize, historyVars
  <2>2. Disturbed(t, "resized")' BY <2>1, DisturbsEffect
  <2> QED BY <2>1, <2>2 DEF LengthOK
<1>4. CASE SendHeader(t)
  <2>1. /\ sender'[t].pc = "body"
        /\ sender'[t].position = sender[t].position
        /\ sender'[t].cursor = sender[t].cursor
        /\ UNCHANGED <<length, damage, receiver, received>>
    BY <1>4, SendHeaderEffect
  <2> QED BY <2>1 DEF LengthOK, Disturbed
<1>5. CASE SendRead(t)
  <2>1. PICK nread \in Nat \ {0} :
    /\ sender'[t].pc = "body"
    /\ sender'[t].position = sender[t].position + nread
    /\ sender'[t].position <= length[t]
    /\ UNCHANGED <<length, damage, receiver, received>>
    /\ sender'[t].cursor = sender[t].cursor + nread \/ sender'[t].cursor = 0
    BY <1>5, SendReadEffect
  <2>2. sender'[t].cursor <= sender'[t].position BY <1>0, <2>1
  <2> QED BY <2>1, <2>2 DEF LengthOK, Disturbed
<1>6. CASE SendEof(t)
  <2>1. /\ sender'[t].pc = "sent"
        /\ sender[t].position >= length[t]
        /\ sender'[t].position = sender[t].position
        /\ sender'[t].cursor = 0
        /\ UNCHANGED <<length, damage, receiver, received>>
    BY <1>6, SendEofEffect
  <2>2. ~ Disturbed(t, "resized") => sender[t].position = length[t]
    BY <1>0, <2>1 DEF LengthOK
  <2>3. sender'[t].cursor <= sender'[t].position BY <1>0, <2>1
  <2> QED BY <2>1, <2>2, <2>3 DEF LengthOK, Disturbed
<1>7. CASE SendFail(t)
  <2>1. /\ sender'[t].pc = "failed"
        /\ sender'[t].position = sender[t].position
        /\ sender'[t].cursor = sender[t].cursor
        /\ Disturbs(t, "failed")
        /\ UNCHANGED <<length, receiver, received>>
    BY <1>7, SendFailEffect
  <2>2. \A w : Disturbed(t, w) => Disturbed(t, w)'
    BY <2>1, DisturbsEffect
  <2> QED BY <2>1, <2>2 DEF LengthOK
<1>8. CASE RecvStep(t)
  <2>1. /\ sender' = sender /\ length' = length
        /\ Disturbed(t, "resized")' <=> Disturbed(t, "resized")
    BY <1>8, RecvFrame
  <2>2. SUFFICES
          /\ receiver'[t].cursor <= Len(received'[t])
          /\ receiver'[t].pc \in {"create", "footer"} => receiver'[t].cursor = 0
          /\ receiver'[t].pc = "create" => received'[t] = <<>>
          /\ /\ ~ Disturbed(t, "resized")
             /\ receiver'[t].pc \in {"create", "body", "footer"}
             => receiver'[t].remaining + Len(received'[t]) = length[t]
    BY <2>1 DEF LengthOK
  <2>3. CASE Accept(t)
    <3>1. /\ receiver'[t].pc = "header" /\ received' = received
          /\ receiver'[t].cursor = receiver[t].cursor
      BY <2>3 DEF Accept, TypeOK, historyVars
    <3> QED BY <3>1 DEF LengthOK
  <2>4. CASE RecvHeader(t)
    <3>1. /\ receiver[t].pc = "header" /\ stream[t].units # <<>>
          /\ receiver'[t].cursor = receiver[t].cursor
          /\ received' = received
          /\ \/ receiver'[t].pc = "done"
             \/ /\ receiver'[t].pc = "create"
                /\ receiver'[t].remaining = stream[t].units[1].at
      BY <2>4, RecvHeaderEffect DEF RecvHeader, RecvHeaderIf
    <3>2. /\ received[t] = <<>> /\ receiver[t].cursor = 0
          /\ ~ Disturbed(t, "resized") => stream[t].units[1].at = length[t]
      BY <3>1 DEF HeaderOK, HeaderDue
    <3>3. Len(<<>>) = 0 /\ length[t] + 0 = length[t] BY <1>0
    <3> QED BY <3>1, <3>2, <3>3
  <2>5. CASE RecvHeaderFail(t) \/ RecvFooter(t) \/ RecvFooterFail(t)
               \/ RecvFail(t)
    <3>1. /\ receiver'[t].pc = "done" /\ received' = received
          /\ receiver'[t].cursor = receiver[t].cursor
      BY <2>5 DEF RecvHeaderFail, RecvFooter, RecvFooterFail, RecvFail,
                  Returns, TypeOK
    <3> QED BY <3>1 DEF LengthOK
  <2>6. CASE RecvCreate(t)
    <3>1. /\ receiver[t].pc = "create" /\ receiver'[t].pc = "body"
          /\ received' = received
          /\ receiver'[t].cursor = receiver[t].cursor
          /\ receiver'[t].remaining = receiver[t].remaining
      BY <2>6 DEF RecvCreate, TypeOK, historyVars
    <3> QED BY <3>1 DEF LengthOK
  <2>7. CASE RecvRead(t)
    <3>1. PICK nread \in Nat \ {0} :
            /\ nread <= End(t) - receiver[t].cursor
            /\ nread <= Len(stream[t].units)
            /\ RecvReads(t, nread)
      BY <2>7, RecvReadStep
    <3>2. /\ receiver[t].pc = "body" /\ receiver'[t].pc = "body"
          /\ receiver'[t].remaining = receiver[t].remaining - nread
          /\ \/ receiver'[t].cursor = receiver[t].cursor + nread
             \/ receiver'[t].cursor = 0
          /\ received'[t] = Received(t, nread)
      BY <2>7, <3>1, RecvReadsEffect DEF RecvRead
    <3>3. Len(received'[t]) = Len(received[t]) + nread
      BY <3>1, <3>2, ReadFacts
    <3>4. receiver[t].cursor <= Len(received[t]) BY DEF LengthOK
    <3>5. receiver'[t].cursor <= Len(received'[t])
      BY <1>0, <3>2, <3>3, <3>4
    <3>6. ~ Disturbed(t, "resized") =>
            receiver[t].remaining + Len(received[t]) = length[t]
      BY <3>2 DEF LengthOK
    <3>7. receiver'[t].remaining + Len(received'[t])
            = receiver[t].remaining + Len(received[t])
      BY <1>0, <3>2, <3>3
    <3> QED BY <3>2, <3>5, <3>6, <3>7
  <2>8. CASE RecvEof(t)
    <3>1. /\ receiver[t].pc = "body" /\ receiver'[t].pc = "footer"
          /\ receiver'[t].cursor = 0 /\ received' = received
          /\ receiver'[t].remaining = receiver[t].remaining
      BY <2>8, RecvZeroEffect DEF RecvEof, RecvZero, historyVars
    <3> QED BY <1>0, <3>1 DEF LengthOK
  <2> QED BY <1>8, <2>3, <2>4, <2>5, <2>6, <2>7, <2>8 DEF RecvStep
<1> QED BY <1>1, <1>2, <1>3, <1>4, <1>5, <1>6, <1>7, <1>8 DEF Diode, SendStep
-----------------------------------------------------------------------------
(* The hashes of both ends.                                                *)
LEMMA SenderHashStep ==
  ASSUME TypeOK, NEW t \in T, HeaderOK(t), LengthOK(t), SenderHashOK(t),
         Diode(t) \/ SendStep(t) \/ RecvStep(t)
  PROVE  SenderHashOK(t)'
<1>0. /\ sender[t].position \in Nat /\ sender[t].cursor \in Nat
      /\ sender[t].cursor <= sender[t].position
      /\ sender[t].hasher \in Seq(HashUnits)
      /\ Transfers[t].buffer_size \in Nat \ {0}
      /\ sender[t].cursor < Transfers[t].buffer_size
      /\ Flushed(t) \in Nat
  BY TypeFacts, TransferFacts DEF LengthOK, Flushed
<1>1. ASSUME sender'[t].position = sender[t].position,
             sender'[t].cursor = sender[t].cursor,
             sender'[t].hasher = sender[t].hasher,
             sender'[t].pc = "sent" <=> sender[t].pc = "sent"
      PROVE  SenderHashOK(t)'
  <2>1. Flushed(t)' = Flushed(t) BY <1>1 DEF Flushed
  <2> QED BY <1>1, <2>1 DEF SenderHashOK
<1>2. CASE Diode(t)
  <2>1. sender' = sender
    BY <1>2, CutEffect, HoleEffect DEF Diode, Resize
  <2> QED BY <1>1, <2>1
<1>3. CASE RecvStep(t)
  <2>1. sender' = sender BY <1>3, RecvFrame
  <2> QED BY <1>1, <2>1
<1>4. CASE SendHeader(t) BY <1>1, <1>4, SendHeaderEffect
<1>5. CASE SendFail(t)
  <2>1. /\ sender[t].pc # "sent" /\ sender'[t].pc # "sent"
        /\ sender'[t].position = sender[t].position
        /\ sender'[t].cursor = sender[t].cursor
        /\ sender'[t].hasher = sender[t].hasher
    BY <1>5, SendFailEffect
  <2> QED BY <1>1, <2>1
<1>6. CASE SendRead(t)
  <2> DEFINE b == Transfers[t].buffer_size
  <2>1. PICK nread \in Nat \ {0} :
    /\ sender[t].pc = "body" /\ sender'[t].pc = "body"
    /\ sender'[t].position = sender[t].position + nread
    /\ \/ /\ sender'[t].cursor = sender[t].cursor + nread
          /\ sender'[t].hasher = sender[t].hasher
       \/ LET buffer == SendBuffer(t, sender'[t].position, b)
          IN /\ sender[t].cursor + nread = b
             /\ sender'[t].cursor = 0
             /\ sender'[t].hasher = HashChunk(sender[t].hasher, buffer)
    BY <1>6, SendReadEffect
  <2>2. CASE /\ sender'[t].cursor = sender[t].cursor + nread
             /\ sender'[t].hasher = sender[t].hasher
    <3>1. Flushed(t)' = Flushed(t) BY <1>0, <2>1, <2>2 DEF Flushed
    <3> QED BY <2>1, <2>2, <3>1 DEF SenderHashOK
  <2>3. CASE LET buffer == SendBuffer(t, sender'[t].position, b)
             IN /\ sender[t].cursor + nread = b
                /\ sender'[t].cursor = 0
                /\ sender'[t].hasher = HashChunk(sender[t].hasher, buffer)
    <3> DEFINE n == sender[t].position + nread
               buffer == SendBuffer(t, n, b)
               c == Content(t, Flushed(t))
               d == Content(t, n)
    <3>1. /\ n \in Nat /\ b <= n /\ Flushed(t)' = n /\ n - b = Flushed(t)
      BY <1>0, <2>1, <2>3 DEF Flushed
    <3>2. PICK m \in Nat :
            Hashed(sender[t].hasher, c, b, m) /\ Flushed(t) = Place(m, b)
      BY <2>1 DEF SenderHashOK
    <3>6. b \in Nat BY <1>0
    <3> HIDE DEF n, b
    <3>3. /\ buffer \in Seq(HashUnits) /\ Len(buffer) = b
          /\ \A i \in 1 .. b : buffer[i] = Byte(t, Flushed(t) + i)
      BY <3>1, <3>6, BufferFacts
    <3>4. /\ c \in Seq(HashUnits) /\ Len(c) = Flushed(t)
          /\ \A i \in 1 .. Flushed(t) : c[i] = Byte(t, i)
          /\ d \in Seq(HashUnits) /\ Len(d) = n
          /\ \A i \in 1 .. n : d[i] = Byte(t, i)
      BY <1>0, <3>1, ContentFacts
    <3> HIDE DEF c, d, buffer
    <3>5. /\ Len(c) = Place(m, b) /\ Len(d) = Len(c) + b
          /\ \A i \in 1 .. Len(c) : d[i] = c[i]
          /\ \A r \in 1 .. b : d[Len(c) + r] = buffer[r]
      BY SMTT(30), <1>0, <3>1, <3>2, <3>3, <3>4, <3>6
    <3>7. \E n2 \in Nat : /\ Hashed(HashChunk(sender[t].hasher, buffer), d, b, n2)
                          /\ Len(d) = Place(n2, b)
      <4> DEFINE h == sender[t].hasher
      <4>1. /\ h \in Seq(HashUnits) /\ c \in Seq(HashUnits)
            /\ d \in Seq(HashUnits) /\ buffer \in Seq(HashUnits)
            /\ b \in Nat /\ m \in Nat
            /\ Hashed(h, c, b, m) /\ Len(c) = Place(m, b)
            /\ Len(buffer) = b /\ Grown(d, c, buffer)
        BY <1>0, <3>2, <3>3, <3>4, <3>5, <3>6 DEF Grown
      <4> HIDE DEF h
      <4>2. \E n2 \in Nat : /\ Hashed(HashChunk(h, buffer), d, b, n2)
                            /\ Len(d) = Place(n2, b)
        BY ONLY <4>1, HashedChunk
      <4> QED BY <4>2 DEF h
    <3>8. sender'[t].hasher = HashChunk(sender[t].hasher, buffer)
      BY <2>1, <2>3 DEF buffer, n, b
    <3>9. PICK n2 \in Nat : /\ Hashed(HashChunk(sender[t].hasher, buffer), d, b, n2)
                           /\ Len(d) = Place(n2, b)
      BY <3>7
    <3>10. /\ Hashed(sender'[t].hasher, Content(t, Flushed(t)'), b, n2)
           /\ Flushed(t)' = Place(n2, b)
      BY <3>1, <3>4, <3>8, <3>9 DEF d
    <3> QED BY <2>1, <3>10 DEF SenderHashOK, b
  <2> QED BY <2>1, <2>2, <2>3
<1>7. CASE SendEof(t)
  <2> DEFINE b == Transfers[t].buffer_size
             n == sender[t].position
             buffer == SendBuffer(t, n, sender[t].cursor)
             c == Content(t, Flushed(t))
             d == Content(t, n)
  <2>1. /\ sender[t].pc = "body" /\ sender'[t].pc = "sent"
        /\ sender'[t].position = n /\ sender'[t].cursor = 0
        /\ sender'[t].hasher = HashTail(sender[t].hasher, buffer)
    BY <1>7, SendEofEffect
  <2>2. Flushed(t)' = n /\ n = Flushed(t) + sender[t].cursor
    BY <1>0, <2>1 DEF Flushed
  <2>3. PICK m \in Nat :
          Hashed(sender[t].hasher, c, b, m) /\ Flushed(t) = Place(m, b)
    BY <2>1 DEF SenderHashOK
  <2>4. /\ buffer \in Seq(HashUnits) /\ Len(buffer) = sender[t].cursor
        /\ \A i \in 1 .. sender[t].cursor : buffer[i] = Byte(t, Flushed(t) + i)
    BY <1>0, BufferFacts DEF Flushed
  <2>5. /\ c \in Seq(HashUnits) /\ Len(c) = Flushed(t)
        /\ \A i \in 1 .. Flushed(t) : c[i] = Byte(t, i)
        /\ d \in Seq(HashUnits) /\ Len(d) = n
        /\ \A i \in 1 .. n : d[i] = Byte(t, i)
    BY <1>0, ContentFacts
  <2>6. /\ Len(c) = Place(m, b) /\ Len(d) = Len(c) + Len(buffer)
        /\ \A i \in 1 .. Len(c) : d[i] = c[i]
        /\ \A r \in 1 .. Len(buffer) : d[Len(c) + r] = buffer[r]
    BY <1>0, <2>2, <2>3, <2>4, <2>5
  <2>7. b \in Nat /\ Len(buffer) < b BY <1>0, <2>4
  <2> HIDE DEF c, d, buffer, b
  <2>8. Hashed(HashTail(sender[t].hasher, buffer), d, b, m)
          /\ Len(d) < Place(m + 1, b)
    BY <1>0, <2>3, <2>4, <2>5, <2>6, <2>7, HashedTail
  <2>9. Hashed(sender'[t].hasher, Content(t, Flushed(t)'), b, m)
    BY <2>1, <2>2, <2>8 DEF d
  <2>10. Flushed(t)' < Place(m + 1, b) BY <2>2, <2>5, <2>8
  <2> QED BY <2>1, <2>9, <2>10 DEF SenderHashOK, b
<1> QED BY <1>2, <1>3, <1>4, <1>5, <1>6, <1>7 DEF SendStep

LEMMA AllOf ==
  ASSUME NEW S, NEW s \in Seq(S), NEW n, n = Len(s)
  PROVE  SubSeq(s, 1, n) = s
<1>1. n \in Nat /\ n <= Len(s) OBVIOUS
<1>2. /\ SubSeq(s, 1, n) \in Seq(S) /\ Len(SubSeq(s, 1, n)) = n
      /\ \A i \in 1 .. n : SubSeq(s, 1, n)[i] = s[i]
  BY <1>1, RestFacts
<1> QED BY <1>2, SeqEqual

LEMMA StoredFacts ==
  ASSUME TypeOK, NEW t \in T, LengthOK(t)
  PROVE  /\ Stored(t) \in Seq(Units)
         /\ Len(received[t]) \in Nat
         /\ Len(Stored(t)) = Len(received[t]) - receiver[t].cursor
         /\ \A i \in 1 .. Len(Stored(t)) : Stored(t)[i] = received[t][i]
         /\ receiver[t].cursor = 0 => Stored(t) = received[t]
<1> DEFINE r == received[t]
           n == Len(received[t]) - receiver[t].cursor
<1>1. r \in Seq(Units) /\ Len(r) \in Nat /\ n \in Nat /\ n <= Len(r)
  BY TypeFacts, TransferFacts DEF LengthOK
<1>2. Stored(t) = SubSeq(r, 1, n) BY DEF Stored
<1>3. /\ Stored(t) \in Seq(Units) /\ Len(Stored(t)) = n
      /\ \A i \in 1 .. n : Stored(t)[i] = r[i]
  BY <1>1, <1>2, RestFacts
<1>4. ASSUME receiver[t].cursor = 0 PROVE Stored(t) = r
  <2>1. n = Len(r) BY <1>1, <1>4
  <2> QED BY <1>1, <1>2, <2>1, AllOf
<1> QED BY <1>1, <1>3, <1>4

LEMMA ReceiverHashStep ==
  ASSUME TypeOK, NEW t \in T, HeaderOK(t), LengthOK(t), ReceiverHashOK(t),
         Diode(t) \/ SendStep(t) \/ RecvStep(t)
  PROVE  ReceiverHashOK(t)'
<1> DEFINE S == HashUnits \cup Units
<1>0. /\ received[t] \in Seq(Units) /\ Len(received[t]) \in Nat
      /\ receiver[t].cursor \in 0 .. BufferSize - 1
      /\ receiver[t].cursor <= Len(received[t])
      /\ receiver[t].hasher \in Seq(S) /\ BufferSize \in Nat \ {0}
      /\ Stored(t) \in Seq(S)
      /\ Len(Stored(t)) = Len(received[t]) - receiver[t].cursor
      /\ \A i \in 1 .. Len(Stored(t)) : Stored(t)[i] = received[t][i]
  <2>1. Stored(t) \in Seq(Units) BY StoredFacts
  <2> QED BY SMTT(30), <2>1, TypeFacts, TransferFacts, StoredFacts DEF LengthOK
<1> HIDE DEF S
<1>1. ASSUME receiver'[t].cursor = receiver[t].cursor,
             receiver'[t].hasher = receiver[t].hasher,
             received'[t] = received[t],
             \/ receiver'[t].pc = "done"
             \/ receiver'[t].pc # "footer" /\ receiver[t].pc # "footer"
                  /\ receiver[t].pc # "done"
             \/ receiver'[t].pc = receiver[t].pc
      PROVE  ReceiverHashOK(t)'
  <2>1. Stored(t)' = Stored(t) BY <1>1 DEF Stored
  <2> QED BY <1>1, <2>1 DEF ReceiverHashOK
<1>2. CASE Diode(t)
  <2>1. receiver' = receiver /\ received' = received
    BY <1>2, CutEffect, HoleEffect DEF Diode, Resize, historyVars
  <2> QED BY <1>1, <2>1
<1>3. CASE SendStep(t)
  <2>1. receiver' = receiver /\ received' = received
    BY <1>3 DEF SendStep, SendHeader, SendRead, SendEof, SendLast, SendFail,
         historyVars
  <2> QED BY <1>1, <2>1
<1>4. CASE Accept(t)
  <2>1. /\ receiver[t].pc = "idle" /\ receiver'[t].pc = "header"
        /\ receiver'[t].cursor = receiver[t].cursor
        /\ receiver'[t].hasher = receiver[t].hasher
        /\ received' = received
    BY <1>4 DEF Accept, TypeOK, historyVars
  <2> QED BY <1>1, <2>1
<1>5. CASE RecvHeader(t)
  <2>1. /\ receiver[t].pc = "header" /\ receiver'[t].pc \in {"done", "create"}
        /\ receiver'[t].cursor = receiver[t].cursor
        /\ receiver'[t].hasher = receiver[t].hasher
        /\ received' = received
    BY <1>5, RecvHeaderEffect DEF RecvHeader, RecvHeaderIf
  <2> QED BY <1>1, <2>1
<1>6. CASE RecvHeaderFail(t) \/ RecvFooter(t) \/ RecvFooterFail(t)
             \/ RecvFail(t)
  <2>1. receiver'[t].pc = "done"
    BY <1>6 DEF RecvHeaderFail, RecvFooter, RecvFooterFail, RecvFail, Returns,
                TypeOK
  <2> QED BY <2>1 DEF ReceiverHashOK
<1>7. CASE RecvCreate(t)
  <2>1. /\ receiver[t].pc = "create" /\ receiver'[t].pc = "body"
        /\ receiver'[t].cursor = receiver[t].cursor
        /\ receiver'[t].hasher = receiver[t].hasher
        /\ received' = received
    BY <1>7 DEF RecvCreate, TypeOK, historyVars
  <2> QED BY <1>1, <2>1
<1>8. CASE RecvRead(t)
  <2>1. PICK nread \in Nat \ {0} :
          /\ nread <= End(t) - receiver[t].cursor
          /\ nread <= Len(stream[t].units)
          /\ RecvReads(t, nread)
    BY <1>8, RecvReadStep
  <2> DEFINE d == Received(t, nread)
             buffer == RecvBuffer(d, BufferSize)
             c == Stored(t)
  <2>2. /\ receiver[t].pc = "body" /\ receiver'[t].pc = "body"
        /\ received'[t] = d
        /\ receiver[t].cursor + nread < BufferSize =>
              /\ receiver'[t].cursor = receiver[t].cursor + nread
              /\ receiver'[t].hasher = receiver[t].hasher
        /\ ~ receiver[t].cursor + nread < BufferSize =>
              /\ receiver[t].cursor + nread = BufferSize
              /\ receiver'[t].cursor = 0
              /\ receiver'[t].hasher = HashChunk(receiver[t].hasher, buffer)
    BY <1>8, <2>1, RecvReadsEffect DEF RecvRead
  <2>3. /\ d \in Seq(Units) /\ Len(d) = Len(received[t]) + nread
        /\ \A i \in 1 .. Len(received[t]) : d[i] = received[t][i]
        /\ receiver[t].cursor + nread <= Len(d)
    BY <2>1, ReadFacts
  <2>4. PICK m \in Nat :
          /\ Hashed(receiver[t].hasher, c, BufferSize, m)
          /\ Len(c) = Place(m, BufferSize)
    BY <2>2 DEF ReceiverHashOK
  <2>5. CASE receiver[t].cursor + nread < BufferSize
    <3> DEFINE e == Stored(t)'
    <3> HIDE DEF d
    <3>1. e = SubSeq(d, 1, Len(d) - receiver'[t].cursor) BY <2>2 DEF Stored
    <3>2. c \in Seq(Units) /\ Len(c) \in Nat BY StoredFacts
    <3> HIDE DEF c, e
    <3>3. Len(d) - receiver'[t].cursor = Len(c) /\ Len(c) <= Len(d)
      BY <1>0, <2>2, <2>3, <2>5, <3>2 DEF c
    <3>4. /\ e \in Seq(Units) /\ Len(e) = Len(c)
          /\ \A i \in 1 .. Len(c) : e[i] = d[i]
      <4>1. e = SubSeq(d, 1, Len(c)) BY <3>1, <3>3
      <4> QED BY <2>3, <3>2, <3>3, <4>1, RestFacts
    <3>6. \A i \in 1 .. Len(c) : e[i] = c[i]
      <4>1. \A i \in 1 .. Len(c) : i \in 1 .. Len(received[t])
        BY <1>0, <3>2 DEF c
      <4> QED BY <1>0, <2>3, <3>4, <4>1 DEF c
    <3>5. Stored(t)' = c BY <3>2, <3>4, <3>6, SeqEqual DEF e
    <3> QED BY <2>2, <2>4, <2>5, <3>5 DEF ReceiverHashOK
  <2>6. CASE ~ receiver[t].cursor + nread < BufferSize
    <3> HIDE DEF d
    <3>0. Len(d) \in Nat BY <2>3
    <3>1. Stored(t)' = d
      <4>1. Stored(t)' = SubSeq(d, 1, Len(d) - 0) BY <2>2, <2>6 DEF Stored
      <4> QED BY <2>3, <3>0, <4>1, Len(d) - 0 = Len(d), AllOf
    <3>2. BufferSize \in Nat /\ BufferSize <= Len(d) BY <1>0, <2>2, <2>3, <2>6
    <3>3. d \in Seq(S) BY <2>3 DEF S
    <3>4. /\ buffer \in Seq(S) /\ Len(buffer) = BufferSize
          /\ \A r \in 1 .. BufferSize :
               buffer[r] = d[Len(d) - BufferSize + r]
      BY <3>2, <3>3, RecvBufferFacts
    <3>7. c \in Seq(S) /\ Len(c) \in Nat BY <1>0
    <3> HIDE DEF c, buffer
    <3>5. Len(c) = Len(d) - BufferSize /\ Len(d) \in Nat
      <4>1. Len(Stored(t)) = Len(received[t]) - receiver[t].cursor BY <1>0
      <4> QED BY SMTT(30), <1>0, <2>2, <2>3, <2>6, <3>0, <4>1 DEF c
    <3>6. /\ Len(d) = Len(c) + BufferSize
          /\ \A i \in 1 .. Len(c) : d[i] = c[i]
          /\ \A r \in 1 .. BufferSize : d[Len(c) + r] = buffer[r]
      <4>1. Len(d) = Len(c) + BufferSize BY <3>2, <3>5, <3>7
      <4>2. \A i \in 1 .. Len(c) : i \in 1 .. Len(received[t])
        BY <1>0, <3>7 DEF c
      <4>3. \A i \in 1 .. Len(c) : d[i] = c[i]
        BY <1>0, <2>3, <4>2 DEF c
      <4>4. Len(d) - BufferSize = Len(c) BY <3>5
      <4> QED BY <3>4, <4>1, <4>3, <4>4
    <3>8. \E n \in Nat :
            /\ Hashed(HashChunk(receiver[t].hasher, buffer), d, BufferSize, n)
            /\ Len(d) = Place(n, BufferSize)
      <4> DEFINE h == receiver[t].hasher
      <4>1. /\ h \in Seq(S) /\ c \in Seq(S) /\ d \in Seq(S)
            /\ buffer \in Seq(S) /\ BufferSize \in Nat /\ m \in Nat
            /\ Hashed(h, c, BufferSize, m) /\ Len(c) = Place(m, BufferSize)
            /\ Len(buffer) = BufferSize /\ Grown(d, c, buffer)
        BY <1>0, <2>4, <3>2, <3>3, <3>4, <3>6, <3>7 DEF Grown
      <4> HIDE DEF h
      <4>2. \E n \in Nat : /\ Hashed(HashChunk(h, buffer), d, BufferSize, n)
                           /\ Len(d) = Place(n, BufferSize)
        BY ONLY <4>1, HashedChunk
      <4> QED BY <4>2 DEF h
    <3> QED BY <2>2, <2>6, <3>1, <3>8 DEF ReceiverHashOK, buffer
  <2> QED BY <2>5, <2>6
<1>9. CASE RecvEof(t)
  <2> DEFINE d == received[t]
             buffer == RecvBuffer(d, receiver[t].cursor)
             c == Stored(t)
  <2>1. /\ receiver[t].pc = "body" /\ receiver'[t].pc = "footer"
        /\ receiver'[t].cursor = 0 /\ received' = received
        /\ receiver'[t].hasher = HashTail(receiver[t].hasher, buffer)
    BY <1>9, RecvZeroEffect DEF RecvEof, RecvZero, historyVars
  <2>2. PICK m \in Nat :
          /\ Hashed(receiver[t].hasher, c, BufferSize, m)
          /\ Len(c) = Place(m, BufferSize)
    BY <2>1 DEF ReceiverHashOK
  <2>3. Stored(t)' = d
    <3>1. Stored(t)' = SubSeq(d, 1, Len(d) - 0) BY <2>1 DEF Stored
    <3> QED BY <1>0, <3>1, Len(d) - 0 = Len(d), AllOf
  <2>4. d \in Seq(S) BY <1>0 DEF S
  <2>5. /\ buffer \in Seq(S) /\ Len(buffer) = receiver[t].cursor
        /\ \A r \in 1 .. receiver[t].cursor :
             buffer[r] = d[Len(d) - receiver[t].cursor + r]
    <3> DEFINE k == receiver[t].cursor
    <3> HIDE DEF d, k
    <3>1. k \in Nat /\ k <= Len(d) BY <1>0 DEF d, k
    <3>2. /\ RecvBuffer(d, k) \in Seq(S) /\ Len(RecvBuffer(d, k)) = k
          /\ \A r \in 1 .. k : RecvBuffer(d, k)[r] = d[Len(d) - k + r]
      BY ONLY <2>4, <3>1, RecvBufferFacts
    <3> QED BY ONLY <3>2 DEF k
  <2>6. /\ Len(d) = Len(c) + Len(buffer)
        /\ \A i \in 1 .. Len(c) : d[i] = c[i]
        /\ \A r \in 1 .. Len(buffer) : d[Len(c) + r] = buffer[r]
    BY <1>0, <2>5
  <2>7. c \in Seq(S) /\ Len(buffer) < BufferSize /\ BufferSize \in Nat
    BY <1>0, <2>5
  <2> HIDE DEF c, d, buffer
  <2>8. /\ Hashed(HashTail(receiver[t].hasher, buffer), d, BufferSize, m)
        /\ Len(d) < Place(m + 1, BufferSize)
    BY ZenonT(30), <1>0, <2>2, <2>4, <2>5, <2>6, <2>7, HashedTail
  <2> QED BY <2>1, <2>3, <2>8 DEF ReceiverHashOK
<1> QED BY <1>2, <1>3, <1>4, <1>5, <1>6, <1>7, <1>8, <1>9 DEF RecvStep
-----------------------------------------------------------------------------
(* How a reception ends.                                                   *)
LEMMA QuietFacts ==
  ASSUME NEW t \in T, Undisturbed(t)
  PROVE  \A w : ~ Disturbed(t, w)
<1>1. \A w : <<t, w>>[1] = t OBVIOUS
<1> QED BY <1>1 DEF Undisturbed, Disturbed

LEMMA DamageGrows ==
  ASSUME TypeOK, NEW t \in T, Diode(t) \/ SendStep(t) \/ RecvStep(t)
  PROVE  /\ damage \subseteq damage'
         /\ \A w : Disturbed(t, w) => Disturbed(t, w)'
         /\ Undisturbed(t)' =>
              /\ Undisturbed(t)
              /\ ~ Diode(t) /\ ~ SendFail(t) /\ ~ RecvFail(t)
<1>1. CASE Diode(t) \/ SendFail(t) \/ RecvFail(t)
  <2>1. PICK what \in {"cut", "hole", "resized", "failed", "disk"} :
          Disturbs(t, what)
    BY <1>1 DEF Diode, Cut, Hole, Resize, SendFail, RecvFail
  <2>2. damage \subseteq damage' BY <2>1 DEF Disturbs
  <2>3. ~ Undisturbed(t)' BY <2>1, DisturbsEffect
  <2> QED BY <2>2, <2>3 DEF Disturbed
<1>2. CASE ~ (Diode(t) \/ SendFail(t) \/ RecvFail(t))
  <2>1. damage' = damage
    BY <1>2 DEF SendStep, SendHeader, SendRead, SendEof, SendLast, RecvStep,
         Accept, RecvHeader, RecvHeaderIf, RecvHeaderFail, RecvCreate,
         RecvRead, RecvEof, RecvZero, RecvFooter, RecvFooterFail, diodeVars
  <2> QED BY <1>2, <2>1 DEF Undisturbed, Disturbed
<1> QED BY <1>1, <1>2

LEMMA UntilDone ==
  ASSUME TypeOK, NEW t \in T, LengthOK(t), OutcomeOK(t),
         Diode(t) \/ SendStep(t) \/ RecvStep(t)
  PROVE  \/ /\ outcome' = outcome
            /\ receiver'[t].pc = "done" <=> receiver[t].pc = "done"
         \/ /\ receiver[t].pc # "done"
            /\ receiver'[t].pc = "done"
            /\ outcome'[t] # "none"
            /\ UNCHANGED <<sender, received, disk, length>>
            /\ \/ RecvHeader(t) /\ outcome'[t] = "exists"
               \/ /\ RecvHeaderFail(t) \/ RecvFooterFail(t) \/ RecvFail(t)
                  /\ outcome'[t] = "io"
               \/ RecvFooter(t) /\ outcome'[t] = Verdict(t)
<1>1. CASE Diode(t)
  BY <1>1 DEF Diode, Cut, Hole, Resize, historyVars
<1>2. CASE SendStep(t)
  BY <1>2 DEF SendStep, SendHeader, SendRead, SendEof, SendLast, SendFail,
       historyVars
<1>3. CASE Accept(t) BY <1>3 DEF Accept, TypeOK, historyVars
<1>4. CASE RecvHeader(t)
  <2>1. /\ receiver[t].pc = "header"
        /\ \/ receiver'[t].pc = "done" /\ outcome'[t] = "exists"
           \/ receiver'[t].pc = "create" /\ outcome' = outcome
        /\ UNCHANGED <<sender, received, disk, length>>
    BY <1>4, RecvHeaderEffect DEF RecvHeader, RecvHeaderIf
  <2> QED BY <1>4, <2>1
<1>5. CASE RecvHeaderFail(t) \/ RecvFooterFail(t) \/ RecvFail(t)
  <2>1. /\ receiver[t].pc \in {"header", "footer", "create", "body"}
        /\ Returns(t, "io")
        /\ UNCHANGED <<sender, received, disk, length>>
    BY <1>5 DEF RecvHeaderFail, RecvFooterFail, RecvFail, diodeVars
  <2>2. receiver'[t].pc = "done" /\ outcome'[t] = "io"
    BY <2>1, ReturnsType, DoneFacts
  <2> QED BY <1>5, <2>1, <2>2
<1>6. CASE RecvCreate(t) BY <1>6 DEF RecvCreate, TypeOK, historyVars
<1>7. CASE RecvRead(t)
  <2>1. receiver'[t].pc = receiver[t].pc
    BY <1>7, RecvReadStep, RecvReadsEffect
  <2> QED BY <1>7, <2>1 DEF RecvRead
<1>8. CASE RecvEof(t)
  BY <1>8 DEF RecvEof, RecvZero, TypeOK, historyVars
<1>9. CASE RecvFooter(t)
  <2>1. /\ receiver[t].pc = "footer" /\ receiver'[t].pc = "done"
        /\ outcome'[t] = Verdict(t)
        /\ UNCHANGED <<sender, received, disk, length>>
    BY <1>9, RecvFooterEffect, DoneFacts DEF RecvFooter
  <2> QED BY <1>9, <2>1 DEF Verdict
<1> QED BY <1>1, <1>2, <1>3, <1>4, <1>5, <1>6, <1>7, <1>8, <1>9 DEF RecvStep

LEMMA OutcomeStep ==
  ASSUME TypeOK, NEW t \in T, LengthOK(t), OutcomeOK(t),
         Diode(t) \/ SendStep(t) \/ RecvStep(t)
  PROVE  OutcomeOK(t)'
BY UntilDone DEF OutcomeOK

(* What has come of a transfer that nothing disturbed and whose sender is  *)
(* done: the file and the footer, of which received was taken.             *)
LEMMA QuietArrived ==
  ASSUME TypeOK, NEW t \in T, StreamOK(t), LengthOK(t), Undisturbed(t),
         sender[t].pc = "sent", receiver[t].pc \in {"create", "body", "footer"}
  PROVE  /\ Flushed(t) = length[t] /\ length[t] \in Nat
         /\ length[t] = Transfers[t].length
         /\ Len(received[t]) + Len(stream[t].units) = length[t] + 2
         /\ receiver[t].remaining + Len(received[t]) = length[t]
         /\ \A i \in 1 .. Len(received[t]) : received[t][i] = Byte(t, i)
         /\ receiver[t].remaining = 0 =>
              /\ Len(received[t]) = length[t]
              /\ Len(stream[t].units) = 2
              /\ \A i \in 1 .. 2 :
                   stream[t].units[i] = Unit("footer", t, i, FooterHash(t))
<1>1. \A w : ~ Disturbed(t, w) BY QuietFacts
<1>2. PICK a \in Nat, k \in Nat :
    /\ Remains(Came(t), Written(t), a, k)
    /\ k > 0 => Disturbed(t, "hole")
    /\ ~ Disturbed(t, "cut") => RemainsWhole(Came(t), Written(t), a, k)
  BY DEF StreamOK
<1>3. k = 0 /\ RemainsWhole(Came(t), Written(t), a, 0) BY <1>1, <1>2
<1> DEFINE r == received[t]
           u == stream[t].units
           n == length[t]
<1>4. /\ Flushed(t) = n /\ n \in Nat /\ n = Transfers[t].length
      /\ receiver[t].remaining + Len(r) = n /\ receiver[t].remaining \in Nat
  BY <1>1, TypeFacts DEF LengthOK, Flushed
<1>5. /\ Len(Written(t)) = n + 2
      /\ \A i \in 1 .. n : Written(t)[i] = Byte(t, i)
      /\ \A i \in 1 .. 2 :
           Written(t)[n + i] = Unit("footer", t, i, FooterHash(t))
  BY <1>4, WrittenFacts
<1>6. r \in Seq(Units) /\ u \in Seq(Units) BY TypeFacts
<1>7. Came(t) = r \o u BY DEF Came, HeaderDue
<1> HIDE DEF r, u, n
<1>8. /\ r \o u \in Seq(Units) /\ Len(r \o u) = Len(r) + Len(u)
      /\ \A i \in 1 .. Len(r) : (r \o u)[i] = r[i]
      /\ \A i \in 1 .. Len(u) : (r \o u)[Len(r) + i] = u[i]
  BY ONLY <1>6, ConcatFacts
<1>9. Len(r) \in Nat /\ Len(u) \in Nat BY <1>6
<1>10. Len(r) + Len(u) = n + 2
  BY <1>3, <1>4, <1>5, <1>7, <1>8, <1>9 DEF RemainsWhole
<1>11. \A i \in 1 .. Len(r) + Len(u) : (r \o u)[i] = Written(t)[i]
  <2>1. \A i \in 1 .. Len(r \o u) :
          (r \o u)[i] = Written(t)[IF i <= a THEN i ELSE i + 0]
    BY <1>2, <1>3, <1>7 DEF Remains
  <2>2. \A i \in 1 .. Len(r \o u) : (IF i <= a THEN i ELSE i + 0) = i
    BY <1>8, <1>9
  <2> QED BY <1>8, <2>1, <2>2
<1>12. \A i \in 1 .. Len(r) : r[i] = Byte(t, i)
  <2>1. \A i \in 1 .. Len(r) : i \in 1 .. n /\ i \in 1 .. Len(r) + Len(u)
    BY <1>4, <1>9
  <2> QED BY <1>5, <1>8, <1>11, <2>1
<1>13. ASSUME receiver[t].remaining = 0
       PROVE  /\ Len(r) = n /\ Len(u) = 2
              /\ \A i \in 1 .. 2 : u[i] = Unit("footer", t, i, FooterHash(t))
  <2>0. receiver[t].remaining + Len(r) = n BY <1>4
  <2>1. Len(r) = n /\ Len(u) = 2
    <3>1. 0 + Len(r) = n BY <1>13, <2>0
    <3>2. \A x, y, z \in Nat : 0 + x = z /\ x + y = z + 2 => x = z /\ y = 2
      OBVIOUS
    <3>3. n \in Nat BY <1>4
    <3> QED BY ONLY <3>1, <3>2, <3>3, <1>9, <1>10
  <2>2. \A i \in 1 .. 2 : n + i \in 1 .. Len(r) + Len(u)
    BY <1>4, <2>1
  <2> QED BY <1>5, <1>8, <1>11, <2>1, <2>2
<1> QED BY <1>4, <1>10, <1>12, <1>13 DEF r, u, n

LEMMA UndisturbedStep ==
  ASSUME TypeOK, NEW t \in T, StreamOK(t), HeaderOK(t), LengthOK(t),
         UndisturbedOK(t), Diode(t) \/ SendStep(t) \/ RecvStep(t)
  PROVE  UndisturbedOK(t)'
<1> SUFFICES ASSUME Undisturbed(t)'
             PROVE  /\ sender'[t].pc # "failed"
                    /\ receiver'[t].pc = "footer" => receiver'[t].remaining = 0
  BY DEF UndisturbedOK
<1>1. Undisturbed(t) /\ ~ Diode(t) /\ ~ SendFail(t) /\ ~ RecvFail(t)
  BY DamageGrows
<1>2. /\ sender[t].pc # "failed"
      /\ receiver[t].pc = "footer" => receiver[t].remaining = 0
  BY <1>1 DEF UndisturbedOK
<1>3. CASE SendHeader(t) BY <1>2, <1>3, SendHeaderEffect
<1>4. CASE SendRead(t) BY <1>2, <1>4, SendReadEffect
<1>5. CASE SendEof(t) BY <1>2, <1>5, SendEofEffect
<1>6. CASE RecvStep(t)
  <2>1. sender' = sender BY <1>6, RecvFrame
  <2>2. CASE RecvEof(t)
    <3>1. /\ receiver[t].pc = "body"
          /\ End(t) = receiver[t].cursor \/ AtEof(t)
          /\ receiver'[t].remaining = receiver[t].remaining
      BY <2>2, RecvZeroEffect DEF RecvEof, RecvZero
    <3>2. receiver[t].remaining = 0
      <4>1. CASE End(t) = receiver[t].cursor BY <4>1, EndFacts
      <4>2. CASE AtEof(t)
        <5>1. \A w : ~ Disturbed(t, w) BY <1>1, QuietFacts
        <5>2. sender[t].pc = "sent" BY <1>2, <4>2, <5>1 DEF AtEof, HeaderOK
        <5>3. /\ Len(received[t]) + Len(stream[t].units) = length[t] + 2
              /\ receiver[t].remaining + Len(received[t]) = length[t]
          <6>1. receiver[t].pc \in {"create", "body", "footer"} BY <3>1
          <6> QED BY <1>1, <5>2, <6>1, QuietArrived
        <5>4. /\ Len(stream[t].units) = 0 /\ Len(received[t]) \in Nat
              /\ receiver[t].remaining \in Nat /\ length[t] \in Nat
          BY <4>2, TypeFacts DEF AtEof
        <5> QED BY <5>3, <5>4
      <4> QED BY <3>1, <4>1, <4>2
    <3> QED BY <1>2, <2>1, <3>1, <3>2
  <2>3. CASE ~ RecvEof(t)
    <3>1. receiver'[t].pc # "footer"
      <4>1. CASE Accept(t) BY <4>1 DEF Accept, TypeOK
      <4>2. CASE RecvHeader(t) BY <4>2, RecvHeaderEffect
      <4>3. CASE RecvHeaderFail(t) \/ RecvFooter(t) \/ RecvFooterFail(t)
        BY <4>3, ReturnsType, DoneFacts
           DEF RecvHeaderFail, RecvFooter, RecvFooterFail, Returns, TypeOK
      <4>4. CASE RecvCreate(t) BY <4>4 DEF RecvCreate, TypeOK
      <4>5. CASE RecvRead(t)
        <5>1. receiver'[t].pc = receiver[t].pc
          BY <4>5, RecvReadStep, RecvReadsEffect
        <5> QED BY <4>5, <5>1 DEF RecvRead
      <4> QED BY <1>1, <1>6, <2>3, <4>1, <4>2, <4>3, <4>4, <4>5 DEF RecvStep
    <3> QED BY <1>2, <2>1, <3>1
  <2> QED BY <2>2, <2>3
<1> QED BY <1>1, <1>3, <1>4, <1>5, <1>6 DEF SendStep
-----------------------------------------------------------------------------
(* A file that is accepted is what was sent.                               *)

(* The hash of what was received is neither of the two that no hash is.    *)
LEMMA HashOfReceived ==
  ASSUME NEW c \in Seq(Units), NEW b \in Nat, NEW m \in Nat, NEW h,
         h \in Seq(HashUnits \cup Units), Hashed(h, c, b, m)
  PROVE  h # NoHash /\ h # NotAHash
<1>1. ASSUME h = NotAHash PROVE FALSE
  <2>1. h[1] = Unit("garbage", 0, 0, <<>>) /\ Len(h) = 1
    BY <1>1 DEF NotAHash
  <2>2. h[1] \in HashUnits \cup Units BY <2>1
  <2>3. h[1].kind \in {"length", "byte", "zero", "header", "footer"}
    BY <2>2 DEF HashUnits, Units
  <2> QED BY <2>1, <2>3, UnitFacts
<1>2. ASSUME h = NoHash PROVE FALSE
  <2>1. h[1] = Unit("zero", 0, 0, <<>>) /\ Len(h) = 1
    BY <1>2 DEF NoHash, ZeroByte
  <2>2. h[1].kind = "zero" BY <2>1, UnitFacts
  <2>3. Len(c) \in Nat /\ \A i \in 1 .. Len(c) : c[i] \in Units OBVIOUS
  <2>4. CASE m = 0
    <3>1. Len(h) = Len(c) /\ \A i \in 1 .. Len(c) : h[i] = c[i]
      BY <2>3, <2>4, HashedWhole
    <3>2. 1 \in 1 .. Len(c) /\ h[1] = c[1] BY <2>1, <2>3, <3>1
    <3>3. h[1] \in Units BY <2>3, <3>2
    <3> QED BY <2>2, <3>3, UnitFacts
  <2>5. CASE m > 0
    <3>1. h[1] = Unit("length", 0, b, <<>>) BY <2>3, <2>5, HashedFront
    <3> QED BY <2>2, <3>1, UnitFacts
  <2> QED BY <2>4, <2>5
<1> QED BY <1>1, <1>2

Accepted(t) ==
  /\ outcome[t] = "ok"
  /\ ~ verify => ~ (Disturbed(t, "hole") /\ Disturbed(t, "resized"))

LEMMA FooterAccepts ==
  ASSUME TypeOK, NEW t \in T, StreamOK(t), LengthOK(t), SenderHashOK(t),
         ReceiverHashOK(t), receiver[t].pc = "footer",
         Len(stream[t].units) >= 2, Verdict(t) = "ok",
         ~ verify => ~ (Disturbed(t, "hole") /\ Disturbed(t, "resized"))
  PROVE  received[t] = Content(t, Len(received[t]))
<1> DEFINE r == received[t]
           u == stream[t].units
           w == Written(t)
           f == Flushed(t)
<1>1. /\ r \in Seq(Units) /\ u \in Seq(Units) /\ verify \in BOOLEAN
      /\ Len(r) \in Nat /\ Len(u) \in Nat /\ length[t] \in Nat
      /\ receiver[t].remaining = 0
      /\ verify => HashIn(u) = receiver[t].hasher
      /\ receiver[t].hasher \in Seq(HashUnits \cup Units)
  BY TypeFacts DEF Verdict
<1>2. PICK a \in Nat, k \in Nat :
    Remains(Came(t), w, a, k) /\ (k > 0 => Disturbed(t, "hole"))
  BY DEF StreamOK
<1>3. Came(t) = r \o u BY DEF Came, HeaderDue
<1>4. /\ f \in Nat /\ w \in Seq(Units) /\ FooterHash(t) \in Seq(HashUnits)
      /\ Len(w) = f + (IF sender[t].pc = "sent" THEN 2 ELSE 0)
      /\ \A i \in 1 .. f : w[i] = Byte(t, i)
      /\ sender[t].pc = "sent" => \A i \in 1 .. 2 :
           w[f + i] = Unit("footer", t, i, FooterHash(t))
  BY WrittenFacts
<1>5. /\ ~ Disturbed(t, "resized") => f <= length[t] /\ Len(r) = length[t]
  <2>1. ASSUME ~ Disturbed(t, "resized")
        PROVE  f <= length[t] /\ Len(r) = length[t]
    <3>1. /\ sender[t].position <= length[t]
          /\ receiver[t].remaining + Len(r) = length[t]
      BY <2>1 DEF LengthOK
    <3>2. sender[t].position \in Nat /\ sender[t].cursor \in Nat BY TypeFacts
    <3>3. f <= sender[t].position BY <3>2 DEF Flushed
    <3>4. f <= length[t] BY <1>1, <1>4, <3>1, <3>2, <3>3
    <3>5. 0 + Len(r) = length[t] BY <1>1, <3>1
    <3> QED BY <1>1, <3>4, <3>5
  <2> QED BY <2>1
<1> HIDE DEF r, u, w, f
<1>6. /\ r \o u \in Seq(Units) /\ Len(r \o u) = Len(r) + Len(u)
      /\ \A i \in 1 .. Len(r) : (r \o u)[i] = r[i]
      /\ \A i \in 1 .. Len(u) : (r \o u)[Len(r) + i] = u[i]
  BY ONLY <1>1, ConcatFacts
<1>7. /\ Len(r) + Len(u) + k <= Len(w)
      /\ \A i \in 1 .. Len(r) + Len(u) :
           (r \o u)[i] = w[IF i <= a THEN i ELSE i + k]
  BY <1>2, <1>3, <1>6 DEF Remains
<1>8. Len(u) >= 2 BY DEF u
<1>9. Len(w) <= f + 2 /\ Len(w) \in Nat BY <1>4
<1>10. SUFFICES Len(r) <= f /\ \A i \in 1 .. Len(r) : r[i] = w[i]
  <2> DEFINE c == Content(t, Len(r))
  <2>1. /\ c \in Seq(Units) /\ Len(c) = Len(r)
        /\ \A i \in 1 .. Len(r) : c[i] = Byte(t, i)
    BY <1>1, ContentFacts
  <2> HIDE DEF c
  <2>2. \A i \in 1 .. Len(r) : r[i] = c[i]
    BY <1>1, <1>4, <1>10, <2>1
  <2>3. r = c BY <1>1, <2>1, <2>2, SeqEqual
  <2> QED BY <2>3 DEF c, r
<1>11. CASE k = 0
  <2>1. Len(r) <= f BY <1>1, <1>4, <1>7, <1>8, <1>9, <1>11
  <2>2. \A i \in 1 .. Len(r) + Len(u) : (IF i <= a THEN i ELSE i + k) = i
    BY <1>1, <1>11
  <2>3. \A i \in 1 .. Len(r) : i \in 1 .. Len(r) + Len(u) BY <1>1
  <2> QED BY <1>6, <1>7, <2>1, <2>2, <2>3
<1>12. CASE k # 0 /\ ~ verify
  <2>1. ~ Disturbed(t, "resized") BY <1>2, <1>12
  <2>2. f <= length[t] /\ Len(r) = length[t] BY <1>5, <2>1
  <2> QED BY <1>1, <1>4, <1>7, <1>8, <1>9, <1>12, <2>2
<1>13. CASE k # 0 /\ verify
  <2> DEFINE h == receiver[t].hasher
             b == Transfers[t].buffer_size
             c == Content(t, f)
  <2>1. HashIn(u) = h BY <1>1, <1>13
  <2>2. Stored(t) = r BY StoredFacts DEF LengthOK, r
  <2>3. PICK m \in Nat : Hashed(h, r, BufferSize, m)
    BY <2>2 DEF ReceiverHashOK
  <2>4. BufferSize \in Nat \ {0} /\ b \in Nat \ {0} BY TransferFacts
  <2>5. h # NoHash /\ h # NotAHash BY <1>1, <2>3, <2>4, HashOfReceived
  <2>6. HashIn(u) = u[1].hash /\ u[1].kind = "footer"
    <3>1. /\ [i \in 1 .. 2 |-> <<u[i].kind, u[i].at>>]
               = << <<"footer", 1>>, <<"footer", 2>> >>
          /\ HashIn(u) = u[1].hash
      BY <2>1, <2>5 DEF HashIn
    <3>2. [i \in 1 .. 2 |-> <<u[i].kind, u[i].at>>][1] = <<"footer", 1>>
      BY <3>1
    <3>3. <<u[1].kind, u[1].at>> = <<"footer", 1>> BY <3>2
    <3> QED BY <3>1, <3>3
  <2>7. PICK j \in 1 .. Len(w) : u[1] = w[j]
    <3>1. /\ Len(r) + 1 \in 1 .. Len(r) + Len(u) /\ 1 \in 1 .. Len(u)
          /\ (IF Len(r) + 1 <= a THEN Len(r) + 1 ELSE (Len(r) + 1) + k)
               \in 1 .. Len(w)
      BY <1>1, <1>7, <1>8, <1>9
    <3>2. (r \o u)[Len(r) + 1] = u[1] BY ONLY <1>6, <3>1
    <3>3. (r \o u)[Len(r) + 1] =
            w[IF Len(r) + 1 <= a THEN Len(r) + 1 ELSE (Len(r) + 1) + k]
      BY ONLY <1>7, <3>1
    <3> QED BY ONLY <3>1, <3>2, <3>3
  <2>8. ~ j <= f
    <3>1. ASSUME j <= f PROVE FALSE
      <4>1. w[j] = Byte(t, j) BY <1>4, <3>1
      <4> QED BY <2>6, <2>7, <4>1, UnitFacts DEF Byte
    <3> QED BY <3>1
  <2>9. /\ sender[t].pc = "sent" /\ j - f \in 1 .. 2 /\ j = f + (j - f)
    BY <1>4, <2>8
  <2>10. w[j] = Unit("footer", t, j - f, FooterHash(t))
    <3>1. w[f + (j - f)] = Unit("footer", t, j - f, FooterHash(t))
      BY <1>4, <2>9
    <3> QED BY <2>9, <3>1
  <2>11. h = FooterHash(t) BY <2>1, <2>6, <2>7, <2>10, UnitFacts
  <2>12. h = sender[t].hasher BY <2>5, <2>11 DEF FooterHash
  <2>13. PICK n \in Nat : Hashed(h, c, b, n)
    BY <2>12 DEF SenderHashOK, f
  <2>14. /\ Len(c) = f /\ \A i \in 1 .. f : c[i] = Byte(t, i) BY <1>4, ContentFacts
  <2>15. Plain(c)
    <3>1. \A i \in 1 .. Len(c) : c[i].kind = "byte"
      BY <2>14, UnitFacts DEF Byte
    <3> QED BY <3>1 DEF Plain
  <2>16. Plain(r)
    <3>1. \A i \in 1 .. Len(r) : r[i] \in Units BY <1>1
    <3> QED BY <3>1, UnitFacts DEF Plain
  <2> HIDE DEF c, h, b
  <2>17. Len(r) = Len(c) /\ \A i \in 1 .. Len(r) : r[i] = c[i]
    BY SMTT(30), <1>1, <1>4, <2>3, <2>4, <2>13, <2>14, <2>15, <2>16,
       HashedUnique
  <2> QED BY <1>1, <1>4, <2>14, <2>17
<1> QED BY <1>11, <1>12, <1>13, <1>1

LEMMA AcceptedStep ==
  ASSUME TypeOK, NEW t \in T, TransferInv(t), verify' = verify,
         Accepted(t) => received[t] = Content(t, Len(received[t])),
         Diode(t) \/ SendStep(t) \/ RecvStep(t), Accepted(t)'
  PROVE  received'[t] = Content(t, Len(received'[t]))
<1>1. \A w : Disturbed(t, w) => Disturbed(t, w)' BY DamageGrows
<1>2. CASE /\ outcome' = outcome
           /\ receiver'[t].pc = "done" <=> receiver[t].pc = "done"
  <2>1. Accepted(t) BY <1>1, <1>2 DEF Accepted
  <2>2. receiver[t].pc = "done" BY <2>1 DEF TransferInv, OutcomeOK, Accepted
  <2>3. received'[t] = received[t]
    <3>1. ~ RecvRead(t) BY <2>2 DEF RecvRead
    <3> QED
      BY <3>1 DEF Diode, Cut, Hole, Resize, SendStep, SendHeader, SendRead,
           SendEof, SendLast, SendFail, RecvStep, Accept, RecvHeader,
           RecvHeaderIf, RecvHeaderFail, RecvCreate, RecvEof, RecvZero,
           RecvFooter, RecvFooterFail, RecvFail, historyVars
  <2> QED BY <2>1, <2>3
<1>3. CASE RecvFooter(t)
  <2>1. /\ receiver[t].pc = "footer" /\ Len(stream[t].units) >= 2
        /\ outcome'[t] = Verdict(t) /\ received' = received
        /\ damage' = damage
    BY <1>3, RecvFooterEffect DEF RecvFooter
  <2>2. /\ Verdict(t) = "ok"
        /\ ~ verify => ~ (Disturbed(t, "hole") /\ Disturbed(t, "resized"))
    BY <2>1 DEF Accepted, Disturbed
  <2>3. received[t] = Content(t, Len(received[t]))
    BY <2>1, <2>2, FooterAccepts DEF TransferInv
  <2> QED BY <2>1, <2>3
<1>4. outcome'[t] = "ok" BY DEF Accepted
<1>5. OutcomeOK(t) /\ LengthOK(t) BY DEF TransferInv
<1> QED BY <1>2, <1>3, <1>4, <1>5, UntilDone

-----------------------------------------------------------------------------
(* A transfer that nothing disturbs is accepted.                           *)

(* The same content in buffers of the same size, or in none, has the same  *)
(* number of full buffers.                                                 *)
LEMMA SameCuts ==
  ASSUME NEW b \in Nat \ {0}, NEW n \in Nat, NEW m \in Nat, NEW k \in Nat,
         Place(m, b) <= n, n < Place(m + 1, b),
         Place(k, b) <= n, n < Place(k + 1, b)
  PROVE  m = k
<1>1. \A i, j \in Nat :
        i < j => Place(i + 1, b) <= Place(j, b)
  BY PlaceFacts
<1>2. \A j \in Nat : Place(j, b) \in Nat BY PlaceFacts
<1>3. ASSUME m < k PROVE FALSE
  <2>1. Place(m + 1, b) <= Place(k, b) BY <1>1, <1>3
  <2> QED BY <1>2, <2>1, m + 1 \in Nat
<1>4. ASSUME k < m PROVE FALSE
  <2>1. Place(k + 1, b) <= Place(m, b) BY <1>1, <1>4
  <2> QED BY <1>2, <2>1, k + 1 \in Nat
<1> QED BY <1>3, <1>4

LEMMA NoCut ==
  ASSUME NEW b \in Nat \ {0}, NEW n \in Nat, NEW m \in Nat,
         Place(m, b) <= n, n < b
  PROVE  m = 0
<1>1. Place(0, b) = 0 /\ Place(m, b) \in Nat BY PlaceFacts
<1>2. ASSUME m > 0 PROVE FALSE
  <2>1. Place(0, b) + b <= Place(m, b) BY <1>2, PlaceFacts
  <2> QED BY <1>1, <2>1
<1> QED BY <1>2

(* Both ends have the same hash of a file that came as it was sent.        *)
LEMMA SameHash ==
  ASSUME TypeOK, NEW t \in T, SenderHashOK(t), ReceiverHashOK(t), LengthOK(t),
         HashesAgree(t), sender[t].pc = "sent", receiver[t].pc = "footer",
         Flushed(t) = length[t], length[t] = Transfers[t].length,
         Len(received[t]) = length[t],
         \A i \in 1 .. Len(received[t]) : received[t][i] = Byte(t, i)
  PROVE  sender[t].hasher = receiver[t].hasher
<1> DEFINE h == sender[t].hasher
           g == receiver[t].hasher
           n == length[t]
           c == Content(t, n)
           r == received[t]
           b == Transfers[t].buffer_size
           S == HashUnits \cup Units
<1>1. /\ n \in Nat /\ b \in Nat \ {0} /\ BufferSize \in Nat \ {0}
      /\ h \in Seq(S) /\ g \in Seq(S)
  BY TypeFacts, TransferFacts
<1>2. /\ Len(c) = n /\ \A i \in 1 .. n : c[i] = Byte(t, i)
  BY <1>1, ContentFacts
<1>3. Stored(t) = r BY StoredFacts DEF LengthOK
<1>4. PICK m \in Nat : Hashed(h, c, b, m) /\ n < Place(m + 1, b)
  BY DEF SenderHashOK
<1>5. PICK k \in Nat : Hashed(g, r, BufferSize, k) /\ n < Place(k + 1, BufferSize)
  BY <1>3 DEF ReceiverHashOK
<1>6. Place(m, b) <= n /\ Place(k, BufferSize) <= n
  BY <1>2, <1>4, <1>5 DEF Hashed
<1>7. Len(c) = Len(r) /\ Len(c) \in Nat /\ \A i \in 1 .. Len(c) : c[i] = r[i]
  BY <1>1, <1>2
<1>8. \/ b = BufferSize
      \/ n < BufferSize /\ n < b
  BY DEF HashesAgree
<1> HIDE DEF h, g, c, r, b, n, S
<1>9. CASE b = BufferSize
  <2>1. m = k BY <1>1, <1>4, <1>5, <1>6, <1>9, SameCuts
  <2>2. Hashed(h, c, b, m) /\ Hashed(g, r, b, m) BY <1>4, <1>5, <1>9, <2>1
  <2>3. b \in Nat BY <1>1
  <2>4. h = g BY <1>1, <1>7, <2>2, <2>3, HashedSame
  <2> QED BY <2>4 DEF h, g
<1>10. CASE n < BufferSize /\ n < b
  <2>1. m = 0 /\ k = 0 BY <1>1, <1>6, <1>10, NoCut
  <2>2. /\ Len(h) = Len(c) /\ \A i \in 1 .. Len(c) : h[i] = c[i]
        /\ Len(g) = Len(r) /\ \A i \in 1 .. Len(r) : g[i] = r[i]
    BY <1>1, <1>4, <1>5, <1>7, <2>1, HashedWhole
  <2>3. Len(h) = Len(g) /\ \A i \in 1 .. Len(h) : h[i] = g[i]
    BY <1>7, <2>2
  <2>4. h = g BY <1>1, <2>3, SeqEqual
  <2> QED BY <2>4 DEF h, g
<1> QED BY <1>8, <1>9, <1>10

(* The footer of an undisturbed transfer is there only once it is sent.    *)
LEMMA FooterIsSent ==
  ASSUME TypeOK, NEW t \in T, StreamOK(t), LengthOK(t), Undisturbed(t),
         receiver[t].pc = "footer", receiver[t].remaining = 0,
         Len(stream[t].units) >= 2
  PROVE  sender[t].pc = "sent"
<1> DEFINE r == received[t]
           u == stream[t].units
           n == length[t]
<1>1. \A w : ~ Disturbed(t, w) BY QuietFacts
<1>2. /\ sender[t].position <= n /\ receiver[t].remaining + Len(r) = n
      /\ sender[t].position \in Nat /\ sender[t].cursor \in Nat
      /\ n \in Nat
  BY <1>1, TypeFacts DEF LengthOK
<1>3. PICK a \in Nat, k \in Nat : Remains(Came(t), Written(t), a, k)
  BY DEF StreamOK
<1>4. r \in Seq(Units) /\ u \in Seq(Units) BY TypeFacts
<1>5. Came(t) = r \o u BY DEF Came, HeaderDue
<1> HIDE DEF r, u, n
<1>6. Len(r \o u) = Len(r) + Len(u) BY ONLY <1>4, ConcatFacts
<1>7. Len(r) + Len(u) + k <= Len(Written(t)) BY <1>3, <1>5, <1>6 DEF Remains
<1>8. Len(r) = n
  <2>1. 0 + Len(r) = n /\ Len(r) \in Nat BY <1>2, <1>4
  <2> QED BY <2>1
<1>9. /\ Flushed(t) \in Nat /\ Flushed(t) <= n
      /\ Len(Written(t)) = Flushed(t) + (IF sender[t].pc = "sent" THEN 2 ELSE 0)
  <2>1. Flushed(t) \in Nat BY WrittenFacts
  <2>2. Flushed(t) <= n BY <1>2, <2>1 DEF Flushed
  <2> QED BY <2>1, <2>2, WrittenFacts
<1>10. CASE sender[t].pc # "sent"
  <2>1. Len(Written(t)) = Flushed(t) BY <1>9, <1>10
  <2>2. Len(u) >= 2 /\ Len(u) \in Nat BY <1>4 DEF u
  <2>3. Len(r) + Len(u) + k <= Flushed(t) BY <1>7, <2>1
  <2> QED BY <1>2, <1>8, <1>9, <2>2, <2>3
<1> QED BY <1>10

LEMMA UndisturbedAccepts ==
  ASSUME TypeOK, NEW t \in T, TransferInv(t), verify' = verify,
         /\ outcome[t] # "none" /\ Undisturbed(t)
         /\ verify => HashesAgree(t)
         => outcome[t] \in {"ok", "exists"},
         Diode(t) \/ SendStep(t) \/ RecvStep(t),
         outcome'[t] # "none", Undisturbed(t)', verify => HashesAgree(t)
  PROVE  outcome'[t] \in {"ok", "exists"}
<1>1. /\ StreamOK(t) /\ HeaderOK(t) /\ LengthOK(t) /\ SenderHashOK(t)
      /\ ReceiverHashOK(t) /\ UndisturbedOK(t) /\ OutcomeOK(t)
  BY DEF TransferInv
<1>2. /\ Undisturbed(t) /\ ~ RecvFail(t)
      /\ \A w : ~ Disturbed(t, w)
  BY DamageGrows, QuietFacts
<1>3. /\ sender[t].pc # "failed"
      /\ receiver[t].pc = "footer" => receiver[t].remaining = 0
  BY <1>1, <1>2 DEF UndisturbedOK
<1>4. stream[t].closed => sender[t].pc = "sent" BY <1>1, <1>2, <1>3 DEF HeaderOK
<1>5. CASE outcome' = outcome BY <1>2, <1>5
<1>6. CASE RecvHeader(t) /\ outcome'[t] = "exists" BY <1>6
<1>7. CASE RecvHeaderFail(t)
  <2>1. receiver[t].pc = "header" /\ stream[t].units = <<>> /\ stream[t].closed
    BY <1>7 DEF RecvHeaderFail, AtEof
  <2> QED BY <1>1, <1>2, <1>4, <2>1 DEF HeaderOK, HeaderDue
<1>8. CASE RecvFooterFail(t)
  <2>1. /\ receiver[t].pc = "footer" /\ stream[t].closed
        /\ Len(stream[t].units) < 2
    BY <1>8 DEF RecvFooterFail, FooterSize
  <2>2. Len(stream[t].units) = 2
    BY <1>1, <1>2, <1>3, <1>4, <2>1, QuietArrived
  <2> QED BY <2>1, <2>2
<1>9. CASE RecvFooter(t) /\ outcome'[t] = Verdict(t)
  <2>1. receiver[t].pc = "footer" /\ Len(stream[t].units) >= 2
    BY <1>9, RecvFooterEffect
  <2>2. sender[t].pc = "sent" BY <1>1, <1>2, <1>3, <2>1, FooterIsSent
  <2>3. /\ Flushed(t) = length[t] /\ length[t] = Transfers[t].length
        /\ \A i \in 1 .. Len(received[t]) : received[t][i] = Byte(t, i)
        /\ Len(received[t]) = length[t]
        /\ \A i \in 1 .. 2 :
             stream[t].units[i] = Unit("footer", t, i, FooterHash(t))
    BY <1>1, <1>2, <1>3, <2>1, <2>2, QuietArrived
  <2>4. ASSUME verify PROVE HashIn(stream[t].units) = receiver[t].hasher
    <3>1. sender[t].hasher = receiver[t].hasher
      BY <1>1, <2>1, <2>2, <2>3, <2>4, SameHash
    <3>2. FooterHash(t) = sender[t].hasher
      BY <2>4 DEF HashesAgree, FooterHash
    <3>3. /\ stream[t].units[1] = Unit("footer", t, 1, FooterHash(t))
          /\ stream[t].units[2] = Unit("footer", t, 2, FooterHash(t))
      BY <2>3
    <3>4. /\ \A i \in 1 .. 2 : <<stream[t].units[i].kind, stream[t].units[i].at>>
                                 = <<"footer", i>>
          /\ stream[t].units[1].hash = FooterHash(t)
      BY <2>3, <3>3, UnitFacts
    <3> DEFINE u == stream[t].units
               f == [i \in 1 .. 2 |-> <<u[i].kind, u[i].at>>]
               g == << <<"footer", 1>>, <<"footer", 2>> >>
    <3>5. f = g
      <4>1. f = [i \in 1 .. 2 |-> <<"footer", i>>] BY <3>4
      <4>2. g = [i \in 1 .. 2 |-> <<"footer", i>>] OBVIOUS
      <4> QED BY <4>1, <4>2
    <3> QED BY <3>1, <3>2, <3>4, <3>5 DEF HashIn
  <2> QED BY <1>3, <1>9, <2>1, <2>4 DEF Verdict
<1> QED BY <1>1, <1>2, <1>5, <1>6, <1>7, <1>8, <1>9, UntilDone
-----------------------------------------------------------------------------
(* The files on disk.  A step of x that touches no file.                   *)
LEMMA DiskKept ==
  ASSUME NEW x \in T, DiskInv, FileIntact, \A s \in T \ {x} : Same(s),
         UNCHANGED <<disk, raced, outcome>>, received'[x] = received[x],
         \/ receiver'[x] = receiver[x]
         \/ receiver[x].pc = "idle" /\ receiver'[x].pc = "header"
  PROVE  DiskInv' /\ FileIntact'
<1>1. \A s \in T : /\ outcome'[s] = outcome[s] /\ received'[s] = received[s]
                   /\ \/ receiver'[s] = receiver[s]
                      \/ receiver[s].pc = "idle" /\ receiver'[s].pc = "header"
  BY DEF Same
<1>2. \A s \in T : receiver'[s].pc \in {"body", "footer"} =>
        Stored(s)' = Stored(s) /\ receiver[s].pc \in {"body", "footer"}
  BY <1>1 DEF Stored
<1>3. \A s \in T : OwnsFile(s)' => OwnsFile(s) BY <1>1 DEF OwnsFile
<1>4. \A s \in T : receiver[s].pc \in {"idle", "header", "done"} =>
                     receiver'[s].pc \in {"idle", "header", "done"}
  BY <1>1
<1>5. \A t \in T \ raced : OwnsFile(t)' =>
        \A s \in T : s # t /\ Transfers[s].name = Transfers[t].name =>
          receiver'[s].pc \in {"idle", "header", "done"}
  BY <1>3, <1>4 DEF DiskInv
<1>6. \A t \in T :
        receiver'[t].pc \in {"body", "footer"} \/ outcome'[t] = "ok" =>
          disk[Transfers[t].name] # Absent
  BY <1>1, <1>2 DEF DiskInv
<1>7. \A t \in T \ raced :
        receiver'[t].pc \in {"body", "footer"} =>
          disk[Transfers[t].name] = Stored(t)'
  BY <1>2 DEF DiskInv
<1>8. DiskInv' BY <1>5, <1>6, <1>7 DEF DiskInv
<1>9. FileIntact' BY <1>1 DEF FileIntact
<1> QED BY <1>8, <1>9

(* The end of x.                                                           *)
LEMMA DiskEnd ==
  ASSUME NEW x \in T, DiskInv, FileIntact, \A s \in T \ {x} : Same(s),
         UNCHANGED <<disk, raced, received>>, receiver'[x].pc = "done",
         outcome'[x] = "ok" =>
           receiver[x].pc = "footer" /\ Stored(x) = received[x]
  PROVE  DiskInv' /\ FileIntact'
<1>1. \A s \in T \ {x} : /\ outcome'[s] = outcome[s]
                         /\ receiver'[s] = receiver[s]
  BY DEF Same
<1>2. \A s \in T : receiver'[s].pc \in {"body", "footer"} =>
        Stored(s)' = Stored(s) /\ receiver[s].pc \in {"body", "footer"}
  BY <1>1 DEF Stored
<1>3. \A s \in T : OwnsFile(s)' => OwnsFile(s) BY <1>1 DEF OwnsFile
<1>4. \A s \in T : receiver[s].pc \in {"idle", "header", "done"} =>
                     receiver'[s].pc \in {"idle", "header", "done"}
  BY <1>1
<1>5. \A t \in T \ raced : OwnsFile(t)' =>
        \A s \in T : s # t /\ Transfers[s].name = Transfers[t].name =>
          receiver'[s].pc \in {"idle", "header", "done"}
  BY <1>3, <1>4 DEF DiskInv
<1>6. \A t \in T :
        receiver'[t].pc \in {"body", "footer"} \/ outcome'[t] = "ok" =>
          disk[Transfers[t].name] # Absent
  <2> TAKE t \in T
  <2>1. CASE t = x BY <2>1 DEF DiskInv
  <2>2. CASE t # x BY <1>1, <2>2 DEF DiskInv
  <2> QED BY <2>1, <2>2
<1>7. \A t \in T \ raced :
        receiver'[t].pc \in {"body", "footer"} =>
          disk[Transfers[t].name] = Stored(t)'
  BY <1>2 DEF DiskInv
<1>8. DiskInv' BY <1>5, <1>6, <1>7 DEF DiskInv
<1>9. ASSUME NEW t \in T \ raced, outcome'[t] = "ok"
      PROVE  disk[Transfers[t].name] = received[t]
  <2>1. CASE t = x BY <1>9, <2>1 DEF DiskInv
  <2>2. CASE t # x BY <1>1, <1>9, <2>2 DEF FileIntact
  <2> QED BY <2>1, <2>2
<1>10. FileIntact' BY <1>9 DEF FileIntact
<1> QED BY <1>8, <1>10

(* A write of x: only x may write to this file, unless it is in a race.    *)
LEMMA DiskWritten ==
  ASSUME NEW x \in T, DiskInv, FileIntact, OutcomeOK(x),
         \A s \in T \ {x} : Same(s), UNCHANGED <<raced, outcome>>,
         receiver[x].pc \in {"create", "body"},
         receiver'[x].pc \in {"body", "footer"},
         \A n \in Names \ {Transfers[x].name} : disk'[n] = disk[n],
         disk'[Transfers[x].name] # Absent,
         x \notin raced => disk'[Transfers[x].name] = Stored(x)'
  PROVE  DiskInv' /\ FileIntact'
<1>0. outcome[x] # "ok" BY DEF OutcomeOK
<1>1. /\ \A s \in T : outcome'[s] = outcome[s]
      /\ \A s \in T \ {x} :
           /\ receiver'[s] = receiver[s] /\ received'[s] = received[s]
           /\ Stored(s)' = Stored(s)
  BY DEF Same, Stored
<1>2. \A s \in T : Transfers[s].name \in Names BY TransferFacts
<1>3. \A s \in T : OwnsFile(s)' => OwnsFile(s) BY <1>1 DEF OwnsFile
<1>4. \A t \in T \ raced : OwnsFile(t)' =>
        \A s \in T : s # t /\ Transfers[s].name = Transfers[t].name =>
          receiver'[s].pc \in {"idle", "header", "done"}
  <2> TAKE t \in T \ raced
  <2> HAVE OwnsFile(t)'
  <2> TAKE s \in T
  <2> HAVE s # t /\ Transfers[s].name = Transfers[t].name
  <2>1. receiver[s].pc \in {"idle", "header", "done"} BY <1>3 DEF DiskInv
  <2>2. s # x BY <2>1
  <2> QED BY <1>1, <2>1, <2>2
<1>5. ASSUME NEW t \in T \ raced, OwnsFile(t), t # x
      PROVE  disk'[Transfers[t].name] = disk[Transfers[t].name]
  <2>1. Transfers[t].name # Transfers[x].name BY <1>5 DEF DiskInv
  <2> QED BY <1>2, <2>1
<1>6. ASSUME NEW t \in T,
             receiver'[t].pc \in {"body", "footer"} \/ outcome'[t] = "ok"
      PROVE  disk'[Transfers[t].name] # Absent
  <2>1. CASE Transfers[t].name = Transfers[x].name BY <2>1
  <2>2. CASE Transfers[t].name # Transfers[x].name
    <3>1. t # x BY <2>2
    <3>2. receiver[t].pc \in {"body", "footer"} \/ outcome[t] = "ok"
      BY <1>1, <1>6, <3>1
    <3>3. disk[Transfers[t].name] # Absent BY <3>2 DEF DiskInv
    <3> QED BY <1>2, <2>2, <3>3
  <2> QED BY <2>1, <2>2
<1>7. ASSUME NEW t \in T \ raced, receiver'[t].pc \in {"body", "footer"}
      PROVE  disk'[Transfers[t].name] = Stored(t)'
  <2>1. CASE t = x BY <2>1
  <2>2. CASE t # x
    <3>1. receiver[t].pc \in {"body", "footer"} BY <1>1, <1>7, <2>2
    <3>2. OwnsFile(t) BY <3>1 DEF OwnsFile
    <3>3. disk[Transfers[t].name] = Stored(t) BY <3>1 DEF DiskInv
    <3> QED BY <1>1, <1>5, <2>2, <3>2, <3>3
  <2> QED BY <2>1, <2>2
<1>8. DiskInv' BY <1>4, <1>6, <1>7 DEF DiskInv
<1>9. ASSUME NEW t \in T \ raced, outcome'[t] = "ok"
      PROVE  disk'[Transfers[t].name] = received'[t]
  <2>1. outcome[t] = "ok" /\ t # x BY <1>0, <1>1, <1>9
  <2>2. OwnsFile(t) BY <2>1 DEF OwnsFile
  <2>3. disk[Transfers[t].name] = received[t] BY <2>1 DEF FileIntact
  <2> QED BY <1>1, <1>5, <2>1, <2>2, <2>3
<1>10. FileIntact' BY <1>9 DEF FileIntact
<1> QED BY <1>8, <1>10

(* x has found no file of its name, or it is in a race.                    *)
LEMMA DiskClaimed ==
  ASSUME TypeOK, NEW x \in T, DiskInv, FileIntact, OutcomeOK(x),
         \A s \in T \ {x} : Same(s), UNCHANGED <<disk, outcome, received>>,
         receiver[x].pc = "header", receiver'[x].pc = "create",
         disk[Transfers[x].name] = Absent,
         raced' = IF Creating(Transfers[x].name) = {} THEN raced
                  ELSE raced \cup {x} \cup Creating(Transfers[x].name)
  PROVE  DiskInv' /\ FileIntact'
<1>0. outcome[x] # "ok" BY DEF OutcomeOK
<1>1. /\ \A s \in T : outcome'[s] = outcome[s] /\ received'[s] = received[s]
      /\ \A s \in T \ {x} :
           receiver'[s] = receiver[s] /\ Stored(s)' = Stored(s)
      /\ raced \subseteq raced'
  BY DEF Same, Stored
<1>2. ASSUME NEW s \in T, Transfers[s].name = Transfers[x].name
      PROVE  ~ (receiver[s].pc \in {"body", "footer"} \/ outcome[s] = "ok")
  BY <1>2 DEF DiskInv
<1>3. \A s \in T : Transfers[s].name = Transfers[x].name
                     /\ receiver[s].pc = "create" => s \in raced' /\ x \in raced'
  BY DEF Creating
<1>4. \A s \in T : receiver[s].pc \in {"idle", "header", "create", "body",
                                       "footer", "done"}
  BY TypeFacts
<1>5. ASSUME NEW t \in T \ raced', OwnsFile(t)',
             NEW s \in T, s # t, Transfers[s].name = Transfers[t].name
      PROVE  receiver'[s].pc \in {"idle", "header", "done"}
  <2>1. CASE t = x
    <3>1. ~ receiver[s].pc \in {"body", "footer"} BY <1>2, <1>5, <2>1
    <3>2. receiver[s].pc # "create" BY <1>3, <1>5, <2>1
    <3>3. receiver'[s] = receiver[s] BY <1>1, <1>5, <2>1
    <3> QED BY <1>4, <3>1, <3>2, <3>3
  <2>2. CASE t # x /\ s # x
    <3>1. OwnsFile(t) /\ t \notin raced BY <1>1, <1>5, <2>2 DEF OwnsFile
    <3>2. receiver[s].pc \in {"idle", "header", "done"}
      BY <1>5, <3>1 DEF DiskInv
    <3> QED BY <1>1, <2>2, <3>2
  <2>3. CASE t # x /\ s = x
    <3>1. OwnsFile(t) BY <1>1, <1>5, <2>3 DEF OwnsFile
    <3>2. receiver[t].pc # "create" BY <1>3, <1>5, <2>3
    <3> QED BY <1>2, <1>5, <2>3, <3>1, <3>2 DEF OwnsFile
  <2> QED BY <2>1, <2>2, <2>3
<1>6. ASSUME NEW t \in T,
             receiver'[t].pc \in {"body", "footer"} \/ outcome'[t] = "ok"
      PROVE  disk[Transfers[t].name] # Absent
  <2>1. t # x BY <1>0, <1>1, <1>6
  <2> QED BY <1>1, <1>6, <2>1 DEF DiskInv
<1>7. ASSUME NEW t \in T \ raced', receiver'[t].pc \in {"body", "footer"}
      PROVE  disk[Transfers[t].name] = Stored(t)'
  <2>1. t # x /\ t \notin raced BY <1>1, <1>7
  <2>2. receiver[t].pc \in {"body", "footer"} BY <1>1, <1>7, <2>1
  <2>3. disk[Transfers[t].name] = Stored(t) BY <2>1, <2>2 DEF DiskInv
  <2> QED BY <1>1, <2>1, <2>3
<1>8. DiskInv' BY <1>5, <1>6, <1>7 DEF DiskInv
<1>9. FileIntact' BY <1>1 DEF FileIntact
<1> QED BY <1>8, <1>9

LEMMA DiskStep ==
  ASSUME TypeOK, NEW x \in T, TransferInv(x), DiskInv, FileIntact,
         Diode(x) \/ SendStep(x) \/ RecvStep(x)
  PROVE  DiskInv' /\ FileIntact'
<1>1. /\ LengthOK(x) /\ OutcomeOK(x) BY DEF TransferInv
<1>2. \A s \in T \ {x} : Same(s) BY OthersSame
<1>3. CASE Diode(x) \/ SendStep(x)
  <2>1. UNCHANGED <<disk, raced, outcome, received, receiver>>
    BY <1>3 DEF Diode, Cut, Hole, Resize, SendStep, SendHeader, SendRead,
         SendEof, SendLast, SendFail, historyVars
  <2> QED BY <1>2, <2>1, DiskKept
<1>4. CASE Accept(x)
  <2>1. /\ UNCHANGED <<disk, raced, outcome, received>>
        /\ receiver[x].pc = "idle" /\ receiver'[x].pc = "header"
    BY <1>4 DEF Accept, TypeOK, historyVars
  <2> QED BY <1>2, <2>1, DiskKept
<1>5. CASE RecvHeader(x)
  <2>1. /\ receiver[x].pc = "header"
        /\ UNCHANGED <<disk, received>>
        /\ IF disk[Transfers[x].name] # Absent
           THEN /\ receiver'[x].pc = "done" /\ outcome'[x] = "exists"
                /\ raced' = raced
           ELSE /\ receiver'[x].pc = "create"
                /\ outcome' = outcome
                /\ raced' = IF Creating(Transfers[x].name) = {} THEN raced
                            ELSE raced \cup {x}
                                   \cup Creating(Transfers[x].name)
    BY <1>5, RecvHeaderEffect DEF RecvHeader, RecvHeaderIf
  <2>2. CASE disk[Transfers[x].name] # Absent
    BY <1>2, <2>1, <2>2, DiskEnd
  <2>3. CASE disk[Transfers[x].name] = Absent
    BY <1>1, <1>2, <2>1, <2>3, DiskClaimed
  <2> QED BY <2>2, <2>3
<1>6. CASE RecvHeaderFail(x) \/ RecvFooterFail(x) \/ RecvFail(x)
  <2>1. UNCHANGED <<disk, raced, received>> /\ Returns(x, "io")
    BY <1>6 DEF RecvHeaderFail, RecvFooterFail, RecvFail
  <2>2. receiver'[x].pc = "done" /\ outcome'[x] = "io"
    BY <2>1, ReturnsType, DoneFacts
  <2> QED BY <1>2, <2>1, <2>2, DiskEnd
<1>7. CASE RecvCreate(x)
  <2>1. /\ receiver[x].pc = "create" /\ receiver'[x].pc = "body"
        /\ receiver'[x].cursor = receiver[x].cursor
        /\ disk' = [disk EXCEPT ![Transfers[x].name] = <<>>]
        /\ UNCHANGED <<raced, outcome, received>>
    BY <1>7 DEF RecvCreate, TypeOK, historyVars
  <2>2. receiver[x].cursor = 0 /\ received[x] = <<>>
    BY <1>1, <2>1 DEF LengthOK
  <2>3. Stored(x)' = <<>>
    <3>1. Stored(x)' = SubSeq(<<>>, 1, Len(<<>>) - 0) BY <2>1, <2>2 DEF Stored
    <3>2. <<>> \in Seq(Units) /\ Len(<<>>) - 0 = Len(<<>>) OBVIOUS
    <3> QED BY <3>1, <3>2, AllOf
  <2>4. <<>> # Absent
    <3>1. <<>> \in Files BY DEF Files
    <3> QED BY <3>1, AbsentAssumption
  <2>5. Transfers[x].name \in Names BY TransferFacts
  <2>6. /\ disk'[Transfers[x].name] = <<>>
        /\ \A n \in Names \ {Transfers[x].name} : disk'[n] = disk[n]
    BY <2>1, <2>5 DEF TypeOK
  <2> QED BY <1>1, <1>2, <2>1, <2>3, <2>4, <2>6, DiskWritten
<1>8. CASE RecvRead(x)
  <2>1. PICK nread \in Nat \ {0} :
          /\ nread <= End(x) - receiver[x].cursor
          /\ nread <= Len(stream[x].units)
          /\ RecvReads(x, nread)
    BY <1>1, <1>8, RecvReadStep
  <2> DEFINE d == Received(x, nread)
             r == received[x]
             c == receiver[x].cursor + nread
  <2>2. /\ receiver[x].pc = "body" /\ receiver'[x].pc = "body"
        /\ received'[x] = d
        /\ c < BufferSize => receiver'[x].cursor = c
        /\ ~ c < BufferSize => receiver'[x].cursor = 0
        /\ UNCHANGED <<raced, outcome>>
    BY <1>1, <1>8, <2>1, RecvReadsEffect DEF RecvRead, RecvReads, historyVars
  <2>3. /\ d \in Seq(Units) /\ Len(d) = Len(r) + nread
        /\ \A i \in 1 .. Len(r) : d[i] = r[i]
        /\ c <= Len(d) /\ c \in Nat
    BY SMTT(30), <1>1, <2>1, ReadFacts, TransferFacts
  <2>4. /\ r \in Seq(Units) /\ Len(r) \in Nat /\ receiver[x].cursor \in Nat
        /\ receiver[x].cursor <= Len(r)
    BY <1>1, TypeFacts, TransferFacts DEF LengthOK
  <2>5. /\ disk[Transfers[x].name] # Absent
        /\ x \notin raced => disk[Transfers[x].name] = Stored(x)
    BY <2>2 DEF DiskInv
  <2>6. SubSeq(d, 1, Len(d) - c) = Stored(x)
    <3> DEFINE k == Len(r) - receiver[x].cursor
    <3>1. k \in Nat /\ k <= Len(r) /\ k <= Len(d) /\ Len(d) - c = k
          /\ Len(d) \in Nat
      BY SMTT(30), <2>3, <2>4
    <3> HIDE DEF k, d
    <3>2. /\ SubSeq(d, 1, k) \in Seq(Units) /\ Len(SubSeq(d, 1, k)) = k
          /\ \A i \in 1 .. k : SubSeq(d, 1, k)[i] = d[i]
      BY <2>3, <3>1, RestFacts
    <3>3. /\ SubSeq(r, 1, k) \in Seq(Units) /\ Len(SubSeq(r, 1, k)) = k
          /\ \A i \in 1 .. k : SubSeq(r, 1, k)[i] = r[i]
      BY <2>4, <3>1, RestFacts
    <3>4. \A i \in 1 .. k : i \in 1 .. Len(r) BY <2>4, <3>1
    <3>5. SubSeq(d, 1, k) = SubSeq(r, 1, k)
      BY <2>3, <3>2, <3>3, <3>4, SeqEqual
    <3>6. Stored(x) = SubSeq(r, 1, k) BY DEF Stored, k
    <3> QED BY <3>1, <3>5, <3>6
  <2>7. CASE c < BufferSize
    <3>1. disk' = disk BY <2>1, <2>7 DEF RecvReads
    <3>2. Stored(x)' = SubSeq(d, 1, Len(d) - c)
      BY <2>2, <2>7 DEF Stored
    <3>3. x \notin raced => disk'[Transfers[x].name] = Stored(x)'
      BY <2>5, <2>6, <3>1, <3>2
    <3> HIDE DEF d, c
    <3> QED BY <1>1, <1>2, <2>2, <2>5, <3>1, <3>3, DiskWritten
  <2>8. CASE ~ c < BufferSize
    <3>1. WriteToDisk(x, d, c) BY <2>1, <2>8 DEF RecvReads
    <3>2. Stored(x)' = d
      <4>1. Stored(x)' = SubSeq(d, 1, Len(d) - 0) BY <2>2, <2>8 DEF Stored
      <4>2. Len(d) - 0 = Len(d) BY <2>3
      <4> HIDE DEF d
      <4> QED BY <2>3, <4>1, <4>2, AllOf
    <3> HIDE DEF d, c
    <3>3. /\ disk'[Transfers[x].name] # Absent
          /\ \A n \in Names \ {Transfers[x].name} : disk'[n] = disk[n]
          /\ disk[Transfers[x].name] = SubSeq(d, 1, Len(d) - c)
               => disk'[Transfers[x].name] = d
      BY <2>3, <2>5, <3>1, DiskType
    <3>4. x \notin raced => disk'[Transfers[x].name] = Stored(x)'
      BY <2>5, <2>6, <3>2, <3>3
    <3> QED BY <1>1, <1>2, <2>2, <3>3, <3>4, DiskWritten
  <2> QED BY <2>7, <2>8
<1>9. CASE RecvEof(x)
  <2> DEFINE r == received[x]
             c == receiver[x].cursor
  <2>1. /\ receiver[x].pc = "body" /\ receiver'[x].pc = "footer"
        /\ receiver'[x].cursor = 0
        /\ UNCHANGED <<raced, outcome, received>>
        /\ WriteToDisk(x, r, c)
    BY <1>1, <1>9, RecvZeroEffect DEF RecvEof, RecvZero, historyVars
  <2>2. r \in Seq(Units) /\ c \in Nat /\ c <= Len(r)
    BY <1>1, TypeFacts, TransferFacts DEF LengthOK
  <2>3. /\ disk[Transfers[x].name] # Absent
        /\ x \notin raced => disk[Transfers[x].name] = SubSeq(r, 1, Len(r) - c)
    BY <2>1 DEF DiskInv, Stored
  <2>4. Stored(x)' = r
    <3>1. Stored(x)' = SubSeq(r, 1, Len(r) - 0) BY <2>1 DEF Stored
    <3>2. Len(r) - 0 = Len(r) BY <2>2
    <3> QED BY <2>2, <3>1, <3>2, AllOf
  <2> HIDE DEF r, c
  <2>5. /\ disk'[Transfers[x].name] # Absent
        /\ \A n \in Names \ {Transfers[x].name} : disk'[n] = disk[n]
        /\ disk[Transfers[x].name] = SubSeq(r, 1, Len(r) - c)
             => disk'[Transfers[x].name] = r
    BY <2>1, <2>2, <2>3, DiskType
  <2>6. x \notin raced => disk'[Transfers[x].name] = Stored(x)'
    BY <2>3, <2>4, <2>5
  <2> QED BY <1>1, <1>2, <2>1, <2>5, <2>6, DiskWritten
<1>10. CASE RecvFooter(x)
  <2>1. /\ receiver[x].pc = "footer" /\ receiver'[x].pc = "done"
        /\ UNCHANGED <<disk, raced, received>>
    BY <1>10, RecvFooterEffect, DoneFacts DEF RecvFooter
  <2>2. Stored(x) = received[x] BY <1>1, <2>1, StoredFacts DEF LengthOK
  <2> QED BY <1>2, <2>1, <2>2, DiskEnd
<1> QED BY <1>3, <1>4, <1>5, <1>6, <1>7, <1>8, <1>9, <1>10 DEF RecvStep
-----------------------------------------------------------------------------
(* The invariant.                                                          *)

LEMMA InvInit == Init => IInv
<1> SUFFICES ASSUME Init PROVE IInv OBVIOUS
<1>1. TypeOK BY InitType
<1>2. ASSUME NEW t \in T PROVE TransferInv(t)
  <2>1. /\ sender[t].pc = "idle" /\ sender[t].position = 0
        /\ sender[t].cursor = 0 /\ sender[t].hasher = <<>>
        /\ stream[t].units = <<>> /\ stream[t].closed = FALSE
        /\ receiver[t].pc = "idle" /\ receiver[t].cursor = 0
        /\ receiver[t].remaining = 0 /\ receiver[t].hasher = <<>>
        /\ received[t] = <<>> /\ outcome[t] = "none"
        /\ length[t] = Transfers[t].length /\ damage = {}
    BY DEF Init
  <2>2. /\ Transfers[t].length \in Nat
        /\ Transfers[t].buffer_size \in Nat /\ BufferSize \in Nat
    BY TransferFacts
  <2>3. Content(t, 0) = <<>> BY DEF Content
  <2>4. StreamOK(t)
    <3>1. Flushed(t) = 0 BY <2>1 DEF Flushed
    <3>2. Written(t) = <<>>
      <4>1. Written(t) = Content(t, 0) \o <<>> BY <2>1, <3>1 DEF Written
      <4> QED BY <2>3, <4>1
    <3>3. Came(t) = <<>>
      BY <2>1 DEF Came, HeaderDue, Behind
    <3>4. /\ Remains(<<>>, <<>>, 0, 0) /\ RemainsWhole(<<>>, <<>>, 0, 0)
      BY DEF Remains, RemainsWhole
    <3> QED BY <3>2, <3>3, <3>4 DEF StreamOK
  <2>5. HeaderOK(t) BY <2>1 DEF HeaderOK, HeaderDue, Disturbed
  <2>6. LengthOK(t) BY <2>1, <2>2 DEF LengthOK, Disturbed
  <2>7. SenderHashOK(t)
    <3>1. Flushed(t) = 0 BY <2>1 DEF Flushed
    <3>2. Hashed(sender[t].hasher, Content(t, Flushed(t)),
                 Transfers[t].buffer_size, 0)
      BY <2>1, <2>2, <2>3, <3>1, HashedNothing
    <3>3. Flushed(t) = Place(0, Transfers[t].buffer_size)
      BY <2>2, <3>1, PlaceFacts
    <3> QED BY <2>1, <3>2, <3>3 DEF SenderHashOK
  <2>8. ReceiverHashOK(t)
    <3>1. Stored(t) = <<>> BY <2>1 DEF Stored
    <3>2. Hashed(receiver[t].hasher, Stored(t), BufferSize, 0)
      BY <2>1, <2>2, <3>1, HashedNothing
    <3>3. Len(Stored(t)) = Place(0, BufferSize)
      BY <2>2, <3>1, PlaceFacts
    <3> QED BY <2>1, <3>2, <3>3 DEF ReceiverHashOK
  <2>9. UndisturbedOK(t) BY <2>1 DEF UndisturbedOK
  <2>10. OutcomeOK(t) BY <2>1 DEF OutcomeOK
  <2> QED BY <2>4, <2>5, <2>6, <2>7, <2>8, <2>9, <2>10 DEF TransferInv
<1>3. \A t \in T : outcome[t] = "none" /\ receiver[t].pc = "idle"
  BY DEF Init
<1>4. DiskInv BY <1>3 DEF DiskInv, OwnsFile
<1>5. AcceptedIsSent BY <1>3 DEF AcceptedIsSent
<1>6. FileIntact BY <1>3 DEF FileIntact
<1>7. UndisturbedIsAccepted BY <1>3 DEF UndisturbedIsAccepted
<1> QED BY <1>1, <1>2, <1>4, <1>5, <1>6, <1>7 DEF IInv

LEMMA InvStep == IInv /\ [Next]_vars => IInv'
<1> SUFFICES ASSUME IInv, [Next]_vars PROVE IInv' OBVIOUS
<1>1. /\ TypeOK /\ \A t \in T : TransferInv(t)
      /\ DiskInv /\ AcceptedIsSent /\ FileIntact /\ UndisturbedIsAccepted
  BY DEF IInv
<1>2. ASSUME NEW t \in T, Diode(t) \/ SendStep(t) \/ RecvStep(t)
      PROVE  IInv'
  <2>1. /\ StreamOK(t) /\ HeaderOK(t) /\ LengthOK(t) /\ SenderHashOK(t)
        /\ ReceiverHashOK(t) /\ UndisturbedOK(t) /\ OutcomeOK(t)
    BY <1>1 DEF TransferInv
  <2>2. verify' = verify /\ \A s \in T \ {t} : Same(s)
    BY <1>1, <1>2, OthersSame
  <2>3. TypeOK' BY <1>1, <1>2, <2>1, DiodeType, SendType, RecvType
  <2>4. TransferInv(t)'
    <3>1. StreamOK(t)' BY <1>1, <1>2, <2>1, StreamStep
    <3>2. HeaderOK(t)' BY <1>1, <1>2, <2>1, HeaderStep
    <3>3. LengthOK(t)' BY <1>1, <1>2, <2>1, LengthStep
    <3>4. SenderHashOK(t)' BY <1>1, <1>2, <2>1, SenderHashStep
    <3>5. ReceiverHashOK(t)' BY <1>1, <1>2, <2>1, ReceiverHashStep
    <3>6. UndisturbedOK(t)' BY <1>1, <1>2, <2>1, UndisturbedStep
    <3>7. OutcomeOK(t)' BY <1>1, <1>2, <2>1, OutcomeStep
    <3> QED BY <3>1, <3>2, <3>3, <3>4, <3>5, <3>6, <3>7 DEF TransferInv
  <2>5. \A s \in T : TransferInv(s)'
    <3> SUFFICES ASSUME NEW s \in T PROVE TransferInv(s)' OBVIOUS
    <3>1. CASE s = t BY <2>4, <3>1
    <3>2. CASE s # t BY <1>1, <2>2, <3>2, SameKeeps
    <3> QED BY <3>1, <3>2
  <2>6. DiskInv' /\ FileIntact' BY <1>1, <1>2, DiskStep
  <2>7. AcceptedIsSent'
    <3> SUFFICES ASSUME NEW s \in T, Accepted(s)'
                 PROVE  received'[s] = Content(s, Len(received'[s]))
      BY DEF AcceptedIsSent, Accepted, Content, Byte
    <3>1. Accepted(s) => received[s] = Content(s, Len(received[s]))
      BY <1>1 DEF AcceptedIsSent, Accepted
    <3>2. CASE s = t BY <1>1, <1>2, <2>2, <3>1, <3>2, AcceptedStep
    <3>3. CASE s # t
      <4>1. /\ outcome'[s] = outcome[s] /\ received'[s] = received[s]
            /\ \A w : Disturbed(s, w)' = Disturbed(s, w)
        BY <2>2, <3>3 DEF Same, Disturbed
      <4>2. Accepted(s) BY <2>2, <4>1 DEF Accepted
      <4> QED BY <3>1, <4>1, <4>2
    <3> QED BY <3>2, <3>3
  <2>8. UndisturbedIsAccepted'
    <3> SUFFICES ASSUME NEW s \in T, outcome'[s] # "none", Undisturbed(s)',
                        verify' => HashesAgree(s)
                 PROVE  outcome'[s] \in {"ok", "exists"}
      BY DEF UndisturbedIsAccepted, Undisturbed, HashesAgree
    <3>1. /\ outcome[s] # "none" /\ Undisturbed(s)
          /\ verify => HashesAgree(s)
          => outcome[s] \in {"ok", "exists"}
      BY <1>1 DEF UndisturbedIsAccepted, Undisturbed
    <3>2. CASE s = t BY <1>1, <1>2, <2>2, <3>1, <3>2, UndisturbedAccepts
    <3>3. CASE s # t
      <4>1. outcome'[s] = outcome[s] /\ Undisturbed(s)
        BY <2>2, <3>3 DEF Same, Undisturbed
      <4> QED BY <2>2, <3>1, <4>1
    <3> QED BY <3>2, <3>3
  <2> QED BY <2>3, <2>5, <2>6, <2>7, <2>8 DEF IInv
<1>3. CASE UNCHANGED vars
  <2>1. UNCHANGED <<verify, length, stream, damage, sender, receiver, disk,
                    outcome, received, raced>>
    BY <1>3 DEF vars, diodeVars, historyVars
  <2>2. TypeOK' BY <1>1, <2>1 DEF TypeOK
  <2>3. \A s \in T : TransferInv(s)'
    <3>1. \A s \in T : Same(s) BY <2>1 DEF Same
    <3> QED BY <1>1, <2>1, <3>1, SameKeeps
  <2>4. DiskInv' BY <1>1, <2>1 DEF DiskInv, OwnsFile, Stored
  <2>5. AcceptedIsSent' /\ FileIntact' /\ UndisturbedIsAccepted'
    BY <1>1, <2>1 DEF AcceptedIsSent, FileIntact, UndisturbedIsAccepted,
       Disturbed
  <2> QED BY <2>2, <2>3, <2>4, <2>5 DEF IInv
<1> QED BY <1>2, <1>3 DEF Next

LEMMA Invariance == Spec => []IInv
BY InvInit, InvStep, PTL DEF Spec

(* Every variable keeps its type: the cursors stay within the buffers, and *)
(* what is announced, hashed, sent and written are sequences of units, so  *)
(* no length of a transfer becomes negative (aux/file/send.rs,             *)
(* aux/file/receive.rs).                                                   *)
THEOREM TypeCorrect == Spec => []TypeOK
<1>1. IInv => TypeOK BY DEF IInv
<1> QED BY <1>1, Invariance, PTL

(* A file that receive_file reports as received is the beginning of the    *)
(* one that send_file sent, for files and buffers of any size, wherever    *)
(* the connection was cut and whatever one piece of it was lost            *)
(* (aux/file/receive.rs, receive_file).                                    *)
THEOREM AcceptedIsSentCorrect == Spec => []AcceptedIsSent
<1>1. IInv => AcceptedIsSent BY DEF IInv
<1> QED BY <1>1, Invariance, PTL

(* A file that was received stays on disk, whole, unless two threads       *)
(* looked for it before one of them had created it: between the exists and *)
(* the open of receive_file nothing keeps the name (aux/file/receive.rs).  *)
THEOREM FileIntactCorrect == Spec => []FileIntact
<1>1. IInv => FileIntact BY DEF IInv
<1> QED BY <1>1, Invariance, PTL

(* A transfer that nothing disturbs is accepted, however both ends cut it  *)
(* into buffers and reads, unless a file of its name is there: the hash    *)
(* that receive_file computes is the one that send_file put in the footer  *)
(* (aux/file/send.rs, aux/file/receive.rs).                                *)
THEOREM UndisturbedIsAcceptedCorrect == Spec => []UndisturbedIsAccepted
<1>1. IInv => UndisturbedIsAccepted BY DEF IInv
<1> QED BY <1>1, Invariance, PTL
=============================================================================
