--------------------------- MODULE ModularLemmas ---------------------------
(***************************************************************************)
(* Arithmetic modulo m, for the block numbers of lidi: a u8 that wraps     *)
(* from 255 to 0 (send/ordering.rs, receive/reblock.rs).                   *)
(***************************************************************************)
EXTENDS Integers, TLAPS

(* A multiple of m strictly between -m and m is 0. *)
LEMMA MulBound ==
  ASSUME NEW m \in Nat, m > 0, NEW d \in Int, -m < m * d, m * d < m
  PROVE d = 0
<1>1. CASE d >= 1
  <2>1. m * d >= m  BY <1>1
  <2> QED BY <2>1
<1>2. CASE d <= -1
  <2>1. m * d <= -m BY <1>2
  <2> QED BY <2>1
<1> QED BY <1>1, <1>2

(* Quotient and remainder of a natural number. *)
LEMMA DivMod ==
  ASSUME NEW m \in Nat, m > 0, NEW x \in Nat
  PROVE /\ x \div m \in Nat 
        /\ x % m \in 0..m-1
        /\ x = m * (x \div m) + (x % m)
  OBVIOUS

(* The remainder is the only r of 0..m-1 with x = m * q + r. *)
LEMMA ModUnique ==
  ASSUME NEW m \in Nat, m > 0, NEW x \in Nat, NEW q \in Int, NEW r \in 0..m-1,
         x = m * q + r
  PROVE x % m = r
<1> DEFINE Q == x \div m
<1> DEFINE R == x % m
<1>1. /\ Q \in Nat /\ R \in 0..m-1 /\ x = m * Q + R BY DivMod
<1> HIDE DEF Q, R
<1>2. m * (q - Q) = R - r
  <2>1. m * (q - Q) = m * q - m * Q BY <1>1
  <2>2. m * q \in Int /\ m * Q \in Int BY <1>1
  <2> QED BY <1>1, <2>1, <2>2
<1>3. q - Q = 0
  <2>1. q - Q \in Int BY <1>1
  <2> QED BY <1>1, <1>2, <2>1, MulBound
<1>4. R = r 
  BY <1>1, <1>3
<1> QED BY <1>4 DEF R

(* Counting modulo m one step at a time: what wrapping_add(1) does to a
   block number that is a count modulo 256. *)
LEMMA ModSucc ==
  ASSUME NEW m \in Nat, m > 1, NEW x \in Nat
  PROVE (x + 1) % m = ((x % m) + 1) % m
<1> DEFINE Q == x \div m
<1> DEFINE R == x % m
<1>1. /\ Q \in Nat /\ R \in 0..m-1 /\ x = m * Q + R BY DivMod
<1> HIDE DEF Q, R
<1>2. CASE R + 1 < m
  <2>1. m * Q \in Int BY <1>1
  <2>2. x + 1 = m * Q + (R + 1) BY <1>1, <2>1
  <2>3. (x + 1) % m = R + 1 BY <2>2, <1>1, <1>2, ModUnique
  <2>4. (R + 1) % m = R + 1 BY <1>1, <1>2
  <2> QED BY <2>3, <2>4 DEF R
<1>3. CASE R + 1 = m
  <2>1. m * Q \in Int /\ m * (Q+1) = m * Q + m BY <1>1
  <2>2. x + 1 = m * (Q + 1) + 0 BY <1>1, <1>3, <2>1
  <2>3. (x + 1) % m = 0 BY <2>2, <1>1, <1>3, ModUnique
  <2>4. (R + 1) % m = 0 BY <1>1, <1>3
  <2> QED BY <2>3, <2>4 DEF R
<1> QED BY <1>1, <1>2, <1>3

(* The same for any step, of a lap or more: the opposite slot, or a block
   far behind the one a decoder waits for. *)
LEMMA ModAdd ==
  ASSUME NEW m \in Nat, m > 1, NEW x \in Nat, NEW k \in Nat
  PROVE (x + k) % m = ((x % m) + k) % m
<1> DEFINE Q == x \div m
<1> DEFINE R == x % m
<1> DEFINE y == R + k
<1> DEFINE P == y \div m
<1> DEFINE S == y % m
<1>1. /\ Q \in Nat /\ R \in 0..m-1 /\ x = m * Q + R BY DivMod
<1>2. y \in Nat BY <1>1
<1>3. /\ P \in Nat /\ S \in 0..m-1 /\ y = m * P + S BY <1>2, DivMod
<1>4. y = R + k OBVIOUS
<1> HIDE DEF Q, R, P, S, y
<1>5. x + k = m * (Q + P) + S
  <2>1. m * Q \in Int /\ m * P \in Int /\ m * (Q + P) = m * Q + m * P
    BY <1>1, <1>3
  <2> QED BY <1>1, <1>3, <1>4, <2>1
<1>6. (x + k) % m = S
  <2> DEFINE z == x + k
  <2> DEFINE T == Q + P
  <2>1. z \in Nat /\ T \in Int /\ z = m * T + S BY <1>1, <1>3, <1>5
  <2> HIDE DEF z, T
  <2>2. z % m = S BY <1>3, <2>1, ModUnique
  <2> QED BY <2>2 DEF z
<1> QED BY <1>6 DEF S, y, R

(* Two counts less than m apart that have the same remainder are equal:
   why an 8-bit block number identifies a block within a lap. *)
LEMMA ModInj ==
  ASSUME NEW m \in Nat, m > 0, NEW x \in Nat, NEW y \in Nat,
         x <= y, y - x < m, x % m = y % m
  PROVE x = y
<1> DEFINE Q == x \div m
<1> DEFINE R == x % m
<1> DEFINE S == y \div m
<1>1. /\ Q \in Nat /\ R \in 0..m-1 /\ x = m * Q + R BY DivMod
<1>2. /\ S \in Nat /\ y = m * S + R BY DivMod
<1> HIDE DEF Q, R, S
<1>3. m * (S - Q) = y - x
  <2>1. m * (S - Q) = m * S - m * Q BY <1>1, <1>2
  <2>2. m * S \in Int /\ m * Q \in Int BY <1>1, <1>2
  <2> QED BY <1>1, <1>2, <2>1, <2>2
<1>4. S - Q = 0
  <2>1. S - Q \in Int BY <1>1, <1>2
  <2> QED BY <1>3, <2>1, MulBound
<1> QED BY <1>1, <1>2, <1>4
=============================================================================
